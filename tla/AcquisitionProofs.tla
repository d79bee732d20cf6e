--------------------------- MODULE AcquisitionProofs ---------------------------
(***************************************************************************)
(* Theorems about Acquisition, for any suites, plans, windows and permits. *)
(* The invariant has three layers on top of the types: where the permits   *)
(* are and who waits for them (PermitsInv); what the files of a task look  *)
(* like when it is untouched, under way or resolved (TasksInv); and what   *)
(* each suite's loop has seen of its tasks (SuitesInv).                    *)
(***************************************************************************)
EXTENDS Acquisition, FiniteSetTheorems, SequenceTheorems, TLAPS

-----------------------------------------------------------------------------
(* The inductive invariant *)

Maps       == UNION {[Files(k) -> Statuses] : k \in Tasks}
InProgress == {"started", "queued", "holding"}
IsShard(k) == k \in 1 .. Shards

AllFetches(F) ==
  /\ F \in [Suites -> [Tasks -> Maps]]
  /\ \A s \in Suites, k \in Tasks : F[s][k] \in [Files(k) -> Statuses]

TypesInv ==
  /\ TypeOK
  /\ AllFetches(fetch)
  /\ failures \in [Suites -> SUBSET Places]

\* Nobody waits twice.
PermitsInv ==
  /\ IsFiniteSet(Holders(fetch))
  /\ \A i, j \in DOMAIN queue : queue[i] = queue[j] => i = j
  /\ PermitsConserved

\* Until a task is resolved, exactly the files it may fetch are started.
TaskOK(s, k, G) ==
  /\ \A f \in Files(k) : /\ G[f] = "error" => <<s, k, f>> \in bad
                         /\ G[f] = "retained" => <<s, k, f>> \notin bad
  /\ \/ \A f \in Files(k) : G[f] = "todo"
     \/ /\ ~Resolved(G)
        /\ \A f \in Files(k) :
             /\ G[f] # "dropped"
             /\ f > Got(G) => (G[f] = "todo" <=> f \notin MayFetch(k, Got(G)))
     \/ /\ Resolved(G)
        /\ \A f \in Files(k) : G[f] \notin InProgress

TasksInv == \A s \in Suites, k \in Tasks : TaskOK(s, k, fetch[s][k])

Untouched(G) == G[1] = "todo"
Failed(s) == {k \in 1 .. Shards : <<s, k>> \in taken /\ ~Succeeded(fetch[s][k])}

\* Shards are scheduled in order.  While the suite has not stopped, one is in
\* flight as long as there is another to schedule.
AcquiringOK(s) ==
  /\ Succeeded(fetch[s][0])
  /\ s \in stopped <=> failures[s] # {}
  /\ failures[s] = {<<k, FailedFile(fetch[s][k])>> : k \in Failed(s)}
  /\ s \notin stopped /\ Unscheduled(s) # {} => InFlight(s) # {}
  /\ \A k \in 1 .. Shards :
       /\ ~Untouched(fetch[s][k]) =>
            \A j \in 1 .. Shards : j < k => ~Untouched(fetch[s][j])
       /\ <<s, k>> \in taken => Resolved(fetch[s][k])
       /\ ledger[s][k] = IF <<s, k>> \notin taken THEN "not_attempted"
                         ELSE IF Succeeded(fetch[s][k]) THEN "retained" ELSE "failed"

FirstBad(s, e) ==
  /\ <<s, e[1], e[2]>> \in bad
  /\ \A x \in bad : x[1] = s => ~Before(<<x[2], x[3]>>, e)

EndedOK(s) ==
  /\ suite[s] = "complete" => \A k \in Tasks : Succeeded(fetch[s][k])
  /\ suite[s] = "failed" => FirstBad(s, reported[s])
  /\ \A k \in Tasks : Untouched(fetch[s][k]) \/ Resolved(fetch[s][k])
  /\ \A k \in 1 .. Shards :
       IF Succeeded(fetch[s][k]) THEN ledger[s][k] = "retained"
       ELSE IF Resolved(fetch[s][k]) THEN ledger[s][k] = "failed"
       ELSE ledger[s][k] \in {"absent", "not_attempted"}

SuiteOK(s) ==
  /\ suite[s] = "idle" => Untouched(fetch[s][0])
  /\ suite[s] \in {"idle", "preparing"} =>
       /\ s \notin stopped /\ failures[s] = {}
       /\ \A k \in 1 .. Shards : /\ Untouched(fetch[s][k])
                                 /\ <<s, k>> \notin taken
                                 /\ ledger[s][k] = "absent"
  /\ suite[s] = "acquiring" => AcquiringOK(s)
  /\ Ended(s) => EndedOK(s)

SuitesInv == \A s \in Suites : SuiteOK(s)

AcquisitionInv == TypesInv /\ PermitsInv /\ TasksInv /\ SuitesInv

-----------------------------------------------------------------------------
(* Numbers and finite sets *)

(* A set of numbers that is not empty has a least one.                      *)
LEMMA LeastNumber ==
  ASSUME NEW T \in SUBSET Nat, T # {}
  PROVE  \E n \in T : \A m \in T : n <= m
<1>1. PICK n \in T : \A m \in T : <<m, n>> \notin OpToRel(<, Nat)
  BY NatLessThanWellFounded, WFMin
<1>2. \A m \in T : ~(m < n)
  BY <1>1 DEF OpToRel
<1> QED  BY <1>2

LEMMA LessOfTwo ==
  ASSUME NEW a \in Nat, NEW b \in Nat
  PROVE  /\ Min({a, b}) \in {a, b}
         /\ Min({a, b}) <= a /\ Min({a, b}) <= b
<1>1. \E x \in {a, b} : \A y \in {a, b} : x <= y
  OBVIOUS
<1> QED  BY <1>1 DEF Min

Count(k) == IF k = 0 THEN Plan ELSE Serial + Junits

LEMMA FilesOfTask ==
  ASSUME NEW k \in Tasks
  PROVE  /\ Files(k) = 1 .. Count(k)
         /\ Count(k) \in Nat \ {0}
         /\ 1 \in Files(k)
         /\ IsFiniteSet(Files(k)) /\ Cardinality(Files(k)) = Count(k)
<1>1. Files(k) = 1 .. Count(k) /\ Count(k) \in Nat \ {0}
  BY AcquisitionAssumption DEF Files, Count
<1> QED  BY <1>1, FS_Interval

(* What Got returns, and that nothing else is like it.                      *)
LEMMA GotIs ==
  ASSUME NEW N \in Nat, NEW G, DOMAIN G = 1 .. N
  PROVE  /\ Got(G) \in 0 .. N
         /\ \A f \in 1 .. Got(G) : G[f] = "retained"
         /\ Got(G) < N => G[Got(G) + 1] # "retained"
         /\ \A n \in 0 .. N :
              /\ \A f \in 1 .. n : G[f] = "retained"
              /\ n < N => G[n + 1] # "retained"
              => n = Got(G)
         /\ Succeeded(G) <=> Got(G) = N
         /\ Succeeded(G) <=> \A f \in 1 .. N : G[f] = "retained"
         /\ FirstError(G) # {} <=> Got(G) < N /\ G[Got(G) + 1] = "error"
         /\ Resolved(G) <=> Succeeded(G) \/ (Got(G) < N /\ G[Got(G) + 1] = "error")
<1>1. Cardinality(DOMAIN G) = N
  BY FS_Interval
<1> DEFINE Is(n) == /\ \A f \in 1 .. n : G[f] = "retained"
                    /\ n + 1 \in DOMAIN G => G[n + 1] # "retained"
           T == {n \in Nat : n + 1 \in DOMAIN G => G[n + 1] # "retained"}
<1>2. \E n \in 0 .. N : Is(n)
  <2>1. N \in T
    OBVIOUS
  <2>2. PICK n \in T : \A m \in T : n <= m
    <3> HIDE DEF T
    <3> T \in SUBSET Nat  BY DEF T
    <3> QED  BY <2>1, LeastNumber
  <2>3. n \in 0 .. N
    BY <2>1, <2>2
  <2>4. ASSUME NEW f \in 1 .. n PROVE G[f] = "retained"
    <3>1. f - 1 \in Nat /\ f - 1 \notin T
      BY <2>2
    <3> QED  BY <3>1
  <2> QED  BY <2>2, <2>3, <2>4
<1>3. Got(G) \in 0 .. N /\ Is(Got(G))
  <2>1. Got(G) = CHOOSE n \in 0 .. N : Is(n)
    BY <1>1 DEF Got
  <2> HIDE DEF Is
  <2> QED  BY <1>2, <2>1
<1>4. ASSUME NEW n \in 0 .. N,
             \A f \in 1 .. n : G[f] = "retained",
             n < N => G[n + 1] # "retained"
      PROVE  n = Got(G)
  <2>1. CASE n < Got(G)
    <3>1. n + 1 \in 1 .. Got(G)
      BY <1>3, <2>1
    <3> QED  BY <1>3, <1>4, <3>1
  <2>2. CASE n > Got(G)
    <3>1. Got(G) + 1 \in 1 .. n
      BY <1>3, <2>2
    <3> QED  BY <1>3, <1>4, <3>1
  <2> QED  BY <1>3, <2>1, <2>2
<1>5. Succeeded(G) <=> Got(G) = N
  BY <1>1 DEF Succeeded
<1>6. Succeeded(G) <=> \A f \in 1 .. N : G[f] = "retained"
  BY <1>3, <1>4, <1>5
<1>7. FirstError(G) # {} <=> Got(G) < N /\ G[Got(G) + 1] = "error"
  BY <1>3 DEF FirstError
<1> QED  BY <1>3, <1>4, <1>5, <1>6, <1>7 DEF Resolved

-----------------------------------------------------------------------------
(* The queue *)

IsQueued(F, x) == F[x[1]][x[2]][x[3]] = "queued"
Queued(F)      == {x \in Fetches : IsQueued(F, x)}
NoneTwice(q)   == \A i, j \in DOMAIN q : q[i] = q[j] => i = j

\* h[i] is what remains of the first i entries of the queue.
Extends(h, F, i) ==
  h[i] = IF i = 0 THEN <<>>
         ELSE IF IsQueued(F, queue[i]) THEN Append(h[i - 1], queue[i]) ELSE h[i - 1]

LEMMA AppendNew ==
  ASSUME NEW q \in Seq(Fetches), NEW x \in Fetches
  PROVE  /\ Append(q, x) \in Seq(Fetches)
         /\ ToSet(Append(q, x)) = ToSet(q) \cup {x}
         /\ NoneTwice(q) /\ x \notin ToSet(q) => NoneTwice(Append(q, x))
<1>1. /\ Append(q, x) \in Seq(Fetches)
      /\ DOMAIN Append(q, x) = 1 .. Len(q) + 1
      /\ DOMAIN q = 1 .. Len(q) /\ Len(q) \in Nat
      /\ \A i \in 1 .. Len(q) : Append(q, x)[i] = q[i]
      /\ Append(q, x)[Len(q) + 1] = x
  OBVIOUS
<1> DEFINE a == Append(q, x)
<1> HIDE DEF a
<1>2. ToSet(a) = ToSet(q) \cup {x}
  <2>1. ToSet(a) \subseteq ToSet(q) \cup {x}
    BY <1>1 DEF ToSet, a
  <2>2. ASSUME NEW y \in ToSet(q) PROVE y \in ToSet(a)
    <3>1. PICK i \in 1 .. Len(q) : y = q[i]
      BY <1>1 DEF ToSet
    <3>2. i \in DOMAIN a /\ a[i] = y
      BY <1>1, <3>1 DEF a
    <3> QED  BY <3>2 DEF ToSet
  <2>3. x \in ToSet(a)
    BY <1>1 DEF ToSet, a
  <2> QED  BY <2>1, <2>2, <2>3
<1>3. ASSUME NoneTwice(q), x \notin ToSet(q) PROVE NoneTwice(a)
  <2>1. \A i \in 1 .. Len(q) : q[i] # x
    BY <1>1, <1>3 DEF ToSet
  <2>2. ASSUME NEW i \in DOMAIN a, NEW j \in DOMAIN a, a[i] = a[j] PROVE i = j
    <3>1. i \in 1 .. Len(q) \/ i = Len(q) + 1
      BY <1>1, <2>2 DEF a
    <3>2. j \in 1 .. Len(q) \/ j = Len(q) + 1
      BY <1>1, <2>2 DEF a
    <3> QED  BY <1>1, <1>3, <2>1, <2>2, <3>1, <3>2 DEF NoneTwice, a
  <2> QED  BY <2>2 DEF NoneTwice
<1> QED  BY <1>1, <1>2, <1>3 DEF a

(* The recursion that defines Waiting has a solution.                       *)
LEMMA WaitingExists ==
  ASSUME NEW F, queue \in Seq(Fetches)
  PROVE  \E h : /\ DOMAIN h = 0 .. Len(queue)
                /\ h = [i \in 0 .. Len(queue) |-> h[i]]
                /\ \A i \in 0 .. Len(queue) : Extends(h, F, i)
<1> DEFINE Solves(h, n) == /\ h = [i \in 0 .. n |-> h[i]]
                           /\ \A i \in 0 .. n : Extends(h, F, i)
           Bad == {n \in Nat : ~\E h : Solves(h, n)}
<1>1. Bad = {}
  <2> SUFFICES ASSUME Bad # {} PROVE FALSE
    OBVIOUS
  <2>1. PICK n \in Bad : \A m \in Bad : n <= m
    <3> HIDE DEF Bad
    <3> Bad \in SUBSET Nat  BY DEF Bad
    <3> QED  BY LeastNumber
  <2>2. CASE n = 0
    <3>1. Solves([i \in 0 .. 0 |-> <<>>], 0)
      BY DEF Extends
    <3> QED  BY <2>2, <3>1
  <2>3. CASE n # 0
    <3>1. n - 1 \in Nat /\ n - 1 \notin Bad
      BY <2>1, <2>3
    <3>2. PICK h : Solves(h, n - 1)
      BY <3>1
    <3> DEFINE last == IF IsQueued(F, queue[n]) THEN Append(h[n - 1], queue[n])
                       ELSE h[n - 1]
               g == [i \in 0 .. n |-> IF i = n THEN last ELSE h[i]]
    <3>3. \A i \in 0 .. n - 1 : g[i] = h[i]
      BY <2>1
    <3>4. g[n] = last
      BY <2>1
    <3>5. ASSUME NEW i \in 0 .. n PROVE Extends(g, F, i)
      <4> HIDE DEF g
      <4>1. CASE i = n
        <5>1. g[n - 1] = h[n - 1]
          BY <3>1, <3>3
        <5> QED  BY <2>3, <3>4, <4>1, <5>1 DEF Extends
      <4>2. CASE i # n
        <5>1. i \in 0 .. n - 1 /\ Extends(h, F, i)
          BY <3>2, <4>2
        <5>2. i # 0 => i - 1 \in 0 .. n - 1
          BY <5>1
        <5> QED  BY <3>3, <5>1, <5>2 DEF Extends
      <4> QED  BY <4>1, <4>2
    <3>6. Solves(g, n)
      BY <3>5
    <3> QED  BY <3>6
  <2> QED  BY <2>2, <2>3
<1>2. Len(queue) \in Nat
  OBVIOUS
<1>3. PICK h : Solves(h, Len(queue))
  BY <1>1, <1>2
<1>4. DOMAIN h = 0 .. Len(queue)
  BY <1>3
<1> QED  BY <1>3, <1>4

(* Waiting(F) is a queue of those that are queued in F.                     *)
LEMMA WaitingIs ==
  ASSUME NEW F, queue \in Seq(Fetches), NoneTwice(queue)
  PROVE  /\ Waiting(F) \in Seq(Fetches)
         /\ ToSet(Waiting(F)) = {x \in ToSet(queue) : IsQueued(F, x)}
         /\ NoneTwice(Waiting(F))
<1> DEFINE N == Len(queue)
           P(h) == h = [i \in 0 .. N |->
                     IF i = 0 THEN <<>>
                     ELSE IF IsQueued(F, queue[i]) THEN Append(h[i - 1], queue[i])
                          ELSE h[i - 1]]
<1>1. \E h : P(h)
  <2>1. PICK h : /\ h = [i \in 0 .. N |-> h[i]]
                 /\ \A i \in 0 .. N : Extends(h, F, i)
    BY WaitingExists
  <2>2. P(h)
    BY <2>1 DEF Extends
  <2> QED  BY <2>2
<1> DEFINE w == CHOOSE h : P(h)
<1>2. P(w)
  BY <1>1
<1>3. Waiting(F) = w[N]
  BY DEF Waiting, IsQueued
<1> HIDE DEF w
<1> DEFINE First(i) == {queue[j] : j \in {k \in 1 .. i : IsQueued(F, queue[k])}}
           Right(i) == /\ w[i] \in Seq(Fetches)
                       /\ ToSet(w[i]) = First(i)
                       /\ NoneTwice(w[i])
           Wrong == {i \in 0 .. N : ~Right(i)}
<1>4. N \in Nat /\ DOMAIN queue = 1 .. N /\ \A i \in 1 .. N : queue[i] \in Fetches
  OBVIOUS
<1> HIDE DEF Right
<1>5. Wrong = {}
  <2> SUFFICES ASSUME Wrong # {} PROVE FALSE
    OBVIOUS
  <2>1. PICK i \in Wrong : \A j \in Wrong : i <= j
    <3> HIDE DEF Wrong
    <3> Wrong \in SUBSET Nat  BY <1>4 DEF Wrong
    <3> QED  BY LeastNumber
  <2>2. CASE i = 0
    <3>1. w[0] = <<>>
      BY <1>2, <1>4
    <3>2. First(0) = {} /\ ToSet(<<>>) = {} /\ NoneTwice(<<>>)
      BY DEF ToSet, NoneTwice
    <3>3. Right(0)
      <4> HIDE DEF First
      <4>1. w[0] \in Seq(Fetches)
        BY <3>1
      <4>2. ToSet(w[0]) = First(0)
        BY <3>1, <3>2
      <4>3. NoneTwice(w[0])
        BY <3>1, <3>2
      <4> QED  BY <4>1, <4>2, <4>3 DEF Right
    <3> QED  BY <2>1, <2>2, <3>3
  <2>3. CASE i # 0
    <3>1. i \in 1 .. N /\ i - 1 \in 0 .. N /\ i - 1 \notin Wrong
      <4>1. i \in 0 .. N
        OBVIOUS
      <4>2. i \in 1 .. N /\ i - 1 \in 0 .. N
        BY <1>4, <2>3, <4>1
      <4>3. ~(i <= i - 1)
        BY <4>2
      <4> QED  BY <2>1, <4>2, <4>3
    <3>2. Right(i - 1)
      BY <3>1
    <3>3. w[i] = IF IsQueued(F, queue[i]) THEN Append(w[i - 1], queue[i])
                 ELSE w[i - 1]
      <4> i \in 0 .. N  BY <1>4, <3>1
      <4>1. w[i] = IF i = 0 THEN <<>>
                   ELSE IF IsQueued(F, queue[i]) THEN Append(w[i - 1], queue[i])
                        ELSE w[i - 1]
        BY <1>2
      <4> QED  BY <2>3, <4>1
    <3>4. queue[i] \in Fetches /\ queue[i] \notin First(i - 1)
      BY <1>4, <3>1 DEF NoneTwice
    <3>5. CASE IsQueued(F, queue[i])
      <4>1. First(i) = First(i - 1) \cup {queue[i]}
        BY <3>1, <3>5
      <4> HIDE DEF First
      <4>2. Right(i)
        BY <3>2, <3>3, <3>4, <3>5, <4>1, AppendNew DEF Right
      <4> QED  BY <2>1, <4>2
    <3>6. CASE ~IsQueued(F, queue[i])
      <4>1. First(i) = First(i - 1)
        BY <3>1, <3>6
      <4> HIDE DEF First
      <4>2. Right(i)
        BY <3>2, <3>3, <3>6, <4>1 DEF Right
      <4> QED  BY <2>1, <4>2
    <3> QED  BY <3>5, <3>6
  <2> QED  BY <2>2, <2>3
<1>6. Right(N)
  <2> N \in 0 .. N  BY <1>4
  <2> QED  BY <1>5
<1>7. First(N) = {x \in ToSet(queue) : IsQueued(F, x)}
  BY <1>4 DEF ToSet
<1> HIDE DEF First
<1> QED  BY <1>3, <1>6, <1>7 DEF Right

LEMMA FetchIs ==
  /\ \A x \in Fetches : /\ x = <<x[1], x[2], x[3]>>
                        /\ x[1] \in Suites /\ x[2] \in Tasks /\ x[3] \in Files(x[2])
  /\ \A s \in Suites, k \in Tasks : \A f \in Files(k) : <<s, k, f>> \in Fetches
<1>1. ASSUME NEW s \in Suites, NEW k \in Tasks, NEW f \in Files(k)
      PROVE  <<s, k, f>> \in Fetches
  <2> DEFINE T == {<<s, k, g>> : g \in Files(k)}
  <2>1. <<s, k, f>> \in T
    OBVIOUS
  <2>2. T \in {{<<t, j, g>> : g \in Files(j)} : t \in Suites, j \in Tasks}
    OBVIOUS
  <2> HIDE DEF T
  <2> QED  BY <2>1, <2>2 DEF Fetches
<1>2. ASSUME NEW x \in Fetches
      PROVE  /\ x = <<x[1], x[2], x[3]>>
             /\ x[1] \in Suites /\ x[2] \in Tasks /\ x[3] \in Files(x[2])
  <2>1. PICK s \in Suites, k \in Tasks : x \in {<<s, k, f>> : f \in Files(k)}
    BY DEF Fetches
  <2> QED  BY <2>1
<1> QED  BY <1>1, <1>2

(* A set of n different entries has n members.                              *)
LEMMA ServedCount ==
  ASSUME NEW w, NEW n \in Nat,
         \A i, j \in 1 .. n : w[i] = w[j] => i = j
  PROVE  /\ IsFiniteSet({w[i] : i \in 1 .. n})
         /\ Cardinality({w[i] : i \in 1 .. n}) = n
<1> DEFINE T == {w[i] : i \in 1 .. n}
           g == [i \in 1 .. n |-> w[i]]
<1>1. IsFiniteSet(1 .. n) /\ Cardinality(1 .. n) = n
  BY FS_Interval
<1>2. g \in Surjection(1 .. n, T)
  BY DEF Surjection
<1>3. g \in Injection(1 .. n, T)
  BY DEF Injection, IsInjective
<1> QED  BY <1>1, <1>2, <1>3, FS_Surjection

(* Permits that are set free go to those who waited longest; the others     *)
(* wait on, and only if no permit is left.                                  *)
LEMMA BecomeServes ==
  ASSUME TypesInv, PermitsInv, NEW F, AllFetches(F), Become(F),
         Holders(F) \subseteq Holders(fetch), Queued(F) \subseteq Queued(fetch)
  PROVE  /\ AllFetches(fetch')
         /\ queue' \in Seq(Fetches)
         /\ PermitsInv'
         /\ \A s \in Suites, k \in Tasks : \A f \in Files(k) :
              \/ fetch'[s][k][f] = F[s][k][f]
              \/ F[s][k][f] = "queued" /\ fetch'[s][k][f] = "holding"
<1>a. PICK w : w = Waiting(F)
  OBVIOUS
<1>l. PICK l : l = Len(w)
  OBVIOUS
<1>b. PICK n : n = Min({Free(F), l})
  OBVIOUS
<1> DEFINE served == {w[i] : i \in 1 .. n}
<1>1. /\ w \in Seq(Fetches) /\ NoneTwice(w)
      /\ ToSet(w) = Queued(F)
  <2>1. queue \in Seq(Fetches) /\ NoneTwice(queue) /\ ToSet(queue) = Queued(fetch)
    BY DEF TypesInv, TypeOK, PermitsInv, PermitsConserved, NoneTwice, Queued, IsQueued
  <2>2. /\ w \in Seq(Fetches) /\ NoneTwice(w)
        /\ ToSet(w) = {x \in ToSet(queue) : IsQueued(F, x)}
    BY <1>a, <2>1, WaitingIs
  <2> QED  BY <2>1, <2>2 DEF Queued
<1>2. /\ IsFiniteSet(Holders(F))
      /\ Cardinality(Holders(F)) \in 0 .. Concurrency
      /\ Free(F) \in Nat /\ Free(F) = Concurrency - Cardinality(Holders(F))
  <2>1. /\ IsFiniteSet(Holders(F))
        /\ Cardinality(Holders(F)) <= Cardinality(Holders(fetch))
    BY FS_Subset DEF PermitsInv
  <2>2. Cardinality(Holders(F)) \in Nat /\ Cardinality(Holders(fetch)) \in Nat
    BY <2>1, FS_CardinalityType DEF PermitsInv
  <2>3. Cardinality(Holders(fetch)) <= Concurrency
    BY DEF PermitsInv, PermitsConserved
  <2> QED  BY <2>1, <2>2, <2>3, AcquisitionAssumption DEF Free
<1>c. DOMAIN w = 1 .. l
  BY <1>l, <1>1
<1>3. /\ l \in Nat /\ n \in 0 .. l
      /\ n = Free(F) \/ n = l
      /\ n <= Free(F)
  <2>1. l \in Nat
    BY <1>l, <1>1
  <2>2. n \in {Free(F), l} /\ n <= Free(F) /\ n <= l
    BY <1>b, <1>2, <2>1, LessOfTwo
  <2> QED  BY <1>2, <2>1, <2>2
<1>4. /\ fetch' = [s \in Suites |-> [k \in Tasks |-> [f \in Files(k) |->
                     IF <<s, k, f>> \in served THEN "holding" ELSE F[s][k][f]]]]
      /\ queue' = SubSeq(w, n + 1, l)
  BY <1>a, <1>b, <1>l DEF Become
<1>5. \A i \in 1 .. l : w[i] \in Fetches /\ w[i] \in Queued(F)
  <2>1. \A i \in 1 .. l : w[i] \in Fetches
    BY <1>1, <1>l
  <2>2. DOMAIN w = 1 .. l
    BY <1>c
  <2>3. \A i \in DOMAIN w : w[i] \in ToSet(w)
    BY DEF ToSet
  <2> QED  BY <1>1, <2>1, <2>2, <2>3
<1>6. served \subseteq Queued(F)
  BY <1>3, <1>5
<1>7. IsFiniteSet(served) /\ Cardinality(served) = n
  <2>1. n \in Nat /\ \A i, j \in 1 .. n : w[i] = w[j] => i = j
    BY <1>1, <1>3, <1>c DEF NoneTwice
  <2> QED  BY <2>1, ServedCount
<1>8. \A s \in Suites, k \in Tasks : \A f \in Files(k) :
        fetch'[s][k][f] = IF <<s, k, f>> \in served THEN "holding" ELSE F[s][k][f]
  <2> HIDE DEF served
  <2> QED  BY <1>4
<1>9. AllFetches(fetch')
  <2> HIDE DEF served
  <2>1. ASSUME NEW s \in Suites, NEW k \in Tasks
        PROVE  fetch'[s][k] \in [Files(k) -> Statuses]
    <3>1. fetch'[s][k] = [f \in Files(k) |->
                     IF <<s, k, f>> \in served THEN "holding" ELSE F[s][k][f]]
      BY <1>4
    <3>2. \A f \in Files(k) : F[s][k][f] \in Statuses
      BY DEF AllFetches
    <3> QED  BY <3>1, <3>2 DEF Statuses
  <2>2. \A s \in Suites, k \in Tasks : fetch'[s][k] \in Maps
    BY <2>1 DEF Maps
  <2>3. fetch' = [s \in Suites |-> [k \in Tasks |-> fetch'[s][k]]]
    BY <1>4
  <2>4. fetch' \in [Suites -> [Tasks -> Maps]]
    BY <2>2, <2>3
  <2> QED  BY <2>1, <2>4 DEF AllFetches
<1>10. \A x \in Fetches :
         fetch'[x[1]][x[2]][x[3]]
           = IF x \in served THEN "holding" ELSE F[x[1]][x[2]][x[3]]
  <2> HIDE DEF served
  <2> QED  BY <1>8, FetchIs
<1>11. Holders(fetch') = Holders(F) \cup served
  <2>1. served \subseteq Fetches
    BY <1>6 DEF Queued
  <2> HIDE DEF served
  <2> QED  BY <1>10, <2>1 DEF Holders
<1>12. Queued(fetch') = Queued(F) \ served
  <2> HIDE DEF served
  <2> QED  BY <1>10 DEF Queued, IsQueued
<1>13. /\ IsFiniteSet(Holders(fetch'))
       /\ Cardinality(Holders(fetch')) = Cardinality(Holders(F)) + n
  <2>1. Holders(F) \cap served = {}
    BY <1>6 DEF Holders, Queued, IsQueued
  <2> HIDE DEF served
  <2>2. Cardinality(Holders(F) \cap served) = 0
    BY <2>1, FS_EmptySet
  <2>3. Cardinality(Holders(F)) \in Nat /\ n \in Nat
    BY <1>2, <1>3
  <2>4. /\ IsFiniteSet(Holders(F) \cup served)
        /\ Cardinality(Holders(F) \cup served)
             = Cardinality(Holders(F)) + Cardinality(served)
                 - Cardinality(Holders(F) \cap served)
    BY <1>2, <1>7, FS_Union
  <2> QED  BY <1>7, <1>11, <2>2, <2>3, <2>4
<1>14. /\ queue' \in Seq(Fetches)
       /\ Len(queue') = l - n /\ DOMAIN queue' = 1 .. l - n
       /\ \A i \in 1 .. l - n : queue'[i] = w[n + i]
  <2>1. w \in Seq(Fetches) /\ n + 1 \in 1 .. l + 1
    BY <1>1, <1>3
  <2>2. \A i \in n + 1 .. l : i \in 1 .. l
    BY <1>3
  <2> HIDE DEF served
  <2> QED  BY <1>3, <1>4, <1>l, <2>1, <2>2
<1>15. NoneTwice(queue')
  <2> SUFFICES ASSUME NEW i \in 1 .. l - n, NEW j \in 1 .. l - n,
                      w[n + i] = w[n + j]
               PROVE  i = j
    BY <1>14 DEF NoneTwice
  <2>1. n + i \in 1 .. l /\ n + j \in 1 .. l
    BY <1>3
  <2>2. n + i = n + j
    BY <1>1, <1>3, <1>c, <2>1 DEF NoneTwice
  <2> QED  BY <1>3, <2>2
<1>16. ToSet(queue') = Queued(fetch')
  <2>1. ASSUME NEW x \in ToSet(queue') PROVE x \in Queued(F) \ served
    <3>1. PICK i \in 1 .. l - n : x = w[n + i]
      BY <1>14, <2>1 DEF ToSet
    <3>2. n + i \in 1 .. l /\ n + i > n
      BY <1>3
    <3>3. \A j \in 1 .. n : w[j] # x
      BY <1>1, <1>3, <1>c, <3>1, <3>2 DEF NoneTwice
    <3> QED  BY <1>5, <3>1, <3>2, <3>3
  <2>2. ASSUME NEW x \in Queued(F) \ served PROVE x \in ToSet(queue')
    <3>1. PICK i \in 1 .. l : x = w[i]
      BY <1>1, <1>c DEF ToSet
    <3>2. i > n
      BY <1>3, <3>1
    <3>3. i - n \in 1 .. l - n /\ n + (i - n) = i
      BY <1>3, <3>2
    <3>4. i - n \in DOMAIN queue' /\ queue'[i - n] = x
      BY <1>14, <3>1, <3>3
    <3> QED  BY <3>4 DEF ToSet
  <2> HIDE DEF served
  <2> QED  BY <1>12, <2>1, <2>2
<1>17. Cardinality(Holders(fetch')) <= Concurrency
  BY <1>2, <1>3, <1>13, AcquisitionAssumption
<1>18. ASSUME queue' # <<>> PROVE Cardinality(Holders(fetch')) = Concurrency
  <2>1. Len(queue') # 0
    BY <1>14, <1>18
  <2>2. n # l
    BY <1>3, <1>14, <2>1
  <2> QED  BY <1>2, <1>3, <1>13, <2>2, AcquisitionAssumption
<1>19. PermitsInv'
  <2> HIDE DEF served
  <2> QED  BY <1>13, <1>15, <1>16, <1>17, <1>18
           DEF PermitsInv, PermitsConserved, NoneTwice, Queued, IsQueued
<1>20. \A s \in Suites, k \in Tasks : \A f \in Files(k) :
         \/ fetch'[s][k][f] = F[s][k][f]
         \/ F[s][k][f] = "queued" /\ fetch'[s][k][f] = "holding"
  <2>1. \A s \in Suites, k \in Tasks : \A f \in Files(k) :
          <<s, k, f>> \in served => F[s][k][f] = "queued"
    <3>1. \A x \in served : IsQueued(F, x)
      BY <1>6 DEF Queued
    <3> HIDE DEF served
    <3> QED  BY <3>1 DEF IsQueued
  <2> HIDE DEF served
  <2> TAKE s \in Suites, k \in Tasks
  <2> TAKE f \in Files(k)
  <2>2. CASE <<s, k, f>> \in served
    BY <1>8, <2>1, <2>2
  <2>3. CASE <<s, k, f>> \notin served
    BY <1>8, <2>3
  <2> QED  BY <2>2, <2>3
<1> QED  BY <1>9, <1>14, <1>19, <1>20

-----------------------------------------------------------------------------
(* The files of one task *)

LEMMA MayFetchGrows ==
  ASSUME NEW k \in Tasks, NEW n \in Nat, NEW m \in Nat, n <= m
  PROVE  MayFetch(k, n) \subseteq 1 .. m \cup MayFetch(k, m)
BY AcquisitionAssumption DEF MayFetch

LEMMA MayFetchNext ==
  ASSUME NEW k \in Tasks, NEW n \in Nat
  PROVE  n + 1 \in MayFetch(k, n) /\ \A f \in MayFetch(k, n) : f > n
BY AcquisitionAssumption DEF MayFetch

(* A task is untouched, under way or resolved.                              *)
LEMMA TaskShape ==
  ASSUME NEW s, NEW k \in Tasks, NEW G \in [Files(k) -> Statuses], TaskOK(s, k, G)
  PROVE  /\ Untouched(G) <=> \A f \in Files(k) : G[f] = "todo"
         /\ Resolved(G) => ~Untouched(G)
         /\ \A f \in Files(k) : G[f] \in InProgress =>
              ~Untouched(G) /\ ~Resolved(G) /\ f > Got(G)
<1> PICK N : N = Count(k)
  OBVIOUS
<1>1. Files(k) = 1 .. N /\ N \in Nat \ {0} /\ DOMAIN G = 1 .. N
  BY FilesOfTask
<1>2. /\ Got(G) \in 0 .. N
      /\ \A f \in 1 .. Got(G) : G[f] = "retained"
      /\ Succeeded(G) <=> Got(G) = N
      /\ Resolved(G) <=> Succeeded(G) \/ (Got(G) < N /\ G[Got(G) + 1] = "error")
  BY <1>1, GotIs
<1>3. 1 \in 1 .. N
  BY <1>1
<1>4. CASE \A f \in Files(k) : G[f] = "todo"
  <2>1. Got(G) = 0
    BY <1>1, <1>2, <1>4
  <2>2. G[1] = "todo" /\ ~Resolved(G)
    BY <1>1, <1>2, <1>3, <1>4, <2>1
  <2> QED  BY <1>4, <2>2 DEF Untouched, InProgress
<1>5. CASE /\ ~Resolved(G)
           /\ \A f \in Files(k) :
                /\ G[f] # "dropped"
                /\ f > Got(G) => (G[f] = "todo" <=> f \notin MayFetch(k, Got(G)))
  <2>1. G[1] # "todo"
    <3>1. CASE Got(G) = 0
      <4>1. 1 \in MayFetch(k, Got(G)) /\ 1 > Got(G)
        BY <3>1, MayFetchNext
      <4> QED  BY <1>1, <1>3, <1>5, <4>1
    <3>2. CASE Got(G) # 0
      <4>1. 1 \in 1 .. Got(G)
        BY <1>2, <3>2
      <4> QED  BY <1>2, <4>1
    <3> QED  BY <3>1, <3>2
  <2>2. \A f \in 1 .. N : G[f] \in InProgress => f > Got(G)
    BY <1>2 DEF InProgress
  <2> QED  BY <1>1, <1>3, <1>5, <2>1, <2>2 DEF Untouched
<1>6. CASE Resolved(G) /\ \A f \in Files(k) : G[f] \notin InProgress
  <2>1. G[1] # "todo"
    <3>1. CASE Got(G) = 0
      BY <1>1, <1>2, <1>6, <3>1
    <3>2. CASE Got(G) # 0
      <4>1. 1 \in 1 .. Got(G)
        BY <1>2, <3>2
      <4> QED  BY <1>2, <4>1
    <3> QED  BY <3>1, <3>2
  <2> QED  BY <1>1, <1>3, <1>6, <2>1 DEF Untouched
<1> QED  BY <1>4, <1>5, <1>6 DEF TaskOK

(* Two assignments with the same results are at the same place.             *)
LEMMA SameResults ==
  ASSUME NEW k \in Tasks, NEW G, NEW H, DOMAIN G = Files(k), DOMAIN H = Files(k),
         \A f \in Files(k) : /\ G[f] = "retained" <=> H[f] = "retained"
                             /\ G[f] = "error" <=> H[f] = "error"
  PROVE  /\ Got(H) = Got(G)
         /\ Succeeded(H) <=> Succeeded(G)
         /\ Resolved(H) <=> Resolved(G)
<1> PICK N : N = Count(k)
  OBVIOUS
<1>1. Files(k) = 1 .. N /\ N \in Nat \ {0}
  BY FilesOfTask
<1>2. Got(G) \in 0 .. N /\ Got(H) \in 0 .. N
  BY <1>1, GotIs
<1>3. /\ \A f \in 1 .. Got(G) : H[f] = "retained"
      /\ Got(G) < N => H[Got(G) + 1] # "retained"
  <2>1. /\ \A f \in 1 .. Got(G) : G[f] = "retained"
        /\ Got(G) < N => G[Got(G) + 1] # "retained"
    BY <1>1, GotIs
  <2>2. 1 .. Got(G) \subseteq Files(k) /\ (Got(G) < N => Got(G) + 1 \in Files(k))
    BY <1>1, <1>2
  <2> QED  BY <2>1, <2>2
<1>4. Got(H) = Got(G)
  <2>1. \A n \in 0 .. N :
          /\ \A f \in 1 .. n : H[f] = "retained"
          /\ n < N => H[n + 1] # "retained"
          => n = Got(H)
    <3>1. DOMAIN H = 1 .. N /\ N \in Nat
      BY <1>1
    <3> QED  BY <3>1, GotIs
  <2> QED  BY <1>2, <1>3, <2>1
<1>5. Succeeded(H) <=> Succeeded(G)
  BY <1>1, <1>4, GotIs
<1>6. Resolved(H) <=> Resolved(G)
  <2>1. Got(G) < N => (G[Got(G) + 1] = "error" <=> H[Got(G) + 1] = "error")
    BY <1>1, <1>2
  <2>2. Resolved(G) <=> Succeeded(G) \/ (Got(G) < N /\ G[Got(G) + 1] = "error")
    BY <1>1, GotIs
  <2>3. Resolved(H) <=> Succeeded(H) \/ (Got(H) < N /\ H[Got(H) + 1] = "error")
    BY <1>1, GotIs
  <2> QED  BY <1>4, <1>5, <2>1, <2>2, <2>3
<1> QED  BY <1>4, <1>5, <1>6

(* A download that goes on changes nothing for its task.                    *)
Moved(G, H) == \A f \in DOMAIN G : \/ H[f] = G[f]
                                   \/ G[f] \in InProgress /\ H[f] \in InProgress

LEMMA TaskMoves ==
  ASSUME NEW s, NEW k \in Tasks, NEW G \in [Files(k) -> Statuses],
         NEW H \in [Files(k) -> Statuses], Moved(G, H), TaskOK(s, k, G)
  PROVE  TaskOK(s, k, H)
<1>1. \A f \in Files(k) :
        \/ H[f] = G[f]
        \/ G[f] \in InProgress /\ H[f] \in InProgress
  BY DEF Moved
<1>2. Got(H) = Got(G) /\ (Resolved(H) <=> Resolved(G))
  <2>1. \A f \in Files(k) : /\ G[f] = "retained" <=> H[f] = "retained"
                            /\ G[f] = "error" <=> H[f] = "error"
    BY <1>1 DEF InProgress
  <2> QED  BY <2>1, SameResults
<1>3. \A f \in Files(k) : /\ H[f] = "error" => <<s, k, f>> \in bad
                          /\ H[f] = "retained" => <<s, k, f>> \notin bad
  BY <1>1 DEF TaskOK, InProgress
<1>4. CASE \A f \in Files(k) : G[f] = "todo"
  <2>1. \A f \in Files(k) : H[f] = "todo"
    BY <1>1, <1>4 DEF InProgress
  <2> QED  BY <1>3, <2>1 DEF TaskOK
<1>5. CASE /\ ~Resolved(G)
           /\ \A f \in Files(k) :
                /\ G[f] # "dropped"
                /\ f > Got(G) => (G[f] = "todo" <=> f \notin MayFetch(k, Got(G)))
  <2>1. \A f \in Files(k) :
          H[f] # "dropped" /\ (H[f] = "todo" <=> G[f] = "todo")
    BY <1>1, <1>5 DEF InProgress
  <2>2. \A f \in Files(k) :
          f > Got(H) => (H[f] = "todo" <=> f \notin MayFetch(k, Got(H)))
    BY <1>2, <1>5, <2>1
  <2> QED  BY <1>2, <1>3, <1>5, <2>1, <2>2 DEF TaskOK
<1>6. CASE Resolved(G) /\ \A f \in Files(k) : G[f] \notin InProgress
  <2>1. \A f \in Files(k) : H[f] \notin InProgress
    BY <1>1, <1>6
  <2> QED  BY <1>2, <1>3, <1>6, <2>1 DEF TaskOK
<1> QED  BY <1>4, <1>5, <1>6 DEF TaskOK

(* The task is polled for the first time.                                   *)
LEMMA TaskBegins ==
  ASSUME NEW s, NEW k \in Tasks, NEW G \in [Files(k) -> Statuses],
         \A f \in Files(k) : G[f] = "todo"
  PROVE  /\ Continue(k, G) \in [Files(k) -> {"todo", "started"}]
         /\ TaskOK(s, k, Continue(k, G))
         /\ ~Untouched(Continue(k, G))
         /\ ~Resolved(Continue(k, G))
<1> PICK N : N = Count(k)
  OBVIOUS
<1>1. Files(k) = 1 .. N /\ N \in Nat \ {0} /\ DOMAIN G = 1 .. N /\ 1 \in Files(k)
  BY FilesOfTask
<1> PICK H : H = Continue(k, G)
  OBVIOUS
<1>2. Got(G) = 0 /\ ~Resolved(G)
  <2>1. /\ Got(G) \in 0 .. N
        /\ \A f \in 1 .. Got(G) : G[f] = "retained"
        /\ Resolved(G) <=> Succeeded(G) \/ (Got(G) < N /\ G[Got(G) + 1] = "error")
        /\ Succeeded(G) <=> Got(G) = N
    BY <1>1, GotIs
  <2>2. Got(G) = 0
    BY <1>1, <2>1
  <2> QED  BY <1>1, <2>1, <2>2
<1>3. H = [f \in Files(k) |-> IF f \in MayFetch(k, 0) THEN "started" ELSE "todo"]
  BY <1>1, <1>2 DEF Continue
<1>4. H \in [Files(k) -> {"todo", "started"}] /\ H \in [Files(k) -> Statuses]
  BY <1>3 DEF Statuses
<1>5. Got(H) = 0 /\ (Resolved(H) <=> Resolved(G))
  BY <1>1, <1>2, <1>4, SameResults
<1>6. 1 \in MayFetch(k, 0)
  BY MayFetchNext
<1>7. ~Untouched(H) /\ ~Resolved(H)
  BY <1>1, <1>2, <1>3, <1>5, <1>6 DEF Untouched
<1>8. TaskOK(s, k, H)
  BY <1>2, <1>3, <1>5 DEF TaskOK
<1> QED  BY <1>4, <1>7, <1>8

(* A fetch of the task ends: it goes on, or what it needs no more is        *)
(* dropped.                                                                 *)
LEMMA TaskEnds ==
  ASSUME NEW s, NEW k \in Tasks, NEW G \in [Files(k) -> Statuses], TaskOK(s, k, G),
         NEW f \in Files(k), G[f] \in InProgress, NEW r \in {"error", "retained"},
         r = "error" <=> <<s, k, f>> \in bad,
         NEW E \in [Files(k) -> Statuses],
         E[f] = r, \A g \in Files(k) : g # f => E[g] = G[g]
  PROVE  /\ Continue(k, E) \in [Files(k) -> Statuses]
         /\ TaskOK(s, k, Continue(k, E))
         /\ ~Untouched(Continue(k, E))
         /\ \A g \in Files(k) : Continue(k, E)[g] \in {"holding", "queued"}
                                  => Continue(k, E)[g] = G[g]
<1> PICK N : N = Count(k)
  OBVIOUS
<1>h. PICK H : H = Continue(k, E)
  OBVIOUS
<1>1. Files(k) = 1 .. N /\ N \in Nat \ {0} /\ DOMAIN G = 1 .. N /\ 1 \in Files(k)
  BY FilesOfTask
<1>2. /\ E \in [Files(k) -> Statuses] /\ DOMAIN E = 1 .. N
      /\ E[f] = r /\ \A g \in Files(k) : g # f => E[g] = G[g]
  BY <1>1
<1>3. /\ ~Untouched(G) /\ ~Resolved(G) /\ f > Got(G)
      /\ Got(G) \in 0 .. N /\ \A g \in 1 .. Got(G) : G[g] = "retained"
  BY <1>1, TaskShape, GotIs
<1>4. \A g \in Files(k) :
        /\ G[g] # "dropped"
        /\ g > Got(G) => (G[g] = "todo" <=> g \notin MayFetch(k, Got(G)))
  <2>1. ~\A g \in Files(k) : G[g] = "todo"
    BY DEF InProgress
  <2> QED  BY <1>3, <2>1 DEF TaskOK
<1>5. Got(E) \in 0 .. N /\ Got(G) <= Got(E)
  <2>1. /\ Got(E) \in 0 .. N
        /\ Got(E) < N => E[Got(E) + 1] # "retained"
    BY <1>1, <1>2, GotIs
  <2>2. CASE Got(E) < Got(G)
    <3>1. Got(E) + 1 \in 1 .. Got(G) /\ Got(E) + 1 \in Files(k) /\ Got(E) + 1 # f
      BY <1>1, <1>3, <2>1, <2>2
    <3>2. E[Got(E) + 1] = "retained"
      BY <1>2, <1>3, <3>1
    <3>3. Got(E) < N
      BY <1>1, <1>3, <2>1, <2>2
    <3> QED  BY <2>1, <3>2, <3>3
  <2> QED  BY <1>3, <2>1, <2>2
<1>6. \A g \in Files(k) : /\ E[g] = "error" => <<s, k, g>> \in bad
                          /\ E[g] = "retained" => <<s, k, g>> \notin bad
                          /\ E[g] # "dropped"
  BY <1>2, <1>4 DEF TaskOK
<1>7. \A g \in Files(k) : g > Got(E) /\ g \notin MayFetch(k, Got(E)) => E[g] = "todo"
  <2> SUFFICES ASSUME NEW g \in Files(k), g > Got(E), g \notin MayFetch(k, Got(E))
               PROVE  E[g] = "todo"
    OBVIOUS
  <2>1. g \notin MayFetch(k, Got(G)) /\ g > Got(G)
    <3>1. MayFetch(k, Got(G)) \subseteq 1 .. Got(E) \cup MayFetch(k, Got(E))
      BY <1>3, <1>5, MayFetchGrows
    <3>2. Got(E) \in Nat /\ Got(G) \in Nat /\ g \in Nat
      BY <1>1, <1>3, <1>5
    <3>3. g > Got(G) /\ g \notin 1 .. Got(E)
      BY <1>5, <3>2
    <3> QED  BY <3>1, <3>3
  <2>2. G[g] = "todo" /\ g # f
    BY <1>4, <2>1 DEF InProgress
  <2> QED  BY <1>2, <2>2
<1>8. H = [g \in Files(k) |->
             IF Resolved(E) /\ E[g] \in InProgress THEN "dropped"
             ELSE IF ~Resolved(E) /\ E[g] = "todo" /\ g \in MayFetch(k, Got(E))
                  THEN "started"
             ELSE E[g]]
  BY <1>1, <1>2, <1>h DEF Continue, InProgress
<1>9. H \in [Files(k) -> Statuses]
  BY <1>2, <1>8 DEF Statuses
<1>10. \A g \in Files(k) : /\ E[g] = "retained" <=> H[g] = "retained"
                           /\ E[g] = "error" <=> H[g] = "error"
  BY <1>8 DEF InProgress
<1>11. Got(H) = Got(E) /\ (Resolved(H) <=> Resolved(E))
  <2>1. DOMAIN E = Files(k) /\ DOMAIN H = Files(k)
    BY <1>2, <1>9
  <2> QED  BY <1>10, <2>1, SameResults
<1>12. \A g \in Files(k) : /\ H[g] = "error" => <<s, k, g>> \in bad
                           /\ H[g] = "retained" => <<s, k, g>> \notin bad
  BY <1>6, <1>10
<1>13. TaskOK(s, k, H)
  <2>1. CASE Resolved(E)
    <3>1. \A g \in Files(k) : H[g] \notin InProgress
      BY <1>8, <2>1 DEF InProgress
    <3> QED  BY <1>11, <1>12, <2>1, <3>1 DEF TaskOK
  <2>2. CASE ~Resolved(E)
    <3>1. \A g \in Files(k) :
            H[g] = IF E[g] = "todo" /\ g \in MayFetch(k, Got(E)) THEN "started"
                   ELSE E[g]
      BY <1>8, <2>2
    <3>2. \A g \in Files(k) :
            /\ H[g] # "dropped"
            /\ g > Got(E) => (H[g] = "todo" <=> g \notin MayFetch(k, Got(E)))
      BY <1>6, <1>7, <3>1
    <3> QED  BY <1>11, <1>12, <2>2, <3>2 DEF TaskOK
  <2> QED  BY <2>1, <2>2
<1>14. ~Untouched(H)
  <2>1. E[1] # "todo"
    BY <1>1, <1>2, <1>3 DEF Untouched
  <2> QED  BY <1>1, <1>8, <2>1 DEF Untouched
<1>15. \A g \in Files(k) : H[g] \in {"holding", "queued"} => H[g] = G[g]
  BY <1>2, <1>8
<1> QED  BY <1>h, <1>9, <1>13, <1>14, <1>15

-----------------------------------------------------------------------------
(* All files *)

\* What a step does to a task that the suite's loop has not scheduled, or
\* that is resolved: nothing.  Others do not return to where they began.
Stays(G, H) == /\ Untouched(G) \/ Resolved(G) => H = G
               /\ ~Untouched(G) => ~Untouched(H)

LEMMA MovedStays ==
  ASSUME NEW s, NEW k \in Tasks, NEW G \in [Files(k) -> Statuses],
         NEW H \in [Files(k) -> Statuses], Moved(G, H), TaskOK(s, k, G)
  PROVE  Stays(G, H)
<1>1. ASSUME Untouched(G) \/ Resolved(G) PROVE H = G
  <2>1. \A f \in Files(k) : G[f] \notin InProgress
    BY <1>1, TaskShape
  <2>2. \A f \in Files(k) : H[f] = G[f]
    BY <2>1 DEF Moved
  <2> QED  BY <2>2
<1>2. ASSUME ~Untouched(G) PROVE ~Untouched(H)
  <2>1. 1 \in Files(k)
    BY FilesOfTask
  <2> QED  BY <1>2, <2>1 DEF Moved, Untouched, InProgress
<1> QED  BY <1>1, <1>2 DEF Stays

LEMMA WithIs ==
  ASSUME AllFetches(fetch), NEW s \in Suites, NEW k \in Tasks,
         NEW G \in [Files(k) -> Statuses],
         \A f \in Files(k) : G[f] \in {"holding", "queued"} => G[f] = fetch[s][k][f]
  PROVE  /\ AllFetches(With(s, k, G))
         /\ With(s, k, G)[s][k] = G
         /\ \A t \in Suites, j \in Tasks :
              <<t, j>> # <<s, k>> => With(s, k, G)[t][j] = fetch[t][j]
         /\ Holders(With(s, k, G)) \subseteq Holders(fetch)
         /\ Queued(With(s, k, G)) \subseteq Queued(fetch)
<1>f. PICK F : F = With(s, k, G)
  OBVIOUS
<1>1. /\ fetch \in [Suites -> [Tasks -> Maps]]
      /\ \A t \in Suites, j \in Tasks : fetch[t][j] \in [Files(j) -> Statuses]
  BY DEF AllFetches
<1>2. G \in Maps
  BY DEF Maps
<1>3. F \in [Suites -> [Tasks -> Maps]] /\ F[s][k] = G
  BY <1>f, <1>1, <1>2 DEF With
<1>4. \A t \in Suites, j \in Tasks : <<t, j>> # <<s, k>> => F[t][j] = fetch[t][j]
  BY <1>f, <1>1 DEF With
<1>5. AllFetches(F)
  BY <1>1, <1>3, <1>4 DEF AllFetches
<1>6. ASSUME NEW x \in Fetches, F[x[1]][x[2]][x[3]] \in {"holding", "queued"}
      PROVE  fetch[x[1]][x[2]][x[3]] = F[x[1]][x[2]][x[3]]
  <2>1. x[1] \in Suites /\ x[2] \in Tasks /\ x[3] \in Files(x[2])
    BY FetchIs
  <2>2. CASE x[1] = s /\ x[2] = k
    BY <1>3, <1>6, <2>1, <2>2
  <2>3. CASE ~(x[1] = s /\ x[2] = k)
    BY <1>4, <2>1, <2>3
  <2> QED  BY <2>2, <2>3
<1>7. Holders(F) \subseteq Holders(fetch) /\ Queued(F) \subseteq Queued(fetch)
  BY <1>6 DEF Holders, Queued, IsQueued
<1> QED  BY <1>f, <1>3, <1>4, <1>5, <1>7

(* A task changes as G says and waiters are served: permits are conserved,  *)
(* tasks are well formed, and no other task changes in a way that matters.  *)
LEMMA BecomeWith ==
  ASSUME TypesInv, PermitsInv, TasksInv, NEW s \in Suites, NEW k \in Tasks,
         NEW G \in [Files(k) -> Statuses], TaskOK(s, k, G),
         \A f \in Files(k) : G[f] \in {"holding", "queued"} => G[f] = fetch[s][k][f],
         ~Untouched(G), ~Resolved(fetch[s][k]),
         Become(With(s, k, G))
  PROVE  /\ AllFetches(fetch') /\ queue' \in Seq(Fetches) /\ PermitsInv'
         /\ \A t \in Suites, j \in Tasks :
              /\ TaskOK(t, j, fetch'[t][j])
              /\ <<t, j>> # <<s, k>> \/ ~Untouched(fetch[t][j])
                   => Stays(fetch[t][j], fetch'[t][j])
<1>f. PICK F : F = With(s, k, G)
  OBVIOUS
<1>1. /\ AllFetches(F) /\ F[s][k] = G
      /\ \A t \in Suites, j \in Tasks : <<t, j>> # <<s, k>> => F[t][j] = fetch[t][j]
      /\ Holders(F) \subseteq Holders(fetch) /\ Queued(F) \subseteq Queued(fetch)
  BY <1>f, WithIs DEF TypesInv
<1>2. /\ AllFetches(fetch') /\ queue' \in Seq(Fetches) /\ PermitsInv'
      /\ \A t \in Suites, j \in Tasks : \A f \in Files(j) :
           \/ fetch'[t][j][f] = F[t][j][f]
           \/ F[t][j][f] = "queued" /\ fetch'[t][j][f] = "holding"
  <2>1. Become(F)
    BY <1>f
  <2> QED  BY <1>1, <2>1, BecomeServes
<1>3. ASSUME NEW t \in Suites, NEW j \in Tasks
      PROVE  /\ TaskOK(t, j, fetch'[t][j])
             /\ <<t, j>> # <<s, k>> \/ ~Untouched(fetch[t][j])
                  => Stays(fetch[t][j], fetch'[t][j])
  <2>1. PICK A, B : A = F[t][j] /\ B = fetch'[t][j]
    OBVIOUS
  <2>2. A \in [Files(j) -> Statuses] /\ B \in [Files(j) -> Statuses]
    BY <1>1, <1>2, <2>1 DEF AllFetches
  <2>3. Moved(A, B)
    BY <1>2, <2>1, <2>2 DEF Moved, InProgress
  <2>4. TaskOK(t, j, A)
    <3>1. CASE <<t, j>> = <<s, k>>
      BY <1>1, <2>1, <3>1
    <3>2. CASE <<t, j>> # <<s, k>>
      BY <1>1, <2>1, <3>2 DEF TasksInv
    <3> QED  BY <3>1, <3>2
  <2>5. TaskOK(t, j, B) /\ Stays(A, B)
    BY <2>2, <2>3, <2>4, TaskMoves, MovedStays
  <2>6. ASSUME <<t, j>> # <<s, k>> \/ ~Untouched(fetch[t][j])
        PROVE  Stays(fetch[t][j], B)
    <3>1. CASE <<t, j>> # <<s, k>>
      BY <1>1, <2>1, <2>5, <3>1
    <3>2. CASE <<t, j>> = <<s, k>>
      <4>1. ~Untouched(B)
        BY <1>1, <2>1, <2>5, <3>2 DEF Stays
      <4> QED  BY <2>6, <3>2, <4>1 DEF Stays
    <3> QED  BY <3>1, <3>2
  <2> QED  BY <2>1, <2>5, <2>6
<1> QED  BY <1>2, <1>3

-----------------------------------------------------------------------------
(* The steps of a fetch *)

\* What each of them establishes for all tasks.
Fetched == /\ AllFetches(fetch') /\ queue' \in Seq(Fetches) /\ PermitsInv'
           /\ \A t \in Suites, j \in Tasks : /\ TaskOK(t, j, fetch'[t][j])
                                             /\ Stays(fetch[t][j], fetch'[t][j])

LEMMA EndsStep ==
  ASSUME TypesInv, PermitsInv, TasksInv, NEW s \in Suites, NEW k \in Tasks,
         NEW f \in Files(k), fetch[s][k][f] \in InProgress, Ends(s, k, f)
  PROVE  Fetched
<1>g. PICK G : G = fetch[s][k]
  OBVIOUS
<1>r. PICK r : r = IF <<s, k, f>> \in bad THEN "error" ELSE "retained"
  OBVIOUS
<1>e. PICK E : E = [G EXCEPT ![f] = r]
  OBVIOUS
<1>h. PICK H : H = Continue(k, E)
  OBVIOUS
<1>1. G \in [Files(k) -> Statuses] /\ TaskOK(s, k, G) /\ G[f] \in InProgress
  BY <1>g DEF TypesInv, AllFetches, TasksInv
<1>2. /\ r \in {"error", "retained"} /\ (r = "error" <=> <<s, k, f>> \in bad)
      /\ E \in [Files(k) -> Statuses]
      /\ E[f] = r /\ \A g \in Files(k) : g # f => E[g] = G[g]
  BY <1>r, <1>e, <1>1 DEF Statuses
<1>3. /\ H \in [Files(k) -> Statuses]
      /\ TaskOK(s, k, H)
      /\ ~Untouched(H)
      /\ \A g \in Files(k) : H[g] \in {"holding", "queued"} => H[g] = G[g]
  BY <1>h, <1>1, <1>2, TaskEnds
<1>4. Become(With(s, k, H))
  BY <1>g, <1>r, <1>e, <1>h DEF Ends
<1>5. ~Untouched(G) /\ ~Resolved(G)
  BY <1>1, TaskShape
<1> QED  BY <1>g, <1>3, <1>4, <1>5, BecomeWith DEF Fetched

LEMMA AcquireStep ==
  ASSUME TypesInv, PermitsInv, TasksInv, NEW s \in Suites, NEW k \in Tasks,
         NEW f \in Files(k), Acquire(s, k, f)
  PROVE  Fetched
<1>g. PICK G : G = fetch[s][k]
  OBVIOUS
<1>x. PICK x : x = <<s, k, f>>
  OBVIOUS
<1>1. G \in [Files(k) -> Statuses] /\ TaskOK(s, k, G) /\ G[f] = "started"
  BY <1>g DEF TypesInv, AllFetches, TasksInv, Acquire
<1>2. PICK r \in {"holding", "queued"} : fetch' = [fetch EXCEPT ![s][k][f] = r]
  BY DEF Acquire
<1>3. /\ fetch \in [Suites -> [Tasks -> Maps]]
      /\ \A t \in Suites, j \in Tasks : fetch[t][j] \in [Files(j) -> Statuses]
  BY DEF TypesInv, AllFetches
<1>h. PICK H : H = [G EXCEPT ![f] = r]
  OBVIOUS
<1>4. H \in [Files(k) -> Statuses] /\ Moved(G, H) /\ H \in Maps
  BY <1>h, <1>1, <1>2 DEF Statuses, Moved, InProgress, Maps
<1>5. fetch' = With(s, k, H)
  BY <1>g, <1>h, <1>2, <1>3 DEF With
<1>6. /\ AllFetches(fetch') /\ fetch'[s][k] = H
      /\ \A t \in Suites, j \in Tasks :
           <<t, j>> # <<s, k>> => fetch'[t][j] = fetch[t][j]
  <2>1. /\ fetch' \in [Suites -> [Tasks -> Maps]] /\ fetch'[s][k] = H
        /\ \A t \in Suites, j \in Tasks :
             <<t, j>> # <<s, k>> => fetch'[t][j] = fetch[t][j]
    BY <1>3, <1>4, <1>5 DEF With
  <2> QED  BY <1>3, <1>4, <2>1 DEF AllFetches
<1>7. ASSUME NEW t \in Suites, NEW j \in Tasks
      PROVE  TaskOK(t, j, fetch'[t][j]) /\ Stays(fetch[t][j], fetch'[t][j])
  <2>1. CASE <<t, j>> = <<s, k>>
    BY <1>g, <1>1, <1>4, <1>6, <2>1, TaskMoves, MovedStays
  <2>2. CASE <<t, j>> # <<s, k>>
    BY <1>6, <2>2 DEF TasksInv, Stays
  <2> QED  BY <2>1, <2>2
<1>8. x \in Fetches /\ x[1] = s /\ x[2] = k /\ x[3] = f
  BY <1>x, FetchIs
<1>9. /\ fetch[x[1]][x[2]][x[3]] = "started"
      /\ fetch'[x[1]][x[2]][x[3]] = r
      /\ \A y \in Fetches \ {x} :
           fetch'[y[1]][y[2]][y[3]] = fetch[y[1]][y[2]][y[3]]
  <2>1. fetch'[x[1]][x[2]][x[3]] = r
    BY <1>h, <1>1, <1>6, <1>8
  <2>2. ASSUME NEW y \in Fetches \ {x}
        PROVE  fetch'[y[1]][y[2]][y[3]] = fetch[y[1]][y[2]][y[3]]
    <3>1. /\ y = <<y[1], y[2], y[3]>> /\ y # x
          /\ y[1] \in Suites /\ y[2] \in Tasks /\ y[3] \in Files(y[2])
      BY FetchIs
    <3>2. CASE y[1] = s /\ y[2] = k
      <4>1. y[3] # f
        BY <1>x, <3>1, <3>2
      <4> QED  BY <1>g, <1>h, <1>1, <1>6, <3>1, <3>2, <4>1
    <3>3. CASE ~(y[1] = s /\ y[2] = k)
      BY <1>6, <3>1, <3>3
    <3> QED  BY <3>2, <3>3
  <2> QED  BY <1>g, <1>1, <1>8, <2>1, <2>2
<1>10. /\ queue \in Seq(Fetches) /\ NoneTwice(queue) /\ ToSet(queue) = Queued(fetch)
       /\ IsFiniteSet(Holders(fetch)) /\ Cardinality(Holders(fetch)) \in Nat
       /\ Cardinality(Holders(fetch)) <= Concurrency
       /\ queue # <<>> => Cardinality(Holders(fetch)) = Concurrency
  BY FS_CardinalityType
     DEF TypesInv, TypeOK, PermitsInv, PermitsConserved, NoneTwice, Queued, IsQueued
<1>11. x \notin Holders(fetch) /\ x \notin Queued(fetch)
  BY <1>9 DEF Holders, Queued, IsQueued
<1>12. queue' \in Seq(Fetches) /\ PermitsInv'
  <2>1. CASE queue = <<>> /\ Free(fetch) > 0
    <3>1. r = "holding" /\ queue' = queue
      <4>1. fetch' = [fetch EXCEPT ![s][k][f] = "holding"] /\ queue' = queue
        BY <2>1 DEF Acquire
      <4>2. fetch'[s][k][f] = "holding"
        BY <1>1, <1>3, <1>g, <4>1
      <4> QED  BY <1>8, <1>9, <4>1, <4>2
    <3>2. Holders(fetch') = Holders(fetch) \cup {x}
      BY <1>8, <1>9, <3>1 DEF Holders
    <3>3. Queued(fetch') = Queued(fetch)
      BY <1>8, <1>9, <1>11, <3>1 DEF Queued, IsQueued
    <3>4. /\ IsFiniteSet(Holders(fetch'))
          /\ Cardinality(Holders(fetch')) = Cardinality(Holders(fetch)) + 1
      BY <1>10, <1>11, <3>2, FS_AddElement
    <3>5. Cardinality(Holders(fetch')) <= Concurrency
      BY <1>10, <2>1, <3>4, AcquisitionAssumption DEF Free
    <3>6. ToSet(queue') = Queued(fetch') /\ queue' = <<>> /\ NoneTwice(queue')
      BY <1>10, <2>1, <3>1, <3>3
    <3> QED  BY <1>10, <3>1, <3>4, <3>5, <3>6
             DEF PermitsInv, PermitsConserved, NoneTwice, Queued, IsQueued
  <2>2. CASE ~(queue = <<>> /\ Free(fetch) > 0)
    <3>1. r = "queued" /\ queue' = Append(queue, x)
      <4>1. fetch' = [fetch EXCEPT ![s][k][f] = "queued"] /\ queue' = Append(queue, x)
        BY <1>x, <2>2 DEF Acquire
      <4>2. fetch'[s][k][f] = "queued"
        BY <1>1, <1>3, <1>g, <4>1
      <4> QED  BY <1>8, <1>9, <4>1, <4>2
    <3>2. Holders(fetch') = Holders(fetch)
      BY <1>8, <1>9, <1>11, <3>1 DEF Holders
    <3>3. Queued(fetch') = Queued(fetch) \cup {x}
      BY <1>8, <1>9, <3>1 DEF Queued, IsQueued
    <3>4. Cardinality(Holders(fetch)) = Concurrency
      BY <1>10, <2>2, AcquisitionAssumption DEF Free
    <3>5. /\ queue' \in Seq(Fetches) /\ ToSet(queue') = Queued(fetch')
          /\ NoneTwice(queue')
      BY <1>8, <1>10, <1>11, <3>1, <3>3, AppendNew
    <3>6. Cardinality(Holders(fetch')) = Concurrency /\ IsFiniteSet(Holders(fetch'))
      BY <1>10, <3>2, <3>4
    <3> QED  BY <3>5, <3>6, <1>10, <3>2
             DEF PermitsInv, PermitsConserved, NoneTwice, Queued, IsQueued
  <2> QED  BY <2>1, <2>2
<1> QED  BY <1>6, <1>7, <1>12 DEF Fetched

-----------------------------------------------------------------------------
(* Scheduling *)

LEMMA NextShardsAre ==
  ASSUME NEW s \in Suites, NEW n \in Nat \ {0}, NEW S
  PROVE  /\ NextShards(s, n, S) \subseteq Unscheduled(s)
         /\ \A k \in NextShards(s, n, S), j \in Unscheduled(s) :
              j < k => j \in NextShards(s, n, S)
         /\ s \notin S /\ Unscheduled(s) # {} => NextShards(s, n, S) # {}
<1> DEFINE U == Unscheduled(s)
           Below(k) == {j \in U : j < k}
<1>1. U \subseteq 1 .. Shards /\ U \subseteq Nat /\ IsFiniteSet(U)
  <2>1. U \subseteq 1 .. Shards /\ Shards \in Nat
    BY AcquisitionAssumption DEF Unscheduled
  <2>2. IsFiniteSet(1 .. Shards)
    BY <2>1, FS_Interval
  <2> HIDE DEF U
  <2>3. IsFiniteSet(U)
    BY <2>1, <2>2, FS_Subset
  <2>4. U \subseteq Nat
    BY <2>1
  <2> QED  BY <2>1, <2>3, <2>4
<1>2. NextShards(s, n, S) = {k \in U : s \notin S /\ Cardinality(Below(k)) < n}
  BY DEF NextShards, Running
<1> HIDE DEF U
<1>3. \A k \in U : IsFiniteSet(Below(k)) /\ Cardinality(Below(k)) \in Nat
  <2> TAKE k \in U
  <2>1. Below(k) \subseteq U
    OBVIOUS
  <2> HIDE DEF Below
  <2> QED  BY <1>1, <2>1, FS_Subset, FS_CardinalityType
<1>4. ASSUME NEW k \in NextShards(s, n, S), NEW j \in U, j < k
      PROVE  j \in NextShards(s, n, S)
  <2>1. k \in U /\ s \notin S /\ Cardinality(Below(k)) < n
    BY <1>2
  <2>2. ASSUME NEW i \in Below(j) PROVE i \in Below(k)
    <3>1. i \in Nat /\ j \in Nat /\ k \in Nat /\ i < j
      BY <1>1, <2>1
    <3> QED  BY <1>4, <3>1
  <2>3. Cardinality(Below(j)) <= Cardinality(Below(k))
    <3> HIDE DEF Below
    <3> QED  BY <1>3, <2>1, <2>2, FS_Subset
  <2>4. Cardinality(Below(j)) < n
    <3> HIDE DEF Below
    <3> QED  BY <1>3, <2>1, <2>3
  <2> HIDE DEF Below
  <2> QED  BY <1>2, <2>1, <2>4
<1>5. ASSUME s \notin S, U # {} PROVE NextShards(s, n, S) # {}
  <2>1. PICK k \in U : \A j \in U : k <= j
    BY <1>1, <1>5, LeastNumber
  <2>2. Below(k) = {}
    <3>1. \A j \in U : j \in Nat /\ k \in Nat /\ k <= j
      BY <1>1, <2>1
    <3> QED  BY <3>1
  <2>3. Cardinality(Below(k)) = 0
    <3> HIDE DEF Below
    <3> QED  BY <2>2, FS_EmptySet
  <2> HIDE DEF Below
  <2> QED  BY <1>2, <1>5, <2>3
<1> QED  BY <1>2, <1>4, <1>5 DEF U

LEMMA ScheduleStep ==
  ASSUME TypesInv, PermitsInv, TasksInv, NEW s \in Suites,
         NEW K \in SUBSET Unscheduled(s), Schedule(s, K), queue' = queue
  PROVE  /\ AllFetches(fetch') /\ PermitsInv'
         /\ \A t \in Suites, j \in Tasks : TaskOK(t, j, fetch'[t][j])
         /\ \A t \in Suites, j \in Tasks :
              t # s \/ j \notin K => fetch'[t][j] = fetch[t][j]
         /\ \A j \in K : ~Untouched(fetch'[s][j]) /\ ~Resolved(fetch'[s][j])
<1>1. /\ fetch \in [Suites -> [Tasks -> Maps]]
      /\ \A t \in Suites, j \in Tasks : fetch[t][j] \in [Files(j) -> Statuses]
  BY DEF TypesInv, AllFetches
<1>2. K \subseteq Tasks /\ \A j \in K : Untouched(fetch[s][j])
  BY AcquisitionAssumption DEF Unscheduled, Tasks, Untouched
<1>f. PICK F : F = fetch'
  OBVIOUS
<1>3. F = [fetch EXCEPT ![s] = [k \in Tasks |->
              IF k \in K THEN Continue(k, fetch[s][k]) ELSE fetch[s][k]]]
  BY <1>f DEF Schedule
<1>4. /\ \A t \in Suites, j \in Tasks : t # s \/ j \notin K => F[t][j] = fetch[t][j]
      /\ \A j \in K : F[s][j] = Continue(j, fetch[s][j])
  BY <1>1, <1>2, <1>3
<1>5. ASSUME NEW j \in K
      PROVE  /\ \A f \in Files(j) : fetch[s][j][f] = "todo"
             /\ F[s][j] \in [Files(j) -> {"todo", "started"}]
             /\ F[s][j] \in [Files(j) -> Statuses]
             /\ TaskOK(s, j, F[s][j])
             /\ ~Untouched(F[s][j]) /\ ~Resolved(F[s][j])
  <2>g. PICK G : G = fetch[s][j]
    OBVIOUS
  <2>1. j \in Tasks /\ G \in [Files(j) -> Statuses] /\ TaskOK(s, j, G) /\ Untouched(G)
    BY <2>g, <1>1, <1>2 DEF TasksInv
  <2>2. \A f \in Files(j) : G[f] = "todo"
    BY <2>1, TaskShape
  <2>3. /\ Continue(j, G) \in [Files(j) -> {"todo", "started"}]
        /\ TaskOK(s, j, Continue(j, G))
        /\ ~Untouched(Continue(j, G)) /\ ~Resolved(Continue(j, G))
    BY <2>1, <2>2, TaskBegins
  <2>4. [Files(j) -> {"todo", "started"}] \subseteq [Files(j) -> Statuses]
    BY DEF Statuses
  <2> QED  BY <1>4, <2>g, <2>2, <2>3, <2>4
<1>6. \A t \in Suites, j \in Tasks : F[t][j] \in [Files(j) -> Statuses]
  BY <1>1, <1>4, <1>5
<1>7. AllFetches(F)
  <2>1. \A t \in Suites, j \in Tasks : F[t][j] \in Maps
    BY <1>6 DEF Maps
  <2>2. F = [t \in Suites |-> [j \in Tasks |-> F[t][j]]]
    <3>1. \A t \in Suites : F[t] = [j \in Tasks |-> F[t][j]]
      BY <1>1, <1>3
    <3>2. F = [t \in Suites |-> F[t]]
      BY <1>1, <1>3
    <3> QED  BY <3>1, <3>2
  <2>3. F \in [Suites -> [Tasks -> Maps]]
    BY <2>1, <2>2
  <2> QED  BY <1>6, <2>3 DEF AllFetches
<1>8. \A t \in Suites, j \in Tasks : TaskOK(t, j, F[t][j])
  BY <1>4, <1>5 DEF TasksInv
<1>9. ASSUME NEW x \in Fetches
      PROVE  \A r \in {"holding", "queued"} :
               F[x[1]][x[2]][x[3]] = r <=> fetch[x[1]][x[2]][x[3]] = r
  <2>1. x[1] \in Suites /\ x[2] \in Tasks /\ x[3] \in Files(x[2])
    BY FetchIs
  <2>2. CASE x[1] = s /\ x[2] \in K
    <3>1. fetch[x[1]][x[2]][x[3]] = "todo"
      BY <1>5, <2>1, <2>2
    <3>2. F[x[1]][x[2]][x[3]] \in {"todo", "started"}
      BY <1>5, <2>1, <2>2
    <3> QED  BY <3>1, <3>2
  <2>3. CASE ~(x[1] = s /\ x[2] \in K)
    BY <1>4, <2>1, <2>3
  <2> QED  BY <2>2, <2>3
<1>10. Holders(F) = Holders(fetch)
  BY <1>9 DEF Holders
<1>11. Queued(F) = Queued(fetch)
  BY <1>9 DEF Queued, IsQueued
<1>12. PermitsInv'
  <2>1. Holders(fetch)' = Holders(fetch) /\ Queued(fetch') = Queued(fetch)
    BY <1>f, <1>10, <1>11 DEF Holders, Queued, IsQueued
  <2> QED  BY <2>1 DEF PermitsInv, PermitsConserved, Queued, IsQueued
<1> QED  BY <1>f, <1>4, <1>5, <1>7, <1>8, <1>12

-----------------------------------------------------------------------------
(* Suites *)

\* Nothing of suite s changes but where its unresolved tasks are.
SuiteUnchanged(s) ==
  /\ bad' = bad
  /\ suite'[s] = suite[s] /\ ledger'[s] = ledger[s]
  /\ failures'[s] = failures[s] /\ reported'[s] = reported[s]
  /\ s \in stopped' <=> s \in stopped
  /\ \A k \in Tasks : <<s, k>> \in taken' <=> <<s, k>> \in taken

LEMMA SuiteStays ==
  ASSUME TasksInv, TypesInv, NEW s \in Suites, SuiteOK(s), SuiteUnchanged(s),
         \A k \in Tasks : Stays(fetch[s][k], fetch'[s][k])
  PROVE  SuiteOK(s)'
<1>0. 0 \in Tasks /\ 1 .. Shards \subseteq Tasks
  BY AcquisitionAssumption DEF Tasks
<1>1. \A k \in Tasks :
        /\ Untouched(fetch'[s][k]) <=> Untouched(fetch[s][k])
        /\ Resolved(fetch[s][k]) \/ Untouched(fetch[s][k]) => fetch'[s][k] = fetch[s][k]
  BY DEF Stays
<1>2. \A k \in Tasks : Succeeded(fetch[s][k]) => Resolved(fetch[s][k])
  BY DEF Resolved
<1>3. ASSUME suite[s] \in {"idle", "preparing"} PROVE SuiteOK(s)'
  BY <1>0, <1>1, <1>3 DEF SuiteOK, SuiteUnchanged, Ended
<1>4. ASSUME suite[s] = "acquiring" PROVE SuiteOK(s)'
  <2>1. AcquiringOK(s)
    BY <1>4 DEF SuiteOK
  <2>2. \A k \in 1 .. Shards :
          <<s, k>> \in taken => fetch'[s][k] = fetch[s][k] /\ Resolved(fetch[s][k])
    BY <1>0, <1>1, <2>1 DEF AcquiringOK
  <2>3. Succeeded(fetch'[s][0])
    BY <1>0, <1>1, <1>2, <2>1 DEF AcquiringOK
  <2>4. Unscheduled(s)' = Unscheduled(s) /\ InFlight(s)' = InFlight(s)
    BY <1>0, <1>1 DEF Unscheduled, InFlight, Untouched, SuiteUnchanged
  <2>5. Failed(s)' = Failed(s)
    BY <1>0, <2>2 DEF Failed, SuiteUnchanged
  <2>6. \A k \in Failed(s) : fetch'[s][k] = fetch[s][k]
    BY <2>2 DEF Failed
  <2>7. {<<k, FailedFile(fetch'[s][k])>> : k \in Failed(s)}
          = {<<k, FailedFile(fetch[s][k])>> : k \in Failed(s)}
    BY <2>6
  <2>8. failures'[s] = {<<k, FailedFile(fetch'[s][k])>> : k \in Failed(s)'}
    BY <2>1, <2>5, <2>7 DEF AcquiringOK, SuiteUnchanged
  <2>9. \A k \in 1 .. Shards :
          /\ ~Untouched(fetch'[s][k]) =>
               \A j \in 1 .. Shards : j < k => ~Untouched(fetch'[s][j])
          /\ <<s, k>> \in taken' => Resolved(fetch'[s][k])
          /\ ledger'[s][k] = IF <<s, k>> \notin taken' THEN "not_attempted"
                             ELSE IF Succeeded(fetch'[s][k]) THEN "retained"
                             ELSE "failed"
    BY <1>0, <1>1, <2>1, <2>2 DEF AcquiringOK, SuiteUnchanged
  <2>10. AcquiringOK(s)'
    BY <2>1, <2>3, <2>4, <2>8, <2>9 DEF AcquiringOK, SuiteUnchanged
  <2> QED  BY <1>4, <2>10 DEF SuiteOK, SuiteUnchanged, Ended
<1>5. ASSUME Ended(s) PROVE SuiteOK(s)'
  <2>1. EndedOK(s)
    BY <1>5 DEF SuiteOK
  <2>2. \A k \in Tasks : fetch'[s][k] = fetch[s][k]
    BY <1>1, <2>1 DEF EndedOK
  <2>3. EndedOK(s)'
    BY <1>0, <2>1, <2>2 DEF EndedOK, FirstBad, SuiteUnchanged
  <2> QED  BY <1>5, <2>3 DEF SuiteOK, SuiteUnchanged, Ended
<1>6. suite[s] \in {"idle", "preparing", "acquiring", "complete", "failed"}
  BY DEF TypesInv, TypeOK
<1> QED  BY <1>3, <1>4, <1>5, <1>6 DEF Ended

LEMMA TasksAre ==
  /\ 0 \in Tasks /\ 1 .. Shards \subseteq Tasks /\ Tasks \ {0} = 1 .. Shards
  /\ Tasks = {0} \cup 1 .. Shards
BY AcquisitionAssumption DEF Tasks

(* What follows when a step does nothing but go on with fetches.            *)
LEMMA FetchedStep ==
  ASSUME AcquisitionInv, Fetched,
         UNCHANGED <<bad, taken, suite, stopped, ledger, failures, reported>>
  PROVE  AcquisitionInv'
<1>1. TypesInv'
  BY DEF AcquisitionInv, TypesInv, TypeOK, Fetched, AllFetches
<1>2. TasksInv'
  BY DEF Fetched, TasksInv, TaskOK
<1>3. ASSUME NEW s \in Suites PROVE SuiteOK(s)'
  <2>1. SuiteUnchanged(s)
    BY DEF SuiteUnchanged
  <2>2. \A k \in Tasks : Stays(fetch[s][k], fetch'[s][k])
    BY DEF Fetched
  <2> QED  BY <2>1, <2>2, SuiteStays DEF AcquisitionInv, SuitesInv
<1>4. SuitesInv'
  BY <1>3 DEF SuitesInv
<1> QED  BY <1>1, <1>2, <1>4 DEF AcquisitionInv, Fetched

LEMMA BeginStep ==
  ASSUME AcquisitionInv, NEW s \in Suites, Begin(s)
  PROVE  AcquisitionInv'
<1> USE DEF AcquisitionInv
<1>g. PICK G : G = fetch[s][0]
  OBVIOUS
<1>h. PICK H : H = Continue(0, G)
  OBVIOUS
<1>1. G \in [Files(0) -> Statuses] /\ TaskOK(s, 0, G) /\ Untouched(G)
  BY <1>g, TasksAre DEF TypesInv, AllFetches, TasksInv, SuitesInv, SuiteOK, Begin
<1>2. ~Resolved(G) /\ \A f \in Files(0) : G[f] = "todo"
  BY <1>1, TasksAre, TaskShape
<1>3. /\ H \in [Files(0) -> {"todo", "started"}]
      /\ TaskOK(s, 0, H) /\ ~Untouched(H)
  BY <1>h, <1>1, <1>2, TasksAre, TaskBegins
<1>4. /\ H \in [Files(0) -> Statuses]
      /\ \A f \in Files(0) : H[f] \notin {"holding", "queued"}
  BY <1>3 DEF Statuses
<1>5. Become(With(s, 0, H))
  BY <1>g, <1>h DEF Begin
<1>6. /\ AllFetches(fetch') /\ queue' \in Seq(Fetches) /\ PermitsInv'
      /\ \A t \in Suites, j \in Tasks :
           /\ TaskOK(t, j, fetch'[t][j])
           /\ <<t, j>> # <<s, 0>> \/ ~Untouched(fetch[t][j])
                => Stays(fetch[t][j], fetch'[t][j])
  BY <1>g, <1>2, <1>3, <1>4, <1>5, TasksAre, BecomeWith
<1>7. /\ suite[s] = "idle"
      /\ suite' = [suite EXCEPT ![s] = "preparing"]
      /\ UNCHANGED <<bad, taken, stopped, ledger, failures, reported>>
  BY DEF Begin
<1>8. TypesInv'
  <2>1. suite' \in [Suites -> {"idle", "preparing", "acquiring", "complete", "failed"}]
    BY <1>7 DEF TypesInv, TypeOK
  <2> QED  BY <1>6, <1>7, <2>1 DEF TypesInv, TypeOK, AllFetches
<1>9. TasksInv'
  BY <1>6, <1>7 DEF TasksInv, TaskOK
<1>10. ASSUME NEW t \in Suites PROVE SuiteOK(t)'
  <2>1. CASE t = s
    <3>1. \A k \in 1 .. Shards : Untouched(fetch[s][k]) /\ Stays(fetch[s][k], fetch'[s][k])
      BY <1>6, <1>7, TasksAre, AcquisitionAssumption DEF SuitesInv, SuiteOK
    <3>2. \A k \in 1 .. Shards : Untouched(fetch'[s][k])
      BY <3>1 DEF Stays
    <3>3. suite'[s] = "preparing"
      BY <1>7 DEF TypesInv, TypeOK
    <3> QED  BY <1>7, <2>1, <3>2, <3>3 DEF SuitesInv, SuiteOK, Ended
  <2>2. CASE t # s
    <3>1. SuiteUnchanged(t)
      BY <1>7, <2>2 DEF SuiteUnchanged
    <3>2. \A k \in Tasks : Stays(fetch[t][k], fetch'[t][k])
      BY <1>6, <2>2
    <3> QED  BY <3>1, <3>2, SuiteStays DEF SuitesInv
  <2> QED  BY <2>1, <2>2
<1>11. SuitesInv'
  BY <1>10 DEF SuitesInv
<1> QED  BY <1>6, <1>8, <1>9, <1>11

-----------------------------------------------------------------------------
(* The steps of a suite *)

LEMMA PlaceIs ==
  ASSUME NEW k \in Tasks, NEW f \in Files(k)
  PROVE  <<k, f>> \in Places
<1> DEFINE T == {<<k, g>> : g \in Files(k)}
<1>1. <<k, f>> \in T
  OBVIOUS
<1>2. T \in {{<<j, g>> : g \in Files(j)} : j \in Tasks}
  OBVIOUS
<1> HIDE DEF T
<1> QED  BY <1>1, <1>2 DEF Places

(* What a resolved task says about the fetches that fail.                   *)
LEMMA ResolvedTask ==
  ASSUME NEW s, NEW k \in Tasks, NEW G \in [Files(k) -> Statuses], TaskOK(s, k, G)
  PROVE  /\ Succeeded(G) => Resolved(G) /\ \A f \in Files(k) : <<s, k, f>> \notin bad
         /\ Resolved(G) /\ ~Succeeded(G) =>
              /\ FailedFile(G) \in Files(k)
              /\ <<s, k, FailedFile(G)>> \in bad
              /\ \A f \in Files(k) : f < FailedFile(G) => <<s, k, f>> \notin bad
         /\ FirstError(G) # {} <=> Resolved(G) /\ ~Succeeded(G)
<1> PICK N : N = Count(k)
  OBVIOUS
<1>1. Files(k) = 1 .. N /\ N \in Nat \ {0} /\ DOMAIN G = 1 .. N
  BY FilesOfTask
<1>2. /\ Got(G) \in 0 .. N
      /\ \A f \in 1 .. Got(G) : G[f] = "retained"
      /\ Succeeded(G) <=> Got(G) = N
      /\ Succeeded(G) <=> \A f \in 1 .. N : G[f] = "retained"
      /\ FirstError(G) # {} <=> Got(G) < N /\ G[Got(G) + 1] = "error"
      /\ Resolved(G) <=> Succeeded(G) \/ (Got(G) < N /\ G[Got(G) + 1] = "error")
  BY <1>1, GotIs
<1>3. \A f \in Files(k) : /\ G[f] = "error" => <<s, k, f>> \in bad
                          /\ G[f] = "retained" => <<s, k, f>> \notin bad
  BY DEF TaskOK
<1>4. ASSUME Succeeded(G)
      PROVE  Resolved(G) /\ \A f \in Files(k) : <<s, k, f>> \notin bad
  BY <1>1, <1>2, <1>3, <1>4
<1>5. ASSUME Resolved(G), ~Succeeded(G)
      PROVE  /\ FailedFile(G) \in Files(k)
             /\ <<s, k, FailedFile(G)>> \in bad
             /\ \A f \in Files(k) : f < FailedFile(G) => <<s, k, f>> \notin bad
  <2>1. Got(G) + 1 \in Files(k) /\ G[Got(G) + 1] = "error"
    BY <1>1, <1>2, <1>5
  <2>2. \A f \in Files(k) : f < Got(G) + 1 => f \in 1 .. Got(G)
    BY <1>1, <1>2
  <2> QED  BY <1>2, <1>3, <2>1, <2>2 DEF FailedFile
<1>6. FirstError(G) # {} <=> Resolved(G) /\ ~Succeeded(G)
  BY <1>2
<1> QED  BY <1>4, <1>5, <1>6

LEMMA TaskOfSuite ==
  ASSUME TypesInv, TasksInv, NEW s \in Suites, NEW k \in Tasks
  PROVE  fetch[s][k] \in [Files(k) -> Statuses] /\ TaskOK(s, k, fetch[s][k])
BY DEF TypesInv, AllFetches, TasksInv

LEMMA PreparedStep ==
  ASSUME AcquisitionInv, NEW s \in Suites, Prepared(s)
  PROVE  AcquisitionInv'
<1> USE DEF AcquisitionInv
<1>k. PICK K : K = NextShards(s, Concurrency, stopped)
  OBVIOUS
<1>1. /\ suite[s] = "preparing" /\ Succeeded(fetch[s][0])
      /\ suite' = [suite EXCEPT ![s] = "acquiring"]
      /\ ledger' = [ledger EXCEPT ![s] = [k \in 1 .. Shards |-> "not_attempted"]]
      /\ Schedule(s, K)
      /\ UNCHANGED <<bad, queue, taken, stopped, failures, reported>>
  BY <1>k DEF Prepared
<1>2. /\ s \notin stopped /\ failures[s] = {}
      /\ \A k \in 1 .. Shards : Untouched(fetch[s][k]) /\ <<s, k>> \notin taken
  BY <1>1 DEF SuitesInv, SuiteOK
<1>3. /\ K \in SUBSET Unscheduled(s)
      /\ \A k \in K, j \in Unscheduled(s) : j < k => j \in K
      /\ Unscheduled(s) # {} => K # {}
  <2>1. Concurrency \in Nat \ {0}
    BY AcquisitionAssumption
  <2> QED  BY <1>k, <1>2, <2>1, NextShardsAre
<1>4. /\ AllFetches(fetch') /\ PermitsInv'
      /\ \A t \in Suites, j \in Tasks : TaskOK(t, j, fetch'[t][j])
      /\ \A t \in Suites, j \in Tasks :
           t # s \/ j \notin K => fetch'[t][j] = fetch[t][j]
      /\ \A j \in K : ~Untouched(fetch'[s][j]) /\ ~Resolved(fetch'[s][j])
  BY <1>1, <1>3, ScheduleStep
<1>5. suite'[s] = "acquiring" /\ \A k \in 1 .. Shards : ledger'[s][k] = "not_attempted"
  BY <1>1 DEF TypesInv, TypeOK
<1>6. TypesInv'
  <2>1. suite' \in [Suites -> {"idle", "preparing", "acquiring", "complete", "failed"}]
    BY <1>1 DEF TypesInv, TypeOK
  <2>2. ledger' \in [Suites -> [1 .. Shards -> {"absent", "not_attempted",
                                                "retained", "failed"}]]
    BY <1>1 DEF TypesInv, TypeOK
  <2> QED  BY <1>1, <1>4, <2>1, <2>2 DEF TypesInv, TypeOK, AllFetches
<1>7. TasksInv'
  BY <1>1, <1>4 DEF TasksInv, TaskOK
<1>8. Unscheduled(s) = 1 .. Shards
  BY <1>2 DEF Unscheduled, Untouched
<1>9. SuiteOK(s)'
  <2>1. Succeeded(fetch'[s][0])
    <3>1. 0 \notin K
      BY <1>3 DEF Unscheduled
    <3> QED  BY <1>1, <1>4, <3>1, TasksAre
  <2>2. failures'[s] = {<<k, FailedFile(fetch'[s][k])>> : k \in Failed(s)'}
    <3>1. Failed(s)' = {}
      BY <1>1, <1>2 DEF Failed
    <3> QED  BY <1>1, <1>2, <3>1
  <2>3. ASSUME Unscheduled(s)' # {} PROVE InFlight(s)' # {}
    <3>1. Unscheduled(s) # {}
      BY <1>8, <2>3 DEF Unscheduled
    <3>2. PICK k \in K : TRUE
      BY <1>3, <3>1
    <3>3. k \in InFlight(s)'
      BY <1>1, <1>2, <1>3, <1>4, <1>8, <3>2 DEF InFlight, Untouched
    <3> QED  BY <3>3
  <2>4. ASSUME NEW k \in 1 .. Shards
        PROVE  /\ ~Untouched(fetch'[s][k]) =>
                    \A j \in 1 .. Shards : j < k => ~Untouched(fetch'[s][j])
               /\ <<s, k>> \notin taken'
               /\ ledger'[s][k] = "not_attempted"
    <3>1. ASSUME ~Untouched(fetch'[s][k]), NEW j \in 1 .. Shards, j < k
          PROVE  ~Untouched(fetch'[s][j])
      <4>1. k \in K
        BY <1>2, <1>4, <3>1, TasksAre
      <4>2. j \in K
        BY <1>3, <1>8, <3>1, <4>1
      <4> QED  BY <1>4, <4>2
    <3> QED  BY <1>1, <1>2, <1>5, <3>1
  <2>5. AcquiringOK(s)'
    <3>1. s \notin stopped' /\ failures'[s] = {}
      BY <1>1, <1>2
    <3> QED  BY <2>1, <2>2, <2>3, <2>4, <3>1 DEF AcquiringOK
  <2> QED  BY <1>5, <2>5 DEF SuiteOK, Ended
<1>10. ASSUME NEW t \in Suites, t # s PROVE SuiteOK(t)'
  <2>1. SuiteUnchanged(t)
    BY <1>1, <1>10 DEF SuiteUnchanged, TypesInv, TypeOK
  <2>2. \A k \in Tasks : Stays(fetch[t][k], fetch'[t][k])
    BY <1>4, <1>10 DEF Stays
  <2> QED  BY <2>1, <2>2, SuiteStays DEF SuitesInv
<1>11. SuitesInv'
  BY <1>9, <1>10 DEF SuitesInv
<1> QED  BY <1>4, <1>6, <1>7, <1>11

LEMMA NotPreparedStep ==
  ASSUME AcquisitionInv, NEW s \in Suites, NotPrepared(s)
  PROVE  AcquisitionInv'
<1> USE DEF AcquisitionInv
<1>g. PICK G : G = fetch[s][0]
  OBVIOUS
<1>1. /\ suite[s] = "preparing" /\ FirstError(G) # {}
      /\ suite' = [suite EXCEPT ![s] = "failed"]
      /\ stopped' = stopped \cup {s}
      /\ reported' = [reported EXCEPT ![s] = <<0, FailedFile(G)>>]
      /\ UNCHANGED <<bad, fetch, queue, taken, failures>>
  BY <1>g DEF NotPrepared
<1>2. \/ ledger' = ledger
      \/ ledger' = [ledger EXCEPT ![s] = [k \in 1 .. Shards |-> "not_attempted"]]
  BY DEF NotPrepared
<1>3. /\ FailedFile(G) \in Files(0) /\ Resolved(G)
      /\ <<s, 0, FailedFile(G)>> \in bad
      /\ \A f \in Files(0) : f < FailedFile(G) => <<s, 0, f>> \notin bad
  BY <1>g, <1>1, TasksAre, TaskOfSuite, ResolvedTask
<1>4. \A k \in 1 .. Shards : Untouched(fetch[s][k]) /\ ledger[s][k] = "absent"
  BY <1>1 DEF SuitesInv, SuiteOK
<1>5. TypesInv'
  <2>1. suite' \in [Suites -> {"idle", "preparing", "acquiring", "complete", "failed"}]
    BY <1>1 DEF TypesInv, TypeOK
  <2>2. ledger' \in [Suites -> [1 .. Shards -> {"absent", "not_attempted",
                                                "retained", "failed"}]]
    BY <1>2 DEF TypesInv, TypeOK
  <2>3. reported' \in [Suites -> Places \cup {NoError}]
    <3>1. <<0, FailedFile(G)>> \in Places
      BY <1>3, TasksAre, PlaceIs
    <3> QED  BY <1>1, <3>1 DEF TypesInv, TypeOK
  <2> QED  BY <1>1, <2>1, <2>2, <2>3 DEF TypesInv, TypeOK, AllFetches
<1>6. PermitsInv' /\ TasksInv'
  BY <1>1 DEF PermitsInv, PermitsConserved, Holders, TasksInv, TaskOK
<1>7. SuiteOK(s)'
  <2>1. suite'[s] = "failed" /\ reported'[s] = <<0, FailedFile(G)>>
    BY <1>1 DEF TypesInv, TypeOK
  <2>2. FirstBad(s, <<0, FailedFile(G)>>)'
    <3>1. ASSUME NEW x \in bad, x[1] = s PROVE ~Before(<<x[2], x[3]>>, <<0, FailedFile(G)>>)
      <4>1. x \in Fetches
        BY DEF TypesInv, TypeOK
      <4>2. x = <<s, x[2], x[3]>> /\ x[2] \in Tasks /\ x[3] \in Files(x[2])
        BY <3>1, <4>1, FetchIs
      <4>3. x[2] \in Nat
        BY <4>2, AcquisitionAssumption DEF Tasks
      <4>4. CASE x[2] = 0
        BY <1>3, <4>2, <4>4 DEF Before
      <4>5. CASE x[2] # 0
        BY <4>3, <4>5 DEF Before
      <4> QED  BY <4>4, <4>5
    <3> QED  BY <1>1, <1>3, <3>1 DEF FirstBad, Before
  <2>3. \A k \in Tasks : Untouched(fetch'[s][k]) \/ Resolved(fetch'[s][k])
    BY <1>g, <1>1, <1>3, <1>4, TasksAre
  <2>4. ASSUME NEW k \in 1 .. Shards
        PROVE  /\ ~Succeeded(fetch'[s][k]) /\ ~Resolved(fetch'[s][k])
               /\ ledger'[s][k] \in {"absent", "not_attempted"}
    <3>1. ~Resolved(fetch[s][k])
      BY <1>4, TasksAre, TaskOfSuite, TaskShape
    <3>2. ~Succeeded(fetch[s][k])
      BY <3>1 DEF Resolved
    <3>3. ledger'[s][k] \in {"absent", "not_attempted"}
      BY <1>2, <1>4 DEF TypesInv, TypeOK
    <3> QED  BY <1>1, <3>1, <3>2, <3>3
  <2>5. EndedOK(s)'
    BY <2>1, <2>2, <2>3, <2>4 DEF EndedOK
  <2> QED  BY <2>1, <2>5 DEF SuiteOK, Ended
<1>8. ASSUME NEW t \in Suites, t # s PROVE SuiteOK(t)'
  <2>1. SuiteUnchanged(t)
    BY <1>1, <1>2, <1>8 DEF SuiteUnchanged, TypesInv, TypeOK
  <2>2. \A k \in Tasks : Stays(fetch[t][k], fetch'[t][k])
    BY <1>1 DEF Stays
  <2> QED  BY <2>1, <2>2, SuiteStays DEF SuitesInv
<1>9. SuitesInv'
  BY <1>7, <1>8 DEF SuitesInv
<1> QED  BY <1>5, <1>6, <1>9

LEMMA TakeStep ==
  ASSUME AcquisitionInv, NEW s \in Suites, NEW k \in Tasks \ {0}, Take(s, k)
  PROVE  AcquisitionInv'
<1> USE DEF AcquisitionInv
<1>g. PICK G : G = fetch[s][k]
  OBVIOUS
<1>p. PICK p : p = <<k, FailedFile(G)>>
  OBVIOUS
<1>k. PICK K : K = NextShards(s, 1, stopped')
  OBVIOUS
<1>1. /\ suite[s] = "acquiring" /\ Resolved(G) /\ <<s, k>> \notin taken
      /\ taken' = taken \cup {<<s, k>>}
      /\ Schedule(s, K)
      /\ UNCHANGED <<bad, queue, suite, reported>>
  BY <1>g, <1>k DEF Take
<1>2. \/ /\ Succeeded(G)
         /\ ledger' = [ledger EXCEPT ![s][k] = "retained"]
         /\ UNCHANGED <<stopped, failures>>
      \/ /\ ~Succeeded(G)
         /\ ledger' = [ledger EXCEPT ![s][k] = "failed"]
         /\ stopped' = stopped \cup {s}
         /\ failures' = [failures EXCEPT ![s] = @ \cup {p}]
  BY <1>g, <1>p DEF Take
<1>3. AcquiringOK(s) /\ k \in 1 .. Shards
  BY <1>1, TasksAre DEF SuitesInv, SuiteOK
<1>4. /\ K \in SUBSET Unscheduled(s)
      /\ \A i \in K, j \in Unscheduled(s) : j < i => j \in K
      /\ s \notin stopped' /\ Unscheduled(s) # {} => K # {}
  BY <1>k, NextShardsAre
<1>5. /\ AllFetches(fetch') /\ PermitsInv'
      /\ \A t \in Suites, j \in Tasks : TaskOK(t, j, fetch'[t][j])
      /\ \A t \in Suites, j \in Tasks :
           t # s \/ j \notin K => fetch'[t][j] = fetch[t][j]
      /\ \A j \in K : ~Untouched(fetch'[s][j]) /\ ~Resolved(fetch'[s][j])
  BY <1>1, <1>4, ScheduleStep
<1>6. /\ ledger' \in [Suites -> [1 .. Shards -> {"absent", "not_attempted",
                                                 "retained", "failed"}]]
      /\ ledger'[s][k] = IF Succeeded(G) THEN "retained" ELSE "failed"
      /\ \A j \in 1 .. Shards : j # k => ledger'[s][j] = ledger[s][j]
      /\ \A t \in Suites : t # s => ledger'[t] = ledger[t]
  <2>v. PICK v : v = IF Succeeded(G) THEN "retained" ELSE "failed"
    OBVIOUS
  <2>r. PICK r : r = [ledger[s] EXCEPT ![k] = v]
    OBVIOUS
  <2>1. ledger' = [ledger EXCEPT ![s] = r]
    BY <1>2, <2>v, <2>r
  <2>2. v \in {"absent", "not_attempted", "retained", "failed"}
    BY <2>v
  <2>3. ledger \in [Suites -> [1 .. Shards -> {"absent", "not_attempted",
                                              "retained", "failed"}]]
    BY DEF TypesInv, TypeOK
  <2>4. /\ r \in [1 .. Shards -> {"absent", "not_attempted", "retained", "failed"}]
        /\ r[k] = v /\ \A j \in 1 .. Shards : j # k => r[j] = ledger[s][j]
    BY <1>3, <2>2, <2>3, <2>r
  <2> QED  BY <2>1, <2>3, <2>4, <2>v
<1>7. /\ stopped' \subseteq Suites
      /\ \A t \in Suites : t # s => (t \in stopped' <=> t \in stopped)
      /\ \A t \in Suites : t # s => failures'[t] = failures[t]
      /\ failures'[s] = failures[s] \cup (IF Succeeded(G) THEN {} ELSE {p})
      /\ s \in stopped' <=> s \in stopped \/ ~Succeeded(G)
  BY <1>2 DEF TypesInv, TypeOK
<1>8. ~Succeeded(G) => p \in Places
  <2>1. ASSUME ~Succeeded(G) PROVE FailedFile(G) \in Files(k)
    BY <1>g, <1>1, <2>1, TaskOfSuite, ResolvedTask
  <2> QED  BY <1>p, <2>1, PlaceIs
<1>9. TypesInv'
  <2>1. failures' \in [Suites -> SUBSET Places]
    BY <1>2, <1>8 DEF TypesInv
  <2>2. taken' \subseteq Suites \X Tasks
    BY <1>1 DEF TypesInv, TypeOK
  <2>3. /\ bad' \subseteq Fetches /\ queue' \in Seq(Fetches)
        /\ suite' \in [Suites -> {"idle", "preparing", "acquiring", "complete", "failed"}]
        /\ reported' \in [Suites -> Places \cup {NoError}]
    BY <1>1 DEF TypesInv, TypeOK
  <2>4. \A t \in Suites, j \in Tasks : fetch'[t][j] \in [Files(j) -> Statuses]
    BY <1>5 DEF AllFetches
  <2>5. \A t \in Suites : failures'[t] \subseteq Places
    BY <2>1
  <2>6. TypeOK'
    BY <1>6, <1>7, <2>2, <2>3, <2>4, <2>5 DEF TypeOK
  <2> QED  BY <1>5, <2>1, <2>6 DEF TypesInv
<1>10. TasksInv'
  BY <1>1, <1>5 DEF TasksInv, TaskOK
<1>11. \A j \in Tasks : Resolved(fetch[s][j]) => ~Untouched(fetch[s][j])
  BY TaskOfSuite, TaskShape
<1>12. \A j \in 1 .. Shards : j \in K => Untouched(fetch[s][j])
  BY <1>4 DEF Unscheduled, Untouched
<1>13. \A j \in 1 .. Shards :
         <<s, j>> \in taken' => fetch'[s][j] = fetch[s][j] /\ Resolved(fetch[s][j])
  <2>1. ASSUME NEW j \in 1 .. Shards, <<s, j>> \in taken'
        PROVE  Resolved(fetch[s][j])
    BY <1>g, <1>1, <1>3, <2>1 DEF AcquiringOK
  <2> QED  BY <1>5, <1>11, <1>12, <2>1, TasksAre
<1>14. SuiteOK(s)'
  <2>1. Succeeded(fetch'[s][0])
    <3>1. 0 \notin K
      BY <1>4 DEF Unscheduled
    <3> QED  BY <1>3, <1>5, <3>1, TasksAre DEF AcquiringOK
  <2>2. s \in stopped' <=> failures'[s] # {}
    BY <1>3, <1>7 DEF AcquiringOK
  <2>3. failures'[s] = {<<j, FailedFile(fetch'[s][j])>> : j \in Failed(s)'}
    <3>1. Failed(s)' = Failed(s) \cup (IF Succeeded(G) THEN {} ELSE {k})
      <4>1. Failed(s)' = {j \in 1 .. Shards :
                            <<s, j>> \in taken' /\ ~Succeeded(fetch[s][j])}
        BY <1>13 DEF Failed
      <4>2. \A j \in 1 .. Shards : <<s, j>> \in taken' <=> <<s, j>> \in taken \/ j = k
        BY <1>1
      <4> QED  BY <1>g, <1>3, <4>1, <4>2 DEF Failed
    <3>2. \A j \in Failed(s)' : fetch'[s][j] = fetch[s][j]
      BY <1>13 DEF Failed
    <3>3. {<<j, FailedFile(fetch'[s][j])>> : j \in Failed(s)'}
            = {<<j, FailedFile(fetch[s][j])>> : j \in Failed(s)'}
      BY <3>2
    <3>4. {<<j, FailedFile(fetch[s][j])>> : j \in Failed(s)'}
            = {<<j, FailedFile(fetch[s][j])>> : j \in Failed(s)}
                \cup (IF Succeeded(G) THEN {} ELSE {p})
      BY <1>g, <1>p, <3>1
    <3> QED  BY <1>3, <1>7, <3>3, <3>4 DEF AcquiringOK
  <2>4. ASSUME s \notin stopped', Unscheduled(s)' # {} PROVE InFlight(s)' # {}
    <3>1. Unscheduled(s)' \subseteq Unscheduled(s)
      BY <1>5, TasksAre DEF Unscheduled, Untouched
    <3>2. PICK j \in K : j \in 1 .. Shards /\ Untouched(fetch[s][j])
      BY <1>4, <1>12, <2>4, <3>1 DEF Unscheduled
    <3>3. <<s, j>> \notin taken'
      BY <1>11, <1>13, <3>2, TasksAre
    <3>4. j \in InFlight(s)'
      BY <1>5, <3>2, <3>3 DEF InFlight, Untouched
    <3> QED  BY <3>4
  <2>5. ASSUME NEW j \in 1 .. Shards, ~Untouched(fetch'[s][j]),
               NEW i \in 1 .. Shards, i < j
        PROVE  ~Untouched(fetch'[s][i])
    <3>1. CASE i \in K
      BY <1>5, <3>1
    <3>2. CASE i \notin K
      <4>1. fetch'[s][i] = fetch[s][i]
        BY <1>5, <3>2, TasksAre
      <4>2. CASE j \in K
        BY <1>4, <2>5, <3>2, <4>1, <4>2 DEF Unscheduled, Untouched
      <4>3. CASE j \notin K
        <5>1. ~Untouched(fetch[s][j])
          BY <1>5, <2>5, <4>3, TasksAre
        <5> QED  BY <1>3, <2>5, <4>1, <5>1 DEF AcquiringOK
      <4> QED  BY <4>2, <4>3
    <3> QED  BY <3>1, <3>2
  <2>6. ASSUME NEW j \in 1 .. Shards
        PROVE  /\ <<s, j>> \in taken' => Resolved(fetch'[s][j])
               /\ ledger'[s][j] = IF <<s, j>> \notin taken' THEN "not_attempted"
                                  ELSE IF Succeeded(fetch'[s][j]) THEN "retained"
                                  ELSE "failed"
    <3>1. <<s, j>> \in taken' => Resolved(fetch'[s][j])
      BY <1>13
    <3>2. CASE j = k
      <4>1. <<s, j>> \in taken' /\ fetch'[s][j] = G
        BY <1>g, <1>1, <1>13, <3>2
      <4> QED  BY <1>6, <3>1, <3>2, <4>1
    <3>3. CASE j # k
      <4>1. <<s, j>> \in taken' <=> <<s, j>> \in taken
        BY <1>1, <3>3
      <4>2. ledger[s][j] = IF <<s, j>> \notin taken THEN "not_attempted"
                           ELSE IF Succeeded(fetch[s][j]) THEN "retained" ELSE "failed"
        BY <1>3 DEF AcquiringOK
      <4> QED  BY <1>6, <1>13, <3>1, <3>3, <4>1, <4>2
    <3> QED  BY <3>2, <3>3
  <2>7. AcquiringOK(s)'
    BY <2>1, <2>2, <2>3, <2>4, <2>5, <2>6 DEF AcquiringOK
  <2> QED  BY <1>1, <2>7 DEF SuiteOK, Ended
<1>15. ASSUME NEW t \in Suites, t # s PROVE SuiteOK(t)'
  <2>1. SuiteUnchanged(t)
    BY <1>1, <1>6, <1>7, <1>15 DEF SuiteUnchanged
  <2>2. \A j \in Tasks : Stays(fetch[t][j], fetch'[t][j])
    BY <1>5, <1>15 DEF Stays
  <2> QED  BY <2>1, <2>2, SuiteStays DEF SuitesInv
<1>16. SuitesInv'
  BY <1>14, <1>15 DEF SuitesInv
<1> QED  BY <1>5, <1>9, <1>10, <1>16

(* A set of errors has one of the least shard.                              *)
LEMMA LeastErrorIs ==
  ASSUME NEW E \in SUBSET Places, E # {}
  PROVE  LeastError(E) \in E /\ \A d \in E : LeastError(E)[1] <= d[1]
<1> DEFINE T == {n \in Nat : \E e \in E : e[1] = n}
<1>1. ASSUME NEW e \in E PROVE e[1] \in Nat
  <2>1. PICK k \in Tasks : e \in {<<k, f>> : f \in Files(k)}
    BY DEF Places
  <2> QED  BY <2>1, AcquisitionAssumption DEF Tasks
<1>2. T # {}
  BY <1>1
<1>3. PICK n \in T : \A m \in T : n <= m
  <2> HIDE DEF T
  <2> T \in SUBSET Nat  BY DEF T
  <2> QED  BY <1>2, LeastNumber
<1>4. \E e \in E : \A d \in E : e[1] <= d[1]
  BY <1>1, <1>3
<1> QED  BY <1>4 DEF LeastError

LEMMA FinishStep ==
  ASSUME AcquisitionInv, NEW s \in Suites, Finish(s)
  PROVE  AcquisitionInv'
<1> USE DEF AcquisitionInv
<1>e. PICK e : e = LeastError(failures[s])
  OBVIOUS
<1>1. /\ suite[s] = "acquiring" /\ InFlight(s) = {}
      /\ UNCHANGED <<bad, fetch, queue, taken, stopped, ledger, failures>>
  BY DEF Finish
<1>2. AcquiringOK(s)
  BY <1>1 DEF SuitesInv, SuiteOK
<1>3. \A k \in 1 .. Shards : Untouched(fetch[s][k]) \/ <<s, k>> \in taken
  BY <1>1 DEF InFlight, Untouched
<1>4. \A k \in Tasks : Resolved(fetch[s][k]) => ~Untouched(fetch[s][k])
  BY TaskOfSuite, TaskShape
<1>5. \A k \in Tasks : Succeeded(fetch[s][k]) =>
        /\ Resolved(fetch[s][k])
        /\ \A f \in Files(k) : <<s, k, f>> \notin bad
  BY TaskOfSuite, ResolvedTask
<1>6. \A k \in 1 .. Shards : <<s, k>> \in taken => Resolved(fetch[s][k])
  BY <1>2 DEF AcquiringOK
<1>7. \/ /\ failures[s] # {}
         /\ suite' = [suite EXCEPT ![s] = "failed"]
         /\ reported' = [reported EXCEPT ![s] = e]
      \/ /\ failures[s] = {} /\ Unscheduled(s) = {}
         /\ suite' = [suite EXCEPT ![s] = "complete"]
         /\ reported' = reported
  <2>1. failures[s] = {} => Unscheduled(s) = {}
    BY <1>1, <1>2 DEF AcquiringOK
  <2> QED  BY <1>e, <2>1 DEF Finish
<1>8. failures[s] # {} =>
        /\ e \in failures[s] /\ \A d \in failures[s] : e[1] <= d[1]
        /\ e \in Places
  BY <1>e, LeastErrorIs DEF TypesInv
<1>9. TypesInv'
  <2>1. suite' \in [Suites -> {"idle", "preparing", "acquiring", "complete", "failed"}]
    BY <1>7 DEF TypesInv, TypeOK
  <2>2. reported' \in [Suites -> Places \cup {NoError}]
    BY <1>7, <1>8 DEF TypesInv, TypeOK
  <2> QED  BY <1>1, <2>1, <2>2 DEF TypesInv, TypeOK, AllFetches
<1>10. PermitsInv' /\ TasksInv'
  BY <1>1 DEF PermitsInv, PermitsConserved, Holders, TasksInv, TaskOK
<1>11. \A k \in Tasks : Untouched(fetch[s][k]) \/ Resolved(fetch[s][k])
  BY <1>2, <1>3, <1>5, <1>6, TasksAre DEF AcquiringOK
<1>12. \A k \in 1 .. Shards :
         IF Succeeded(fetch[s][k]) THEN ledger[s][k] = "retained"
         ELSE IF Resolved(fetch[s][k]) THEN ledger[s][k] = "failed"
         ELSE ledger[s][k] \in {"absent", "not_attempted"}
  BY <1>2, <1>3, <1>4, <1>5, <1>6, TasksAre DEF AcquiringOK
<1>13. SuiteOK(s)'
  <2>1. CASE failures[s] # {}
    <3>1. suite'[s] = "failed" /\ reported'[s] = e
      BY <1>7, <2>1 DEF TypesInv, TypeOK
    <3>2. PICK k \in Failed(s) : e = <<k, FailedFile(fetch[s][k])>>
      BY <1>2, <1>8, <2>1 DEF AcquiringOK
    <3>3. /\ k \in 1 .. Shards /\ <<s, k>> \in taken
          /\ Resolved(fetch[s][k]) /\ ~Succeeded(fetch[s][k])
      BY <1>6, <3>2 DEF Failed
    <3>4. /\ <<s, k, FailedFile(fetch[s][k])>> \in bad
          /\ \A f \in Files(k) : f < FailedFile(fetch[s][k]) => <<s, k, f>> \notin bad
      BY <3>3, TasksAre, TaskOfSuite, ResolvedTask
    <3>5. ASSUME NEW j \in Tasks, j < k, NEW f \in Files(j)
          PROVE  <<s, j, f>> \notin bad
      <4>1. CASE j = 0
        BY <1>2, <1>5, <3>5, <4>1 DEF AcquiringOK
      <4>2. CASE j \in 1 .. Shards
        <5>1. ~Untouched(fetch[s][j])
          BY <1>2, <1>4, <3>3, <3>5, <4>2, TasksAre DEF AcquiringOK
        <5>2. <<s, j>> \in taken
          BY <1>3, <4>2, <5>1
        <5>3. j \notin Failed(s)
          <6>1. ASSUME j \in Failed(s) PROVE FALSE
            <7>1. <<j, FailedFile(fetch[s][j])>> \in failures[s]
              BY <1>2, <6>1 DEF AcquiringOK
            <7>2. k <= j
              BY <1>8, <2>1, <3>2, <7>1
            <7> QED  BY <3>3, <3>5, <4>2, <7>2
          <6> QED  BY <6>1
        <5>4. Succeeded(fetch[s][j])
          BY <4>2, <5>2, <5>3 DEF Failed
        <5> QED  BY <1>5, <3>5, <5>4
      <4> QED  BY <4>1, <4>2, TasksAre
    <3>6. ASSUME NEW x \in bad, x[1] = s PROVE ~Before(<<x[2], x[3]>>, e)
      <4>1. x = <<s, x[2], x[3]>> /\ x[2] \in Tasks /\ x[3] \in Files(x[2])
        BY <3>6, FetchIs DEF TypesInv, TypeOK
      <4>2. ~(x[2] < k)
        BY <3>5, <3>6, <4>1
      <4>3. x[2] = k => ~(x[3] < FailedFile(fetch[s][k]))
        BY <3>4, <3>6, <4>1
      <4> QED  BY <3>2, <4>2, <4>3 DEF Before
    <3>7. FirstBad(s, e)'
      BY <1>1, <3>2, <3>4, <3>6 DEF FirstBad, Before
    <3>8. EndedOK(s)'
      BY <1>1, <1>11, <1>12, <3>1, <3>7 DEF EndedOK
    <3> QED  BY <3>1, <3>8 DEF SuiteOK, Ended
  <2>2. CASE failures[s] = {}
    <3>1. suite'[s] = "complete"
      BY <1>7, <2>2 DEF TypesInv, TypeOK
    <3>2. Failed(s) = {}
      BY <1>2, <2>2 DEF AcquiringOK
    <3>3. \A k \in 1 .. Shards : <<s, k>> \in taken
      BY <1>3, <1>7, <2>2 DEF Unscheduled, Untouched
    <3>4. \A k \in Tasks : Succeeded(fetch[s][k])
      BY <1>2, <3>2, <3>3, TasksAre DEF Failed, AcquiringOK
    <3>5. EndedOK(s)'
      BY <1>1, <1>11, <1>12, <3>1, <3>4 DEF EndedOK
    <3> QED  BY <3>1, <3>5 DEF SuiteOK, Ended
  <2> QED  BY <2>1, <2>2
<1>14. ASSUME NEW t \in Suites, t # s PROVE SuiteOK(t)'
  <2>1. SuiteUnchanged(t)
    BY <1>1, <1>7, <1>14 DEF SuiteUnchanged, TypesInv, TypeOK
  <2>2. \A k \in Tasks : Stays(fetch[t][k], fetch'[t][k])
    BY <1>1 DEF Stays
  <2> QED  BY <2>1, <2>2, SuiteStays DEF SuitesInv
<1>15. SuitesInv'
  BY <1>13, <1>14 DEF SuitesInv
<1> QED  BY <1>9, <1>10, <1>15

-----------------------------------------------------------------------------
(* The invariant is inductive *)

LEMMA InitEstablishes == Init => AcquisitionInv
<1> SUFFICES ASSUME Init PROVE AcquisitionInv
  OBVIOUS
<1>1. /\ bad \subseteq Fetches /\ queue = <<>> /\ taken = {} /\ stopped = {}
      /\ fetch = [s \in Suites |-> [k \in Tasks |-> [f \in Files(k) |-> "todo"]]]
      /\ suite = [s \in Suites |-> "idle"]
      /\ ledger = [s \in Suites |-> [k \in 1 .. Shards |-> "absent"]]
      /\ failures = [s \in Suites |-> {}]
      /\ reported = [s \in Suites |-> NoError]
  BY DEF Init, kSubset
<1>2. \A s \in Suites, k \in Tasks : fetch[s][k] = [f \in Files(k) |-> "todo"]
  BY <1>1
<1>a. \A s \in Suites, k \in Tasks : \A f \in Files(k) : fetch[s][k][f] = "todo"
  BY <1>2
<1>3. TypesInv
  <2>1. \A k \in Tasks : [f \in Files(k) |-> "todo"] \in [Files(k) -> Statuses]
    BY DEF Statuses
  <2>2. fetch \in [Suites -> [Tasks -> Maps]]
    <3>1. [k \in Tasks |-> [f \in Files(k) |-> "todo"]] \in [Tasks -> Maps]
      BY <2>1 DEF Maps
    <3> QED  BY <1>1, <3>1
  <2>3. AllFetches(fetch)
    BY <1>2, <2>1, <2>2 DEF AllFetches
  <2>4. <<>> \in Seq(Fetches)
    OBVIOUS
  <2> QED  BY <1>1, <2>3, <2>4 DEF TypesInv, TypeOK, AllFetches
<1>4. \A x \in Fetches : fetch[x[1]][x[2]][x[3]] = "todo"
  BY <1>a, FetchIs
<1>5. PermitsInv
  <2>1. Holders(fetch) = {}
    BY <1>4 DEF Holders
  <2>2. IsFiniteSet(Holders(fetch)) /\ Cardinality(Holders(fetch)) = 0
    BY <2>1, FS_EmptySet
  <2>3. ToSet(queue) = {}
    BY <1>1 DEF ToSet
  <2>4. \A i, j \in DOMAIN queue : queue[i] = queue[j] => i = j
    BY <1>1
  <2>5. {x \in Fetches : fetch[x[1]][x[2]][x[3]] = "queued"} = {}
    BY <1>4
  <2>6. queue = <<>> /\ Concurrency \in Nat
    BY <1>1, AcquisitionAssumption
  <2>7. PermitsConserved
    BY <2>2, <2>3, <2>5, <2>6 DEF PermitsConserved
  <2> QED  BY <2>2, <2>4, <2>7 DEF PermitsInv
<1>6. TasksInv
  BY <1>a DEF TasksInv, TaskOK
<1>7. SuitesInv
  <2>1. \A s \in Suites, k \in Tasks : Untouched(fetch[s][k])
    BY <1>a, FilesOfTask DEF Untouched
  <2> QED  BY <1>1, <2>1, TasksAre DEF SuitesInv, SuiteOK, Ended
<1> QED  BY <1>3, <1>5, <1>6, <1>7 DEF AcquisitionInv

LEMMA NextKeeps == AcquisitionInv /\ [Next]_vars => AcquisitionInv'
<1> SUFFICES ASSUME AcquisitionInv, [Next]_vars PROVE AcquisitionInv'
  OBVIOUS
<1>1. ASSUME NEW s \in Suites, Begin(s) PROVE AcquisitionInv'
  BY <1>1, BeginStep
<1>2. ASSUME NEW s \in Suites, Prepared(s) PROVE AcquisitionInv'
  BY <1>2, PreparedStep
<1>3. ASSUME NEW s \in Suites, NotPrepared(s) PROVE AcquisitionInv'
  BY <1>3, NotPreparedStep
<1>4. ASSUME NEW s \in Suites, Finish(s) PROVE AcquisitionInv'
  BY <1>4, FinishStep
<1>5. ASSUME NEW s \in Suites, NEW k \in Tasks \ {0}, Take(s, k) PROVE AcquisitionInv'
  BY <1>5, TakeStep
<1>6. ASSUME NEW s \in Suites, NEW k \in Tasks, NEW f \in Files(k),
             FoundOnDisk(s, k, f) \/ Download(s, k, f)
      PROVE  AcquisitionInv'
  <2>1. fetch[s][k][f] \in InProgress /\ Ends(s, k, f)
    BY <1>6 DEF FoundOnDisk, Download, InProgress
  <2>2. Fetched
    BY <2>1, EndsStep DEF AcquisitionInv
  <2> QED  BY <1>6, <2>2, FetchedStep DEF FoundOnDisk, Download
<1>7. ASSUME NEW s \in Suites, NEW k \in Tasks, NEW f \in Files(k), Acquire(s, k, f)
      PROVE  AcquisitionInv'
  <2>1. Fetched
    BY <1>7, AcquireStep DEF AcquisitionInv
  <2> QED  BY <1>7, <2>1, FetchedStep DEF Acquire
<1>8. ASSUME UNCHANGED vars PROVE AcquisitionInv'
  <2>1. UNCHANGED <<bad, fetch, queue, taken, suite, stopped, ledger, failures, reported>>
    BY <1>8 DEF vars
  <2>2. TypesInv'
    BY <2>1 DEF AcquisitionInv, TypesInv, TypeOK, AllFetches
  <2>4. PermitsInv'
    BY <2>1 DEF AcquisitionInv, PermitsInv, PermitsConserved, Holders
  <2>5. TasksInv'
    BY <2>1 DEF AcquisitionInv, TasksInv, TaskOK
  <2>3. ASSUME NEW s \in Suites PROVE SuiteOK(s)'
    <3>1. SuiteUnchanged(s)
      BY <2>1 DEF SuiteUnchanged
    <3>2. \A k \in Tasks : Stays(fetch[s][k], fetch'[s][k])
      BY <2>1 DEF Stays
    <3> QED  BY <3>1, <3>2, SuiteStays DEF AcquisitionInv, SuitesInv
  <2> QED  BY <2>2, <2>3, <2>4, <2>5 DEF AcquisitionInv, SuitesInv
<1> QED  BY <1>1, <1>2, <1>3, <1>4, <1>5, <1>6, <1>7, <1>8
         DEF Next, Local, Answer, Collected

(* The invariant that the theorems below follow from: where the permits     *)
(* are, what the files of each task look like and what each suite's loop    *)
(* has seen hold in every reachable state.                                  *)
THEOREM AcquisitionInductive == Spec => []AcquisitionInv
<1> QED  BY InitEstablishes, NextKeeps, PTL DEF Spec

-----------------------------------------------------------------------------
(* The properties *)

(* Every variable keeps the type it is declared with.                       *)
THEOREM AcquisitionTypeCorrect == Spec => []TypeOK
<1>1. AcquisitionInv => TypeOK
  BY DEF AcquisitionInv, TypesInv
<1> QED  BY <1>1, AcquisitionInductive, PTL

(* The semaphore's permits bound the downloads of all suites together, and  *)
(* a fetch waits only while every permit is in use: a shard that drops its  *)
(* JUnit futures gives their permits and their places in the queue back.    *)
THEOREM PermitsAreConserved == Spec => []PermitsConserved
<1>1. AcquisitionInv => PermitsConserved
  BY DEF AcquisitionInv, PermitsInv
<1> QED  BY <1>1, AcquisitionInductive, PTL

(* ADR-0014: a suite completes exactly when none of its own fetches fails,  *)
(* for any number of suites that share the permits.                         *)
THEOREM SuitesIndependent == Spec => []SuitesAreIndependent
<1>1. AcquisitionInv => SuitesAreIndependent
  <2> SUFFICES ASSUME AcquisitionInv, NEW s \in Suites
               PROVE  /\ suite[s] = "complete" => \A x \in bad : x[1] # s
                      /\ suite[s] = "failed" => \E x \in bad : x[1] = s
    BY DEF SuitesAreIndependent
  <2> USE DEF AcquisitionInv
  <2>1. ASSUME suite[s] = "complete", NEW x \in bad, x[1] = s PROVE FALSE
    <3>1. x = <<s, x[2], x[3]>> /\ x[2] \in Tasks /\ x[3] \in Files(x[2])
      BY <2>1, FetchIs DEF TypesInv, TypeOK
    <3>2. Succeeded(fetch[s][x[2]])
      BY <2>1, <3>1 DEF SuitesInv, SuiteOK, EndedOK, Ended
    <3>3. \A f \in Files(x[2]) : <<s, x[2], f>> \notin bad
      BY <3>1, <3>2, TaskOfSuite, ResolvedTask
    <3> QED  BY <2>1, <3>1, <3>3
  <2>2. ASSUME suite[s] = "failed" PROVE \E x \in bad : x[1] = s
    <3>1. <<s, reported[s][1], reported[s][2]>> \in bad
      BY <2>2 DEF SuitesInv, SuiteOK, EndedOK, Ended, FirstBad
    <3> QED  BY <3>1
  <2> QED  BY <2>1, <2>2
<1> QED  BY <1>1, AcquisitionInductive, PTL

(* The error of a failed suite is the first file the server cannot deliver, *)
(* in the order of the shard index, however the answers interleave.         *)
THEOREM ErrorsDeterministic == Spec => []ErrorIsDeterministic
<1>1. AcquisitionInv => ErrorIsDeterministic
  BY DEF AcquisitionInv, SuitesInv, SuiteOK, EndedOK, Ended, FirstBad,
         ErrorIsDeterministic
<1> QED  BY <1>1, AcquisitionInductive, PTL

(* The ledger of a suite that has ended says of every shard whether it was  *)
(* retained, failed or was never attempted, and nothing of it is under way. *)
THEOREM LedgersTruthful == Spec => []LedgerTellsTheTruth
<1>1. AcquisitionInv => LedgerTellsTheTruth
  <2> SUFFICES ASSUME AcquisitionInv, NEW s \in Suites, NEW k \in Tasks \ {0}, Ended(s)
               PROVE  /\ ledger[s][k] = "retained" <=> Succeeded(fetch[s][k])
                      /\ ledger[s][k] = "failed" <=> FirstError(fetch[s][k]) # {}
                      /\ ledger[s][k] \in {"absent", "not_attempted"}
                           <=> \A f \in Files(k) : fetch[s][k][f] = "todo"
                      /\ \A f \in Files(k) :
                           fetch[s][k][f] \notin {"started", "queued", "holding"}
    BY DEF LedgerTellsTheTruth
  <2> USE DEF AcquisitionInv
  <2>g. PICK G : G = fetch[s][k]
    OBVIOUS
  <2>1. /\ Untouched(G) \/ Resolved(G)
        /\ IF Succeeded(G) THEN ledger[s][k] = "retained"
           ELSE IF Resolved(G) THEN ledger[s][k] = "failed"
           ELSE ledger[s][k] \in {"absent", "not_attempted"}
    BY <2>g, TasksAre DEF SuitesInv, SuiteOK, EndedOK
  <2>2. /\ Untouched(G) <=> \A f \in Files(k) : G[f] = "todo"
        /\ Resolved(G) => ~Untouched(G)
        /\ \A f \in Files(k) : G[f] \in InProgress => ~Untouched(G) /\ ~Resolved(G)
    BY <2>g, TaskOfSuite, TaskShape
  <2>3. /\ Succeeded(G) => Resolved(G)
        /\ FirstError(G) # {} <=> Resolved(G) /\ ~Succeeded(G)
    BY <2>g, TaskOfSuite, ResolvedTask
  <2> QED  BY <2>g, <2>1, <2>2, <2>3 DEF InProgress
<1> QED  BY <1>1, AcquisitionInductive, PTL
=============================================================================
