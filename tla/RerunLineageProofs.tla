-------------------------- MODULE RerunLineageProofs --------------------------
(***************************************************************************)
(* Theorems about reruns.  The invariant has five layers, each stated on   *)
(* the ones before: what GitHub's records, bases and files have to do with *)
(* each other (GithubInv, BasisInv); what is retained, and what a summary  *)
(* and its link stand for (DirectoryInv, SummariesInv); what a frame knows *)
(* by the stage it has reached, and frames of their neighbours (StacksInv);*)
(* that what is published leads through distinct runs to a run that reran  *)
(* none (PathsInv); and that a collector whose run was published follows   *)
(* such a path (FoundInv).                                                 *)
(***************************************************************************)
EXTENDS RerunLineage, SequenceTheorems, TLAPS

-----------------------------------------------------------------------------
(* The inductive invariant *)

Exec(f)  == <<f.run, f.rec.attempt>>
Began(e) == Exists(e[1]) /\ e[2] <= record[e[1]].attempt

(* The source of a run exists.  A run has uploaded the files of its newest  *)
(* attempt or else those of the one before, of which it has completed.      *)
GithubInv ==
  /\ clock \in 0 .. MaxTime
  /\ DOMAIN created \subseteq Runs
  /\ DOMAIN record = DOMAIN created
  /\ \A r \in DOMAIN record :
       /\ created[r] \in 0 .. clock
       /\ record[r] \in Records
       /\ record[r].updated <= clock
       /\ SourceOf[r] # NoRun => Exists(SourceOf[r])
       /\ files[r] \in {record[r].attempt - 1, record[r].attempt}
       /\ record[r].completed => files[r] = record[r].attempt
  /\ basis \in [Executions -> {None} \cup Attempts]
  /\ files \in [Runs -> {None} \cup Attempts]
  /\ \A r \in Runs : files[r] # None => Exists(r)
  /\ DOMAIN content \subseteq Executions
  /\ \A e \in DOMAIN content : content[e] \in Uploads[e[1]]
  /\ \A r \in Runs : \A a \in 1 .. files[r] : <<r, a>> \in DOMAIN content

(* If the source's attempt began before the rerun was created, or even      *)
(* completed then, each attempt of the rerun stands on it.                  *)
BasisInv ==
  \A r \in DOMAIN record : SourceOf[r] # NoRun =>
    LET source == record[SourceOf[r]] IN
      \/ source.updated < created[r]
      \/ Established(source, r)
      => \A a \in 1 .. record[r].attempt : basis[<<r, a>>] = source.attempt

(* Files come from the attempt they are retained for or from a later one.   *)
DirectoryInv ==
  /\ runFile \in [Executions -> Records \cup {NoRecord}]
  /\ pin \in [Executions -> Records \cup {NoRecord}]
  /\ plan \in [Executions -> {None} \cup Attempts]
  /\ rest \in [Executions -> {None} \cup Attempts]
  /\ nested \subseteq Executions
  /\ \A e \in Executions :
       /\ pin[e] # NoRecord =>
            /\ Began(e)
            /\ SourceOf[e[1]] \in Runs /\ Began(<<SourceOf[e[1]], pin[e].attempt>>)
            /\ Established(pin[e], e[1]) => pin[e].attempt = basis[e]
       /\ plan[e] # None => plan[e] \in e[2] .. files[e[1]]
       /\ rest[e] # None => rest[e] \in e[2] .. files[e[1]]

(* A link is of the attempt that was pinned, which is certain to be the     *)
(* basis, and holds what was published of it.                               *)
LinkOK(e, l) ==
  /\ l = [mode |-> l.mode, attempt |-> l.attempt, summary |-> l.summary]
  /\ l.mode \in {"partial", "carried_forward"}
  /\ SourceOf[e[1]] # NoRun
  /\ pin[e] # NoRecord
  /\ Established(pin[e], e[1])
  /\ l.attempt = pin[e].attempt
  /\ Published(<<SourceOf[e[1]], l.attempt>>)
  /\ summary[<<SourceOf[e[1]], l.attempt>>] = l.summary

ResultOK(e, m) ==
  /\ m.verdict \in {"pass", "fail"}
  /\ m.link # NoLink => LinkOK(e, m.link)
  /\ VerdictAgrees(m)

SummariesInv ==
  /\ summary = [e \in Executions |-> summary[e]]
  /\ \A e \in Executions : Published(e) =>
       /\ plan[e] # None /\ rest[e] # None
       /\ ResultOK(e, summary[e])
  /\ SourceEvidenceIsPinned

(* What a frame knows by its stage.                                         *)
FrameOK(f) ==
  /\ f = [run |-> f.run, rec |-> f.rec, stage |-> f.stage, link |-> f.link,
          result |-> f.result]
  /\ f.run \in Runs /\ f.rec \in Records /\ f.stage \in Stages
  /\ Began(Exec(f))
  /\ f.stage \in {"enter", "describe", "plan"} => f.link = NoLink
  /\ f.stage \in {"plan", "source", "rest", "recheck", "publish"}
       => f.rec.attempt <= files[f.run]
  /\ f.stage \in {"source", "rest", "recheck", "publish"} => plan[Exec(f)] # None
  /\ f.stage \in {"recheck", "publish"} =>
       /\ rest[Exec(f)] # None
       /\ ResultOK(Exec(f), f.result)
       /\ f.result.link # NoLink => f.link # NoLink
  /\ f.stage = "source" => SourceOf[f.run] # NoRun
  /\ f.stage \in {"rest", "recheck", "publish"} =>
       \/ f.link = NoLink /\ SourceOf[f.run] = NoRun
       \/ LinkOK(Exec(f), f.link)
  /\ f.stage = "validate" =>
       Published(Exec(f)) /\ summary[Exec(f)].link # NoLink
  /\ f.stage = "return" => Published(Exec(f))

\* What frame i of the stack s has to do with the others.
PlaceOK(s, i) ==
  /\ s[i].stage # "enter" =>
       /\ i <= MaxLineage
       /\ \A j \in 1 .. i - 1 : s[j].run # s[i].run
  /\ i < Len(s) =>
       /\ s[i].stage \in {"source", "validate"}
       /\ s[i + 1].run = SourceOf[s[i].run]
       /\ s[i + 1].rec = pin[Exec(s[i])]
       /\ Established(s[i + 1].rec, s[i].run)
  /\ i > 1 /\ s[i].stage = "publish" =>
       plan[Exec(s[i])] = s[i].rec.attempt /\ rest[Exec(s[i])] = s[i].rec.attempt

StackOK(s) == \A i \in 1 .. Len(s) : FrameOK(s[i]) /\ PlaceOK(s, i)

IsStack(s) == \E F : s \in Seq(F)

StacksInv ==
  /\ stack = [c \in Collectors |-> stack[c]]
  /\ \A c \in Collectors : StackOK(stack[c])

(* From a published summary the links lead to one that has no link.         *)
Path(p, n) ==
  /\ \A i \in 1 .. n :
       /\ Published(p[i])
       /\ i < n => summary[p[i]].link # NoLink /\ p[i + 1] = Source(p[i])
       /\ \A j \in 1 .. n : p[i][1] = p[j][1] => i = j
  /\ summary[p[n]].link = NoLink

\* Such a path from e fits upon the first d frames of s.
Fits(p, n, e, s, d) ==
  /\ Path(p, n)
  /\ p[1] = e
  /\ d + n <= MaxLineage
  /\ \A i \in 1 .. n : \A j \in 1 .. d : p[i][1] # s[j].run

Leads(e, s, d) ==
  \E n \in 1 .. MaxLineage : \E p \in [1 .. n -> Executions] : Fits(p, n, e, s, d)

TopLeads(s) ==
  s # <<>> =>
    LET d   == Len(s)
        top == s[d]
    IN
      /\ top.stage = "return" => Leads(Exec(top), s, d - 1)
      /\ top.stage \in {"rest", "recheck", "publish"} /\ top.link # NoLink =>
           Leads(<<SourceOf[top.run], top.link.attempt>>, s, d)

PathsInv ==
  /\ \A e \in Executions : Published(e) => Leads(e, <<>>, 0)
  /\ \A c \in Collectors : TopLeads(stack[c])

Follows(s) ==
  s # <<>> =>
    \E n \in 1 .. MaxLineage : \E p \in [1 .. n -> Executions] :
      /\ Path(p, n)
      /\ Len(s) <= n
      /\ \A i \in 1 .. Len(s) :
           Exec(s[i]) = p[i] /\ s[i].stage \in {"enter", "validate", "return"}

FoundInv ==
  /\ found \in [Collectors -> BOOLEAN]
  /\ answer \in [Collectors -> Answers]
  /\ \A c \in Collectors : found[c] => Follows(stack[c])
  /\ PublishedRerunStays

LineageInv ==
  /\ GithubInv
  /\ BasisInv
  /\ DirectoryInv
  /\ SummariesInv
  /\ StacksInv
  /\ \A c \in Collectors : IsStack(stack[c])
  /\ PathsInv
  /\ FoundInv

-----------------------------------------------------------------------------
(* Stacks *)

LEMMA EmptyStack == IsStack(<<>>) /\ Len(<<>>) = 0
BY DEF IsStack

LEMMA StackTyped ==
  ASSUME NEW s, IsStack(s)
  PROVE  /\ Len(s) \in Nat
         /\ DOMAIN s = 1 .. Len(s)
         /\ s # <<>> <=> Len(s) > 0
<1>1. PICK F : s \in Seq(F)
  BY DEF IsStack
<1> QED
  BY <1>1

LEMMA OneFrame ==
  ASSUME NEW f
  PROVE  /\ IsStack(<<f>>)
         /\ Len(<<f>>) = 1
         /\ <<f>>[1] = f
<1>1. <<f>> \in Seq({f})
  OBVIOUS
<1> QED
  BY <1>1 DEF IsStack

LEMMA PushFrame ==
  ASSUME NEW s, IsStack(s), NEW f
  PROVE  /\ IsStack(Append(s, f))
         /\ Len(Append(s, f)) = Len(s) + 1
         /\ \A i \in 1 .. Len(s) : Append(s, f)[i] = s[i]
         /\ Append(s, f)[Len(s) + 1] = f
<1>1. PICK F : s \in Seq(F)
  BY DEF IsStack
<1>2. s \in Seq(F \cup {f})
  BY <1>1
<1>3. Append(s, f) \in Seq(F \cup {f})
  BY <1>2
<1> QED
  BY <1>2, <1>3 DEF IsStack

LEMMA BecomeFrame ==
  ASSUME NEW s, IsStack(s), s # <<>>, NEW f
  PROVE  LET t == [s EXCEPT ![Len(s)] = f] IN
           /\ IsStack(t)
           /\ Len(t) = Len(s)
           /\ \A i \in 1 .. Len(s) - 1 : t[i] = s[i]
           /\ t[Len(s)] = f
<1>1. PICK F : s \in Seq(F)
  BY DEF IsStack
<1>2. s \in Seq(F \cup {f})
  BY <1>1
<1>3. [s EXCEPT ![Len(s)] = f] \in Seq(F \cup {f})
  BY <1>2
<1> QED
  BY <1>2, <1>3 DEF IsStack

LEMMA PopFrame ==
  ASSUME NEW s, IsStack(s), Len(s) > 1, NEW f
  PROVE  LET t == Append(SubSeq(s, 1, Len(s) - 2), f) IN
           /\ IsStack(t)
           /\ Len(t) = Len(s) - 1
           /\ \A i \in 1 .. Len(s) - 2 : t[i] = s[i]
           /\ t[Len(s) - 1] = f
<1>1. PICK F : s \in Seq(F)
  BY DEF IsStack
<1> DEFINE u == SubSeq(s, 1, Len(s) - 2)
<1>2. /\ u \in Seq(F)
      /\ Len(u) = Len(s) - 2
      /\ \A i \in 1 .. Len(s) - 2 : u[i] = s[i]
  <2>1. /\ Len(s) \in Nat
        /\ 1 \in 1 .. Len(s) + 1 /\ Len(s) - 2 \in 0 .. Len(s)
        /\ (Len(s) - 2) - 1 + 1 = Len(s) - 2
    BY <1>1
  <2>2. u \in Seq(F)
    BY <1>1, <2>1
  <2>3. Len(u) = Len(s) - 2
    BY <1>1, <2>1, SubSeqProperties, Z3
  <2>4. ASSUME NEW i \in 1 .. Len(s) - 2 PROVE u[i] = s[i]
    BY <1>1, <2>1
  <2> QED
    BY <2>2, <2>3, <2>4
<1>3. IsStack(u)
  BY <1>2 DEF IsStack
<1> HIDE DEF u
<1>4. /\ IsStack(Append(u, f))
      /\ Len(Append(u, f)) = Len(u) + 1
      /\ \A i \in 1 .. Len(u) : Append(u, f)[i] = u[i]
      /\ Append(u, f)[Len(u) + 1] = f
  BY <1>3, PushFrame
<1>5. Len(s) \in Nat
  BY <1>1
<1>6. /\ IsStack(Append(u, f))
      /\ Len(Append(u, f)) = Len(s) - 1
      /\ \A i \in 1 .. Len(s) - 2 : Append(u, f)[i] = s[i]
      /\ Append(u, f)[Len(s) - 1] = f
  BY <1>2, <1>4, <1>5
<1> QED
  BY <1>6 DEF u

-----------------------------------------------------------------------------
(* GitHub, CI and the evidence server *)

LEMMA ATick ==
  ASSUME GithubInv, BasisInv, Tick
  PROVE  GithubInv' /\ BasisInv'
<1>1. /\ clock' = clock + 1 /\ clock < MaxTime /\ clock \in Nat /\ MaxTime \in Nat
      /\ UNCHANGED <<created, record, basis, content, files>>
  BY LineageAssumption DEF GithubInv, Tick
<1>2. clock' \in 0 .. MaxTime
  BY <1>1
<1>3. \A r \in DOMAIN record : created[r] \in 0 .. clock' /\ record[r].updated <= clock'
  BY <1>1 DEF GithubInv, Records
<1>4. GithubInv'
  BY <1>1, <1>2, <1>3 DEF GithubInv, Exists
<1>5. BasisInv'
  BY <1>1 DEF BasisInv, Established
<1> QED
  BY <1>4, <1>5

LEMMA ACreation ==
  ASSUME GithubInv, BasisInv, NEW r \in Runs, Create(r)
  PROVE  GithubInv' /\ BasisInv'
<1>1. /\ r \notin DOMAIN record
      /\ SourceOf[r] # NoRun => files[SourceOf[r]] # None
      /\ created' = With(created, r, clock)
      /\ record' = With(record, r,
                     [attempt |-> 1, completed |-> FALSE, updated |-> clock])
      /\ basis' = [basis EXCEPT ![<<r, 1>>] = BasisNow(r)]
      /\ UNCHANGED <<clock, content, files>>
  BY DEF Create, Exists
<1>2. /\ clock \in Nat /\ MaxTime \in Nat /\ clock <= MaxTime
      /\ 1 \in Attempts /\ <<r, 1>> \in Executions
  BY LineageAssumption DEF GithubInv, Attempts, Executions
<1>3. /\ DOMAIN created' = DOMAIN record \cup {r}
      /\ created'[r] = clock
      /\ \A q \in DOMAIN record : created'[q] = created[q]
  BY <1>1 DEF With, GithubInv
<1>4. /\ DOMAIN record' = DOMAIN record \cup {r}
      /\ record'[r] = [attempt |-> 1, completed |-> FALSE, updated |-> clock]
      /\ \A q \in DOMAIN record : record'[q] = record[q]
  BY <1>1 DEF With
<1>5. SourceOf[r] # NoRun => SourceOf[r] \in DOMAIN record
  BY <1>1, LineageAssumption DEF GithubInv, Exists
<1>6. BasisNow(r) \in {None} \cup Attempts
  BY <1>5 DEF BasisNow, GithubInv, Records
<1>7. record'[r] \in Records
  BY <1>2, <1>4 DEF Records, GithubInv
<1>8. files[r] = None
  BY <1>1 DEF GithubInv, Exists
<1>9. ASSUME NEW q \in DOMAIN record'
      PROVE  /\ created'[q] \in 0 .. clock
             /\ record'[q] \in Records
             /\ record'[q].updated <= clock
             /\ SourceOf[q] # NoRun => SourceOf[q] \in DOMAIN record'
             /\ files[q] \in {record'[q].attempt - 1, record'[q].attempt}
             /\ record'[q].completed => files[q] = record'[q].attempt
  <2>1. CASE q = r
    BY <2>1, <1>2, <1>3, <1>4, <1>5, <1>7, <1>8 DEF None
  <2>2. CASE q # r
    BY <2>2, <1>3, <1>4 DEF GithubInv, Exists
  <2> QED
    BY <2>1, <2>2
<1>10. basis' \in [Executions -> {None} \cup Attempts]
  BY <1>1, <1>2, <1>6 DEF GithubInv
<1>11. GithubInv'
  BY <1>1, <1>3, <1>4, <1>9, <1>10 DEF GithubInv, Exists
<1>12. ASSUME NEW q \in DOMAIN record', SourceOf[q] # NoRun,
              \/ record'[SourceOf[q]].updated < created'[q]
              \/ Established(record[SourceOf[q]], q)',
              NEW a \in 1 .. record'[q].attempt
       PROVE  basis'[<<q, a>>] = record'[SourceOf[q]].attempt
  <2>1. CASE q = r
    <3>1. a = 1
      BY <2>1, <1>4
    <3>2. basis'[<<q, a>>] = BasisNow(r)
      BY <2>1, <3>1, <1>1, <1>2 DEF GithubInv
    <3> QED
      BY <2>1, <3>2, <1>4, <1>5, <1>12 DEF BasisNow
  <2>2. CASE q # r
    <3>1. q \in DOMAIN record /\ SourceOf[q] \in DOMAIN record
      BY <2>2, <1>4, <1>12 DEF GithubInv, Exists
    <3>2. /\ record'[q] = record[q] /\ created'[q] = created[q]
          /\ record'[SourceOf[q]] = record[SourceOf[q]]
      BY <3>1, <1>3, <1>4
    <3>3. <<q, a>> # <<r, 1>>
      BY <2>2
    <3>4. basis'[<<q, a>>] = basis[<<q, a>>]
      BY <3>3, <1>1
    <3>5. \/ record[SourceOf[q]].updated < created[q]
          \/ Established(record[SourceOf[q]], q)
      BY <3>2, <1>12 DEF Established
    <3> QED
      BY <3>1, <3>2, <3>4, <3>5, <1>12 DEF BasisInv
  <2> QED
    BY <2>1, <2>2
<1>13. BasisInv'
  BY <1>12, Zenon DEF BasisInv
<1> QED
  BY <1>11, <1>13

LEMMA AnUpload ==
  ASSUME GithubInv, BasisInv, NEW r \in Runs, Upload(r)
  PROVE  GithubInv' /\ BasisInv'
<1>1. /\ r \in DOMAIN record
      /\ ~record[r].completed
      /\ files[r] # record[r].attempt
      /\ files' = [files EXCEPT ![r] = record[r].attempt]
      /\ UNCHANGED <<clock, created, record, basis>>
  BY DEF Upload, Exists
<1>2. PICK upload \in Uploads[r] :
        content' = With(content, <<r, record[r].attempt>>, upload)
  BY DEF Upload
<1>3. /\ record[r].attempt \in Attempts
      /\ <<r, record[r].attempt>> \in Executions
      /\ files[r] = record[r].attempt - 1
      /\ \A q \in DOMAIN record : record[q].attempt \in Nat
  BY <1>1 DEF GithubInv, Records, Executions, Attempts
<1>4. /\ DOMAIN content' = DOMAIN content \cup {<<r, record[r].attempt>>}
      /\ content'[<<r, record[r].attempt>>] = upload
      /\ \A e \in DOMAIN content :
           e # <<r, record[r].attempt>> => content'[e] = content[e]
  BY <1>2 DEF With
<1>5. /\ files' \in [Runs -> {None} \cup Attempts]
      /\ files'[r] = record[r].attempt
      /\ \A q \in Runs : q # r => files'[q] = files[q]
  BY <1>1, <1>3 DEF GithubInv
<1>6. DOMAIN content' \subseteq Executions
  BY <1>3, <1>4 DEF GithubInv
<1>7. \A e \in DOMAIN content' : content'[e] \in Uploads[e[1]]
  <2> SUFFICES ASSUME NEW e \in DOMAIN content' PROVE content'[e] \in Uploads[e[1]]
    OBVIOUS
  <2>1. CASE e = <<r, record[r].attempt>>
    BY <2>1, <1>4
  <2>2. CASE e # <<r, record[r].attempt>>
    BY <2>2, <1>4 DEF GithubInv
  <2> QED
    BY <2>1, <2>2
<1>8. \A q \in Runs : \A a \in 1 .. files'[q] : <<q, a>> \in DOMAIN content'
  <2> SUFFICES ASSUME NEW q \in Runs, NEW a \in 1 .. files'[q]
               PROVE  <<q, a>> \in DOMAIN content'
    OBVIOUS
  <2>1. CASE q = r
    <3>1. a = record[r].attempt \/ a \in 1 .. files[r]
      BY <2>1, <1>3, <1>5 DEF Attempts
    <3> QED
      BY <2>1, <3>1, <1>4 DEF GithubInv
  <2>2. CASE q # r
    BY <2>2, <1>4, <1>5 DEF GithubInv
  <2> QED
    BY <2>1, <2>2
<1>9. \A q \in DOMAIN record :
        /\ files'[q] \in {record[q].attempt - 1, record[q].attempt}
        /\ record[q].completed => files'[q] = record[q].attempt
  BY <1>1, <1>5 DEF GithubInv
<1>10. \A q \in Runs : files'[q] # None => q \in DOMAIN record
  BY <1>1, <1>5 DEF GithubInv, Exists
<1>11. GithubInv'
  BY <1>1, <1>5, <1>6, <1>7, <1>8, <1>9, <1>10 DEF GithubInv, Exists
<1>12. BasisInv'
  BY <1>1 DEF BasisInv, Established
<1> QED
  BY <1>11, <1>12

\* What is new of a run makes no difference to the bases of its reruns.
LEMMA ACompletion ==
  ASSUME GithubInv, BasisInv, NEW r \in Runs, Complete(r)
  PROVE  GithubInv' /\ BasisInv'
<1>1. /\ r \in DOMAIN record
      /\ files[r] = record[r].attempt
      /\ record[r].updated < clock
      /\ record' = [record EXCEPT ![r].completed = TRUE, ![r].updated = clock]
      /\ UNCHANGED <<clock, created, basis, content, files>>
  BY DEF Complete, Exists
<1>2. /\ clock \in Nat /\ clock \in 0 .. MaxTime
      /\ record[r] \in Records
  BY <1>1, LineageAssumption DEF GithubInv
<1>3. /\ DOMAIN record' = DOMAIN record
      /\ \A q \in DOMAIN record : q # r => record'[q] = record[q]
      /\ record'[r] = [record[r] EXCEPT !.completed = TRUE, !.updated = clock]
  BY <1>1
<1>4. /\ record'[r] \in Records
      /\ record'[r].attempt = record[r].attempt
      /\ record'[r].updated = clock
  BY <1>2, <1>3 DEF Records
<1>5. ASSUME NEW q \in DOMAIN record
      PROVE  /\ record'[q] \in Records
             /\ record'[q].attempt = record[q].attempt
             /\ record'[q].updated <= clock
             /\ record'[q].completed => files[q] = record'[q].attempt
  BY <1>1, <1>2, <1>3, <1>4 DEF GithubInv
<1>6. GithubInv'
  BY <1>1, <1>3, <1>5 DEF GithubInv, Exists
<1>7. ASSUME NEW q \in DOMAIN record, SourceOf[q] # NoRun,
             \/ record'[SourceOf[q]].updated < created[q]
             \/ Established(record[SourceOf[q]], q)'
      PROVE  \/ record[SourceOf[q]].updated < created[q]
             \/ Established(record[SourceOf[q]], q)
  <2>1. /\ SourceOf[q] \in DOMAIN record
        /\ created[q] \in 0 .. clock
        /\ record[r].updated \in Nat
    BY <1>2, <1>7 DEF GithubInv, Exists, Records
  <2>2. CASE SourceOf[q] = r
    BY <2>1, <2>2, <1>1, <1>2, <1>4, <1>7 DEF Established
  <2>3. CASE SourceOf[q] # r
    BY <2>1, <2>3, <1>1, <1>3, <1>7 DEF Established
  <2> QED
    BY <2>2, <2>3
<1>8. ASSUME NEW q \in DOMAIN record, SourceOf[q] # NoRun,
             \/ record'[SourceOf[q]].updated < created[q]
             \/ Established(record[SourceOf[q]], q)',
             NEW a \in 1 .. record'[q].attempt
      PROVE  basis[<<q, a>>] = record'[SourceOf[q]].attempt
  <2>1. SourceOf[q] \in DOMAIN record
    BY <1>8 DEF GithubInv, Exists
  <2>2. a \in 1 .. record[q].attempt
    BY <1>5
  <2>3. \/ record[SourceOf[q]].updated < created[q]
        \/ Established(record[SourceOf[q]], q)
    BY <1>7, <1>8, Zenon
  <2> QED
    BY <2>1, <2>2, <2>3, <1>5, <1>8 DEF BasisInv
<1>9. BasisInv'
  <2> SUFFICES ASSUME NEW q \in DOMAIN record', SourceOf[q] # NoRun,
                      \/ record'[SourceOf[q]].updated < created'[q]
                      \/ Established(record[SourceOf[q]], q)',
                      NEW a \in 1 .. record'[q].attempt
               PROVE  basis'[<<q, a>>] = record'[SourceOf[q]].attempt
    BY Zenon DEF BasisInv
  <2> QED
    BY <1>1, <1>3, <1>8
<1> QED
  BY <1>6, <1>9

LEMMA ARerun ==
  ASSUME GithubInv, BasisInv, NEW r \in Runs, Rerun(r)
  PROVE  GithubInv' /\ BasisInv'
<1>1. /\ r \in DOMAIN record
      /\ record[r].completed
      /\ record[r].attempt < MaxAttempt
      /\ record' = [record EXCEPT ![r] =
           [attempt |-> @.attempt + 1, completed |-> FALSE, updated |-> clock]]
      /\ basis' = [basis EXCEPT ![<<r, record[r].attempt + 1>>] = BasisNow(r)]
      /\ UNCHANGED <<clock, created, content, files>>
  BY DEF Rerun, Exists
<1>2. /\ clock \in Nat /\ clock \in 0 .. MaxTime
      /\ record[r] \in Records /\ record[r].attempt \in Nat
      /\ MaxAttempt \in Nat
  BY <1>1, LineageAssumption DEF GithubInv, Records, Attempts
<1>3. /\ record[r].attempt + 1 \in Attempts
      /\ <<r, record[r].attempt + 1>> \in Executions
  BY <1>1, <1>2 DEF Attempts, Executions, Records
<1>4. /\ DOMAIN record' = DOMAIN record
      /\ \A q \in DOMAIN record : q # r => record'[q] = record[q]
      /\ record'[r] = [attempt |-> record[r].attempt + 1, completed |-> FALSE,
                       updated |-> clock]
  BY <1>1
<1>5. record'[r] \in Records
  BY <1>2, <1>3, <1>4 DEF Records
<1>6. BasisNow(r) \in {None} \cup Attempts
  BY <1>1 DEF BasisNow, GithubInv, Records, Exists
<1>7. basis' \in [Executions -> {None} \cup Attempts]
  BY <1>1, <1>3, <1>6 DEF GithubInv
<1>8. ASSUME NEW q \in DOMAIN record
      PROVE  /\ record'[q] \in Records
             /\ record'[q].updated <= clock
             /\ files[q] \in {record'[q].attempt - 1, record'[q].attempt}
             /\ record'[q].completed => files[q] = record'[q].attempt
  <2>1. CASE q = r
    <3>1. files[r] = record[r].attempt
      BY <1>1 DEF GithubInv
    <3> QED
      BY <2>1, <3>1, <1>2, <1>4, <1>5
  <2>2. CASE q # r
    BY <2>2, <1>4 DEF GithubInv
  <2> QED
    BY <2>1, <2>2
<1>9. GithubInv'
  BY <1>1, <1>4, <1>7, <1>8 DEF GithubInv, Exists
<1>10. ASSUME NEW q \in DOMAIN record, SourceOf[q] # NoRun,
              \/ record'[SourceOf[q]].updated < created[q]
              \/ Established(record[SourceOf[q]], q)'
       PROVE  /\ SourceOf[q] # r
              /\ SourceOf[q] \in DOMAIN record
              /\ record'[SourceOf[q]] = record[SourceOf[q]]
              /\ \A a \in 1 .. record[q].attempt :
                   basis[<<q, a>>] = record[SourceOf[q]].attempt
  <2>1. SourceOf[q] \in DOMAIN record /\ created[q] \in 0 .. clock
    BY <1>10 DEF GithubInv, Exists
  <2>2. SourceOf[q] # r
    BY <2>1, <1>2, <1>4, <1>10 DEF Established
  <2>3. record'[SourceOf[q]] = record[SourceOf[q]]
    BY <2>1, <2>2, <1>4
  <2>4. \/ record[SourceOf[q]].updated < created[q]
        \/ Established(record[SourceOf[q]], q)
    BY <2>3, <1>1, <1>10 DEF Established
  <2> QED
    BY <2>1, <2>2, <2>3, <2>4, <1>10 DEF BasisInv
<1>11. ASSUME NEW q \in DOMAIN record, SourceOf[q] # NoRun,
              \/ record'[SourceOf[q]].updated < created[q]
              \/ Established(record[SourceOf[q]], q)',
              NEW a \in 1 .. record'[q].attempt
       PROVE  basis'[<<q, a>>] = record'[SourceOf[q]].attempt
  <2>1. /\ SourceOf[q] # r
        /\ record'[SourceOf[q]] = record[SourceOf[q]]
        /\ \A b \in 1 .. record[q].attempt :
             basis[<<q, b>>] = record[SourceOf[q]].attempt
    BY <1>10, <1>11, Zenon
  <2>2. CASE <<q, a>> = <<r, record[r].attempt + 1>>
    <3>1. basis'[<<q, a>>] = BasisNow(r)
      BY <2>2, <1>1, <1>3 DEF GithubInv
    <3> QED
      BY <2>1, <2>2, <3>1, <1>11 DEF BasisNow
  <2>3. CASE <<q, a>> # <<r, record[r].attempt + 1>>
    <3>1. basis'[<<q, a>>] = basis[<<q, a>>]
      BY <2>3, <1>1 DEF GithubInv
    <3>2. a \in 1 .. record[q].attempt
      BY <2>3, <1>2, <1>4
    <3> QED
      BY <2>1, <3>1, <3>2
  <2> QED
    BY <2>2, <2>3
<1>12. BasisInv'
  <2> SUFFICES ASSUME NEW q \in DOMAIN record', SourceOf[q] # NoRun,
                      \/ record'[SourceOf[q]].updated < created'[q]
                      \/ Established(record[SourceOf[q]], q)',
                      NEW a \in 1 .. record'[q].attempt
               PROVE  basis'[<<q, a>>] = record'[SourceOf[q]].attempt
    BY Zenon DEF BasisInv
  <2> QED
    BY <1>1, <1>4, <1>11
<1> QED
  BY <1>9, <1>12

-----------------------------------------------------------------------------
(* What steps never undo *)

GithubOnward ==
  /\ \A r \in DOMAIN created : r \in DOMAIN created' /\ created'[r] = created[r]
  /\ \A e \in Executions : Began(e) => Began(e)' /\ basis'[e] = basis[e]
  /\ \A r \in Runs : files[r] <= files'[r]

DirectoryOnward ==
  \A e \in Executions :
    /\ pin[e] # NoRecord => pin'[e] = pin[e]
    /\ plan[e] # None => plan'[e] = plan[e]
    /\ rest[e] # None => rest'[e] = rest[e]
    /\ summary[e] # NoSummary => summary'[e] = summary[e]

Onward == GithubOnward /\ DirectoryOnward

LEMMA RestingGithub ==
  ASSUME GithubInv, UNCHANGED github
  PROVE  GithubInv' /\ GithubOnward /\ (BasisInv => BasisInv')
<1>1. UNCHANGED <<clock, created, record, basis, content, files>>
  BY DEF github
<1>2. GithubInv'
  BY <1>1 DEF GithubInv, Exists
<1>3. \A r \in Runs : files[r] \in Nat
  BY DEF GithubInv, None, Attempts
<1>4. GithubOnward
  BY <1>1, <1>3 DEF GithubOnward, Began, Exists
<1>5. BasisInv => BasisInv'
  BY <1>1 DEF BasisInv, Established
<1> QED
  BY <1>2, <1>4, <1>5

LEMMA RestingDirectory ==
  ASSUME UNCHANGED directory
  PROVE  DirectoryOnward
BY DEF directory, DirectoryOnward

LEMMA EnvironmentOnward ==
  ASSUME GithubInv, Environment
  PROVE  GithubOnward /\ UNCHANGED <<directory, memory>>
<1>0. \A r \in Runs : files[r] \in Nat
  BY DEF GithubInv, None, Attempts
<1>1. CASE Tick
  BY <1>0, <1>1 DEF Tick, GithubOnward, Began, Exists
<1>2. ASSUME NEW r \in Runs, Create(r)
      PROVE  GithubOnward /\ UNCHANGED <<directory, memory>>
  <2>1. /\ r \notin DOMAIN record
        /\ created' = With(created, r, clock)
        /\ record' = With(record, r,
                       [attempt |-> 1, completed |-> FALSE, updated |-> clock])
        /\ basis' = [basis EXCEPT ![<<r, 1>>] = BasisNow(r)]
        /\ UNCHANGED <<files, directory, memory>>
    BY <1>2 DEF Create, Exists
  <2>2. \A q \in DOMAIN created : q \in DOMAIN created' /\ created'[q] = created[q]
    BY <2>1 DEF With, GithubInv
  <2>3. \A q \in DOMAIN record : q \in DOMAIN record' /\ record'[q] = record[q]
    BY <2>1 DEF With
  <2>4. ASSUME NEW e \in Executions, Began(e)
        PROVE  Began(e)' /\ basis'[e] = basis[e]
    <3>1. e[1] # r
      BY <2>1, <2>4 DEF Began, Exists
    <3>2. e # <<r, 1>>
      BY <3>1
    <3> QED
      BY <2>1, <2>3, <2>4, <3>2 DEF Began, Exists, GithubInv
  <2> QED
    BY <1>0, <2>1, <2>2, <2>4 DEF GithubOnward
<1>3. ASSUME NEW r \in Runs, Upload(r)
      PROVE  GithubOnward /\ UNCHANGED <<directory, memory>>
  <2>1. /\ r \in DOMAIN record
        /\ files' = [files EXCEPT ![r] = record[r].attempt]
        /\ UNCHANGED <<created, record, basis, directory, memory>>
    BY <1>3 DEF Upload, Exists
  <2>2. files[r] <= record[r].attempt
    BY <2>1 DEF GithubInv, Records, Attempts
  <2>3. \A q \in Runs : files[q] <= files'[q]
    BY <1>0, <2>1, <2>2 DEF GithubInv
  <2> QED
    BY <2>1, <2>3 DEF GithubOnward, Began, Exists
<1>4. ASSUME NEW r \in Runs, Complete(r)
      PROVE  GithubOnward /\ UNCHANGED <<directory, memory>>
  <2>1. /\ r \in DOMAIN record
        /\ record' = [record EXCEPT ![r].completed = TRUE, ![r].updated = clock]
        /\ UNCHANGED <<created, basis, files, directory, memory>>
    BY <1>4 DEF Complete, Exists
  <2>2. \A q \in DOMAIN record : q \in DOMAIN record'
                                 /\ record'[q].attempt = record[q].attempt
    BY <2>1 DEF GithubInv, Records
  <2> QED
    BY <1>0, <2>1, <2>2 DEF GithubOnward, Began, Exists
<1>5. ASSUME NEW r \in Runs, Rerun(r)
      PROVE  GithubOnward /\ UNCHANGED <<directory, memory>>
  <2>1. /\ r \in DOMAIN record
        /\ record' = [record EXCEPT ![r] =
             [attempt |-> @.attempt + 1, completed |-> FALSE, updated |-> clock]]
        /\ basis' = [basis EXCEPT ![<<r, record[r].attempt + 1>>] = BasisNow(r)]
        /\ UNCHANGED <<created, files, directory, memory>>
    BY <1>5 DEF Rerun, Exists
  <2>2. \A q \in DOMAIN record : record[q].attempt \in Nat
    BY DEF GithubInv, Records, Attempts
  <2>3. \A q \in DOMAIN record : q \in DOMAIN record'
                                 /\ record[q].attempt <= record'[q].attempt
    BY <2>1, <2>2
  <2>4. \A q \in DOMAIN record : record'[q].attempt \in Nat
    BY <2>1, <2>2
  <2>5. ASSUME NEW e \in Executions, Began(e)
        PROVE  Began(e)' /\ basis'[e] = basis[e]
    <3>1. e[2] \in Nat
      BY DEF Executions, Attempts
    <3>2. Began(e)'
      BY <2>2, <2>3, <2>4, <2>5, <3>1 DEF Began, Exists
    <3>3. e # <<r, record[r].attempt + 1>>
      BY <2>1, <2>2, <2>5 DEF Began, Exists
    <3> QED
      BY <2>1, <3>2, <3>3 DEF GithubInv
  <2> QED
    BY <1>0, <2>1, <2>5 DEF GithubOnward
<1> QED
  BY <1>1, <1>2, <1>3, <1>4, <1>5 DEF Environment

LEMMA NoRecordIsNone == NoRecord \notin Records
BY DEF NoRecord, Records, Attempts, None

LEMMA LinkStays ==
  ASSUME GithubInv, DirectoryInv, Onward,
         NEW e \in Executions, NEW l, LinkOK(e, l)
  PROVE  LinkOK(e, l)'
<1> DEFINE s == <<SourceOf[e[1]], l.attempt>>
<1>1. /\ pin[e] # NoRecord /\ pin[e] \in Records
      /\ pin'[e] = pin[e]
  BY DEF LinkOK, DirectoryInv, Onward, DirectoryOnward
<1>2. e[1] \in DOMAIN created /\ created'[e[1]] = created[e[1]]
  BY <1>1 DEF DirectoryInv, Began, Exists, GithubInv, Onward, GithubOnward
<1>3. s \in Executions
  BY <1>1, LineageAssumption DEF LinkOK, Executions, Records
<1>4. Published(s) /\ summary[s] = l.summary
  BY DEF LinkOK
<1>5. Published(s)' /\ summary'[s] = l.summary
  BY <1>3, <1>4 DEF Published, Onward, DirectoryOnward
<1>6. Established(pin[e], e[1])'
  BY <1>1, <1>2 DEF LinkOK, Established
<1> QED
  BY <1>1, <1>5, <1>6 DEF LinkOK

LEMMA ResultStays ==
  ASSUME GithubInv, DirectoryInv, Onward,
         NEW e \in Executions, NEW m, ResultOK(e, m)
  PROVE  ResultOK(e, m)'
<1>1. PICK l : l = m.link
  OBVIOUS
<1>2. LinkOK(e, l) => LinkOK(e, l)'
  BY LinkStays
<1>3. m.link # NoLink => LinkOK(e, m.link)'
  BY <1>1, <1>2 DEF ResultOK
<1> QED
  BY <1>3 DEF ResultOK, VerdictAgrees

LEMMA FrameStays ==
  ASSUME GithubInv, DirectoryInv, GithubInv', DirectoryInv', Onward,
         NEW f, FrameOK(f)
  PROVE  FrameOK(f)'
<1>1. PICK e : e = Exec(f)
  OBVIOUS
<1>2. PICK m : m = f.result
  OBVIOUS
<1>3. PICK l : l = f.link
  OBVIOUS
<1>4. e \in Executions /\ Began(e) /\ e = <<f.run, f.rec.attempt>>
  BY <1>1 DEF FrameOK, Exec, Executions, Records
<1>5. Began(e)'
  BY <1>4 DEF Onward, GithubOnward
<1>6. f.stage \in {"plan", "source", "rest", "recheck", "publish"}
        => f.rec.attempt <= files'[f.run]
  BY DEF FrameOK, Onward, GithubOnward, GithubInv, Records, Attempts, None
<1>7. f.stage \in {"source", "rest", "recheck", "publish"} => plan'[e] # None
  BY <1>1, <1>4 DEF FrameOK, Onward, DirectoryOnward
<1>8. f.stage \in {"recheck", "publish"} =>
        rest'[e] # None /\ ResultOK(e, m)'
  BY <1>1, <1>2, <1>4, ResultStays DEF FrameOK, Onward, DirectoryOnward
<1>9. f.stage \in {"rest", "recheck", "publish"} =>
        \/ l = NoLink /\ SourceOf[f.run] = NoRun
        \/ LinkOK(e, l)'
  BY <1>1, <1>3, <1>4, LinkStays DEF FrameOK
<1>10. f.stage = "validate" => Published(e)' /\ summary'[e].link # NoLink
  BY <1>1, <1>4 DEF FrameOK, Published, Onward, DirectoryOnward
<1>11. f.stage = "return" => Published(e)'
  BY <1>1, <1>4 DEF FrameOK, Published, Onward, DirectoryOnward
<1>12. e = Exec(f)' /\ m = f.result /\ l = f.link
  BY <1>1, <1>2, <1>3 DEF Exec
<1> QED
  BY <1>5, <1>6, <1>7, <1>8, <1>9, <1>10, <1>11, <1>12 DEF FrameOK, Exec

LEMMA PlaceStays ==
  ASSUME GithubInv, DirectoryInv, Onward,
         NEW s, IsStack(s), StackOK(s), NEW i \in 1 .. Len(s)
  PROVE  PlaceOK(s, i)'
<1>1. /\ FrameOK(s[i]) /\ PlaceOK(s, i)
      /\ Len(s) \in Nat
      /\ i < Len(s) => FrameOK(s[i + 1])
  BY StackTyped DEF StackOK
<1>2. PICK e : e = Exec(s[i])
  OBVIOUS
<1>3. e \in Executions /\ Began(e) /\ e = <<s[i].run, s[i].rec.attempt>>
  BY <1>1, <1>2 DEF FrameOK, Exec, Executions, Records
<1>4. s[i].run \in DOMAIN created /\ created'[s[i].run] = created[s[i].run]
  BY <1>3 DEF Began, Exists, GithubInv, Onward, GithubOnward
<1>5. ASSUME i < Len(s)
      PROVE  /\ s[i].stage \in {"source", "validate"}
             /\ s[i + 1].run = SourceOf[s[i].run]
             /\ s[i + 1].rec = pin'[e]
             /\ Established(s[i + 1].rec, s[i].run)'
  <2>1. /\ s[i].stage \in {"source", "validate"}
        /\ s[i + 1].run = SourceOf[s[i].run]
        /\ s[i + 1].rec = pin[e]
        /\ Established(s[i + 1].rec, s[i].run)
    BY <1>1, <1>2, <1>5 DEF PlaceOK
  <2>2. pin[e] # NoRecord
    BY <2>1, <1>1, <1>5, NoRecordIsNone DEF FrameOK
  <2>3. pin'[e] = pin[e]
    BY <2>2, <1>3 DEF Onward, DirectoryOnward
  <2> QED
    BY <2>1, <2>3, <1>4 DEF Established
<1>6. ASSUME i > 1, s[i].stage = "publish"
      PROVE  plan'[e] = s[i].rec.attempt /\ rest'[e] = s[i].rec.attempt
  BY <1>1, <1>2, <1>3, <1>6 DEF PlaceOK, FrameOK, Onward, DirectoryOnward
<1>7. Exec(s[i])' = e
  BY <1>2 DEF Exec
<1> QED
  BY <1>1, <1>5, <1>6, <1>7 DEF PlaceOK

LEMMA StackStays ==
  ASSUME GithubInv, DirectoryInv, GithubInv', DirectoryInv', Onward,
         NEW s, IsStack(s), StackOK(s)
  PROVE  StackOK(s)'
BY FrameStays, PlaceStays DEF StackOK

-----------------------------------------------------------------------------
(* What is retained *)

Stacks == StacksInv /\ \A c \in Collectors : IsStack(stack[c])

LEMMA TopOK ==
  ASSUME Stacks, NEW c \in Collectors, stack[c] # <<>>
  PROVE  /\ Depth(c) \in Nat /\ Depth(c) >= 1
         /\ Top(c) = stack[c][Depth(c)]
         /\ FrameOK(Top(c)) /\ PlaceOK(stack[c], Depth(c))
         /\ This(c) = Exec(Top(c))
         /\ This(c) = <<Run(c), Top(c).rec.attempt>>
         /\ This(c) \in Executions /\ Began(This(c))
         /\ Run(c) \in Runs /\ Top(c).rec \in Records
         /\ Run(c) = Top(c).run
<1>1. IsStack(stack[c]) /\ StackOK(stack[c])
  BY DEF Stacks, StacksInv
<1>2. Depth(c) \in Nat /\ Depth(c) >= 1
  BY <1>1, StackTyped DEF Depth
<1>3. FrameOK(Top(c)) /\ PlaceOK(stack[c], Depth(c))
  BY <1>1, <1>2 DEF StackOK, Top, Depth
<1>4. This(c) = Exec(Top(c))
  BY DEF This, Run, Exec
<1>5. Exec(Top(c)) \in Executions /\ Began(Exec(Top(c)))
  BY <1>3 DEF FrameOK, Exec, Executions, Records
<1> QED
  BY <1>2, <1>3, <1>4, <1>5 DEF Top, Run, FrameOK, This

\* Nothing is lost when GitHub and the server move on.
LEMMA DirectoryOutlasts ==
  ASSUME GithubInv, GithubInv', DirectoryInv, GithubOnward,
         UNCHANGED <<runFile, pin, plan, rest>>, nested' \subseteq Executions
  PROVE  DirectoryInv'
<1>1. ASSUME NEW e \in Executions, pin[e] # NoRecord
      PROVE  /\ Began(e)'
             /\ SourceOf[e[1]] \in Runs /\ Began(<<SourceOf[e[1]], pin[e].attempt>>)'
             /\ Established(pin[e], e[1])' => pin[e].attempt = basis'[e]
  <2>1. Began(e)
    BY <1>1 DEF DirectoryInv
  <2>0. PICK x : x = <<SourceOf[e[1]], pin[e].attempt>>
    OBVIOUS
  <2>5. Began(x) /\ x \in Executions /\ SourceOf[e[1]] \in Runs
    BY <1>1, <2>0 DEF DirectoryInv, Records, Executions
  <2>6. Began(x)'
    BY <2>5 DEF GithubOnward
  <2>7. Began(<<SourceOf[e[1]], pin[e].attempt>>)'
    BY <2>0, <2>6 DEF Began, Exists
  <2>2. created'[e[1]] = created[e[1]]
    BY <2>1 DEF Began, Exists, GithubInv, GithubOnward
  <2>3. Began(e)' /\ basis'[e] = basis[e]
    BY <2>1 DEF GithubOnward
  <2>4. Established(pin[e], e[1])' => Established(pin[e], e[1])
    BY <2>2 DEF Established
  <2> QED
    BY <1>1, <2>3, <2>4, <2>5, <2>7 DEF DirectoryInv
<1>2. ASSUME NEW e \in Executions
      PROVE  /\ plan[e] # None => plan[e] \in e[2] .. files'[e[1]]
             /\ rest[e] # None => rest[e] \in e[2] .. files'[e[1]]
  <2>1. /\ e[1] \in Runs /\ e[2] \in Nat
        /\ files[e[1]] <= files'[e[1]]
        /\ files[e[1]] \in Nat /\ files'[e[1]] \in Nat
    BY DEF Executions, Attempts, None, GithubInv, GithubOnward
  <2>2. /\ plan[e] # None => plan[e] \in e[2] .. files[e[1]]
        /\ rest[e] # None => rest[e] \in e[2] .. files[e[1]]
    BY DEF DirectoryInv
  <2> QED
    BY <2>1, <2>2
<1>3. ASSUME NEW e \in Executions, pin'[e] # NoRecord
      PROVE  /\ Began(e)'
             /\ SourceOf[e[1]] \in Runs /\ Began(<<SourceOf[e[1]], pin[e].attempt>>)'
             /\ Established(pin[e], e[1])' => pin'[e].attempt = basis'[e]
  BY <1>1, <1>3 DEF Established
<1>4. /\ runFile' \in [Executions -> Records \cup {NoRecord}]
      /\ pin' \in [Executions -> Records \cup {NoRecord}]
      /\ plan' \in [Executions -> {None} \cup Attempts]
      /\ rest' \in [Executions -> {None} \cup Attempts]
  BY DEF DirectoryInv
<1>5. \A e \in Executions :
        /\ plan'[e] # None => plan'[e] \in e[2] .. files'[e[1]]
        /\ rest'[e] # None => rest'[e] \in e[2] .. files'[e[1]]
  BY <1>2
<1> QED
  BY <1>3, <1>4, <1>5 DEF DirectoryInv

\* The source that is pinned is a record, certain to be the basis if it is
\* established.
LEMMA PinnedIsRight ==
  ASSUME GithubInv, BasisInv, DirectoryInv, SummariesInv, Stacks,
         NEW c \in Collectors, At(c, "source") \/ At(c, "validate")
  PROVE  /\ SourceOf[Run(c)] \in Runs
         /\ PinnedSource(c) \in Records
         /\ pin[This(c)] # NoRecord => pin[This(c)] = PinnedSource(c)
         /\ Began(<<SourceOf[Run(c)], PinnedSource(c).attempt>>)
         /\ Established(PinnedSource(c), Run(c))
              => PinnedSource(c).attempt = basis[This(c)]
<1>1. /\ FrameOK(Top(c)) /\ This(c) = Exec(Top(c))
      /\ This(c) = <<Run(c), Top(c).rec.attempt>>
      /\ This(c) \in Executions /\ Began(This(c)) /\ Run(c) = Top(c).run
      /\ Top(c).stage \in {"source", "validate"}
  BY TopOK DEF At
<1>2. SourceOf[Run(c)] # NoRun
  <2>1. CASE Top(c).stage = "source"
    BY <1>1, <2>1 DEF FrameOK
  <2>2. CASE Top(c).stage = "validate"
    <3>1. Published(This(c)) /\ summary[This(c)].link # NoLink
      BY <1>1, <2>2 DEF FrameOK
    <3>2. LinkOK(This(c), summary[This(c)].link)
      BY <1>1, <3>1 DEF SummariesInv, ResultOK
    <3> QED
      BY <1>1, <3>2 DEF LinkOK
  <2> QED
    BY <1>1, <2>1, <2>2
<1>3. /\ Run(c) \in DOMAIN record
      /\ SourceOf[Run(c)] \in DOMAIN record
      /\ SourceOf[Run(c)] \in Runs
      /\ record[SourceOf[Run(c)]] \in Records
  BY <1>1, <1>2, LineageAssumption DEF Began, Exists, GithubInv
<1>4. CASE pin[This(c)] # NoRecord
  <2>1. PinnedSource(c) = pin[This(c)]
    BY <1>4 DEF PinnedSource
  <2>2. Established(pin[This(c)], This(c)[1]) => pin[This(c)].attempt = basis[This(c)]
    BY <1>1, <1>4 DEF DirectoryInv
  <2>3. Began(<<SourceOf[This(c)[1]], pin[This(c)].attempt>>)
    BY <1>1, <1>4 DEF DirectoryInv
  <2> QED
    BY <1>1, <1>3, <1>4, <2>1, <2>2, <2>3 DEF DirectoryInv
<1>5. CASE pin[This(c)] = NoRecord
  <2>1. PinnedSource(c) = record[SourceOf[Run(c)]]
    BY <1>5 DEF PinnedSource
  <2>2. Top(c).rec.attempt \in 1 .. record[Run(c)].attempt
    BY <1>1, <1>3 DEF Began, Executions, Attempts, GithubInv, Records
  <2>3. Established(record[SourceOf[Run(c)]], Run(c))
          => basis[<<Run(c), Top(c).rec.attempt>>] = record[SourceOf[Run(c)]].attempt
    BY <1>2, <1>3, <2>2 DEF BasisInv
  <2>4. Began(<<SourceOf[Run(c)], record[SourceOf[Run(c)]].attempt>>)
    BY <1>3 DEF Began, Exists, Records, Attempts
  <2> QED
    BY <1>1, <1>3, <1>5, <2>1, <2>3, <2>4
<1> QED
  BY <1>4, <1>5

LEMMA PinWritten ==
  ASSUME GithubInv, BasisInv, DirectoryInv, SummariesInv, Stacks,
         NEW c \in Collectors, At(c, "source") \/ At(c, "validate"),
         pin' = Retained(c, PinnedSource(c)),
         UNCHANGED <<github, runFile, plan, rest, summary, nested>>
  PROVE  DirectoryInv' /\ DirectoryOnward
<1>1. /\ This(c) \in Executions /\ Began(This(c))
      /\ This(c) = <<Run(c), Top(c).rec.attempt>>
  BY TopOK DEF At
<1>2. PICK e : e = This(c)
  OBVIOUS
<1>3. PICK rec : rec = PinnedSource(c)
  OBVIOUS
<1>4. /\ rec \in Records
      /\ pin[e] # NoRecord => pin[e] = rec
      /\ Established(rec, e[1]) => rec.attempt = basis[e]
      /\ SourceOf[e[1]] \in Runs /\ Began(<<SourceOf[e[1]], rec.attempt>>)
  BY <1>1, <1>2, <1>3, PinnedIsRight
<1>5. /\ pin' = [pin EXCEPT ![e] = rec]
      /\ pin' \in [Executions -> Records \cup {NoRecord}]
      /\ e \in Executions
  BY <1>1, <1>2, <1>3, <1>4 DEF Retained, DirectoryInv
<1>6. UNCHANGED <<clock, created, record, basis, content, files, plan, rest, runFile,
                  summary, nested>>
  BY DEF github
<1>7. ASSUME NEW x \in Executions, pin'[x] # NoRecord
      PROVE  /\ Began(x)'
             /\ SourceOf[x[1]] \in Runs /\ Began(<<SourceOf[x[1]], pin[x].attempt>>)'
             /\ Established(pin[x], x[1])' => pin'[x].attempt = basis'[x]
  <2>1. CASE x = e
    BY <2>1, <1>1, <1>2, <1>4, <1>5, <1>6 DEF Began, Exists, Established, DirectoryInv
  <2>2. CASE x # e
    BY <2>2, <1>5, <1>6, <1>7 DEF Began, Exists, Established, DirectoryInv
  <2> QED
    BY <2>1, <2>2
<1>8. DirectoryInv'
  BY <1>5, <1>6, <1>7 DEF DirectoryInv
<1>9. DirectoryOnward
  BY <1>4, <1>5, <1>6 DEF DirectoryOnward, DirectoryInv
<1> QED
  BY <1>8, <1>9

LEMMA FetchedIsRight ==
  ASSUME GithubInv, NEW e \in Executions, e[2] <= files[e[1]],
         NEW kept, kept # None => kept \in e[2] .. files[e[1]]
  PROVE  /\ Fetched(kept, e[1]) \in Attempts
         /\ Fetched(kept, e[1]) # None
         /\ Fetched(kept, e[1]) \in e[2] .. files[e[1]]
         /\ kept # None => Fetched(kept, e[1]) = kept
         /\ Fetched(kept, e[1]) \in 1 .. files[e[1]]
<1>1. e[1] \in Runs /\ e[2] \in Attempts /\ e[2] \in Nat /\ e[2] >= 1
  BY DEF Executions, Attempts
<1>2. files[e[1]] \in Attempts /\ MaxAttempt \in Nat
  BY <1>1, LineageAssumption DEF GithubInv, None, Attempts
<1> QED
  BY <1>1, <1>2 DEF Fetched, None, Attempts

LEMMA DirectoryStep ==
  ASSUME GithubInv, BasisInv, DirectoryInv, SummariesInv, Stacks,
         NEW c \in Collectors, Collect(c)
  PROVE  UNCHANGED github /\ DirectoryInv' /\ DirectoryOnward
<1>0. (GithubInv' /\ GithubOnward) \/ ~UNCHANGED github
  BY RestingGithub
<1>1. ASSUME UNCHANGED github, UNCHANGED directory
      PROVE  DirectoryInv' /\ DirectoryOnward
  BY <1>0, <1>1, DirectoryOutlasts, RestingDirectory DEF directory, DirectoryInv
<1>2. CASE Start(c)
  BY <1>1, <1>2 DEF Start
<1>3. CASE Enter(c)
  BY <1>1, <1>3 DEF Enter
<1>4. CASE NoSource(c)
  BY <1>1, <1>4 DEF NoSource
<1>5. CASE Return(c)
  BY <1>1, <1>5 DEF Return
<1>6. CASE Recheck(c)
  BY <1>1, <1>6 DEF Recheck
<1>7. CASE Describe(c)
  <2>1. /\ UNCHANGED github
        /\ UNCHANGED <<pin, plan, rest, summary, nested>>
        /\ \/ runFile' = [runFile EXCEPT ![This(c)] = Top(c).rec]
           \/ UNCHANGED runFile
    BY <1>7 DEF Describe
  <2>2. Top(c).rec \in Records
    BY <1>7, TopOK DEF Describe, At
  <2>3. runFile' \in [Executions -> Records \cup {NoRecord}]
    BY <2>1, <2>2 DEF DirectoryInv
  <2>4. UNCHANGED <<clock, created, record, basis, content, files>>
    BY <2>1 DEF github
  <2>5. DirectoryInv'
    BY <2>1, <2>3, <2>4 DEF DirectoryInv, Began, Exists, Established
  <2>6. DirectoryOnward
    BY <2>1 DEF DirectoryOnward
  <2> QED
    BY <2>1, <2>5, <2>6
<1>8. CASE ReadPlan(c)
  <2>1. /\ At(c, "plan")
        /\ UNCHANGED <<github, runFile, pin, rest, summary, nested>>
        /\ \/ plan' = [plan EXCEPT ![This(c)] = Fetched(@, Run(c))]
           \/ UNCHANGED plan
    BY <1>8 DEF ReadPlan
  <2>2. CASE UNCHANGED plan
    BY <1>1, <2>1, <2>2 DEF directory
  <2>3. CASE plan' = [plan EXCEPT ![This(c)] = Fetched(@, Run(c))]
    <3>1. PICK e : e = This(c)
      OBVIOUS
    <3>2. /\ e \in Executions /\ Run(c) = e[1]
          /\ e[2] <= files[e[1]]
      BY <2>1, <3>1, TopOK DEF At, FrameOK
    <3>3. PICK kept : kept = plan[e]
      OBVIOUS
    <3>4. kept # None => kept \in e[2] .. files[e[1]]
      BY <3>2, <3>3 DEF DirectoryInv
    <3>5. PICK new : new = Fetched(kept, e[1])
      OBVIOUS
    <3>6. /\ new \in Attempts /\ new \in e[2] .. files[e[1]]
          /\ kept # None => new = kept
      BY <3>2, <3>4, <3>5, FetchedIsRight
    <3>7. plan' = [plan EXCEPT ![e] = new]
      BY <2>3, <3>1, <3>2, <3>3, <3>5
    <3>8. plan' \in [Executions -> {None} \cup Attempts]
      BY <3>2, <3>6, <3>7 DEF DirectoryInv
    <3>9. UNCHANGED <<clock, created, record, basis, content, files, runFile, pin,
                      rest, summary, nested>>
      BY <2>1 DEF github
    <3>10. \A x \in Executions : plan'[x] # None => plan'[x] \in x[2] .. files[x[1]]
      BY <3>2, <3>6, <3>7 DEF DirectoryInv
    <3>11. DirectoryInv'
      BY <3>8, <3>9, <3>10 DEF DirectoryInv, Began, Exists, Established
    <3>12. DirectoryOnward
      BY <3>2, <3>3, <3>6, <3>7, <3>9 DEF DirectoryOnward, DirectoryInv
    <3> QED
      BY <2>1, <3>11, <3>12
  <2> QED
    BY <2>1, <2>2, <2>3
<1>9. CASE ReadRest(c)
  <2>1. /\ At(c, "rest")
        /\ UNCHANGED <<github, runFile, pin, plan, summary, nested>>
        /\ \/ rest' = [rest EXCEPT ![This(c)] = Fetched(@, Run(c))]
           \/ UNCHANGED rest
    BY <1>9 DEF ReadRest
  <2>2. CASE UNCHANGED rest
    BY <1>1, <2>1, <2>2 DEF directory
  <2>3. CASE rest' = [rest EXCEPT ![This(c)] = Fetched(@, Run(c))]
    <3>1. PICK e : e = This(c)
      OBVIOUS
    <3>2. /\ e \in Executions /\ Run(c) = e[1]
          /\ e[2] <= files[e[1]]
      BY <2>1, <3>1, TopOK DEF At, FrameOK
    <3>3. PICK kept : kept = rest[e]
      OBVIOUS
    <3>4. kept # None => kept \in e[2] .. files[e[1]]
      BY <3>2, <3>3 DEF DirectoryInv
    <3>5. PICK new : new = Fetched(kept, e[1])
      OBVIOUS
    <3>6. /\ new \in Attempts /\ new \in e[2] .. files[e[1]]
          /\ kept # None => new = kept
      BY <3>2, <3>4, <3>5, FetchedIsRight
    <3>7. rest' = [rest EXCEPT ![e] = new]
      BY <2>3, <3>1, <3>2, <3>3, <3>5
    <3>8. rest' \in [Executions -> {None} \cup Attempts]
      BY <3>2, <3>6, <3>7 DEF DirectoryInv
    <3>9. UNCHANGED <<clock, created, record, basis, content, files, runFile, pin,
                      plan, summary, nested>>
      BY <2>1 DEF github
    <3>10. \A x \in Executions : rest'[x] # None => rest'[x] \in x[2] .. files[x[1]]
      BY <3>2, <3>6, <3>7 DEF DirectoryInv
    <3>11. DirectoryInv'
      BY <3>8, <3>9, <3>10 DEF DirectoryInv, Began, Exists, Established
    <3>12. DirectoryOnward
      BY <3>2, <3>3, <3>6, <3>7, <3>9 DEF DirectoryOnward, DirectoryInv
    <3> QED
      BY <2>1, <3>11, <3>12
  <2> QED
    BY <2>1, <2>2, <2>3
<1>10. CASE PinSource(c)
  <2>1. /\ At(c, "source") \/ At(c, "validate")
        /\ UNCHANGED <<github, runFile, plan, rest, summary, nested>>
        /\ UNCHANGED pin \/ pin' = Retained(c, PinnedSource(c))
    BY <1>10 DEF PinSource
  <2> QED
    BY <1>1, <2>1, PinWritten DEF directory
<1>11. CASE Publish(c)
  <2>1. /\ UNCHANGED <<github, runFile, pin, plan, rest>>
        /\ \/ /\ summary[This(c)] = NoSummary
              /\ summary' = [summary EXCEPT ![This(c)] = Top(c).result]
           \/ UNCHANGED summary
        /\ nested' \subseteq nested \cup {This(c)}
    BY <1>11 DEF Publish
  <2>2. This(c) \in Executions
    BY <1>11, TopOK DEF Publish, At
  <2>3. DirectoryInv'
    BY <1>0, <2>1, <2>2, DirectoryOutlasts DEF DirectoryInv
  <2>4. DirectoryOnward
    BY <2>1 DEF DirectoryOnward, SummariesInv
  <2> QED
    BY <2>1, <2>3, <2>4
<1> QED
  BY <1>2, <1>3, <1>4, <1>5, <1>6, <1>7, <1>8, <1>9, <1>10, <1>11 DEF Collect

-----------------------------------------------------------------------------
(* Frames *)

\* A stack of which some frames are dropped and the new top is replaced.
LEMMA StackReplaced ==
  ASSUME GithubInv, DirectoryInv, GithubInv', DirectoryInv', Onward,
         NEW s, IsStack(s), StackOK(s),
         NEW m \in 1 .. Len(s), NEW t, NEW f,
         IsStack(t), Len(t) = m, \A i \in 1 .. m - 1 : t[i] = s[i], t[m] = f,
         FrameOK(f)', f.run = s[m].run, f.rec = s[m].rec,
         f.stage # "enter" =>
           \/ s[m].stage # "enter"
           \/ m <= MaxLineage /\ \A j \in 1 .. m - 1 : s[j].run # f.run,
         m > 1 /\ f.stage = "publish" =>
           plan'[Exec(f)] = f.rec.attempt /\ rest'[Exec(f)] = f.rec.attempt
  PROVE  StackOK(t)'
<1>1. Len(s) \in Nat /\ m \in Nat /\ m >= 1
  BY StackTyped
<1>2. \A i \in 1 .. Len(s) : FrameOK(s[i])' /\ PlaceOK(s, i)'
  BY StackStays DEF StackOK
<1>3. ASSUME NEW i \in 1 .. m PROVE FrameOK(t[i])'
  BY <1>1, <1>2
<1>4. ASSUME NEW i \in 1 .. m PROVE PlaceOK(t, i)'
  <2>1. i \in 1 .. Len(s) /\ PlaceOK(s, i)'
    BY <1>1, <1>2
  <2>2. CASE i < m
    <3>1. t[i] = s[i] /\ i < Len(s) /\ i + 1 \in 1 .. m
      BY <2>2, <1>1
    <3>2. t[i + 1].run = s[i + 1].run /\ t[i + 1].rec = s[i + 1].rec
      BY <3>1, <2>2, <1>1
    <3>3. \A j \in 1 .. i - 1 : t[j].run = s[j].run
      BY <2>2, <1>1
    <3> QED
      BY <2>1, <2>2, <3>1, <3>2, <3>3 DEF PlaceOK, Exec, Established
  <2>3. CASE i = m
    <3>1. t[i] = f /\ ~(i < Len(t))
      BY <2>3, <1>1
    <3>2. f.stage # "enter" =>
            i <= MaxLineage /\ \A j \in 1 .. i - 1 : t[j].run # t[i].run
      BY <2>1, <2>3, <1>1 DEF PlaceOK
    <3>3. i > 1 /\ f.stage = "publish" =>
            plan'[Exec(f)] = f.rec.attempt /\ rest'[Exec(f)] = f.rec.attempt
      BY <2>3
    <3> QED
      BY <3>1, <3>2, <3>3 DEF PlaceOK, Exec
  <2> QED
    BY <2>2, <2>3, <1>1
<1> QED
  BY <1>3, <1>4 DEF StackOK

LEMMA StackBecomes ==
  ASSUME GithubInv, DirectoryInv, GithubInv', DirectoryInv', Onward,
         NEW s, IsStack(s), StackOK(s), s # <<>>, NEW f,
         FrameOK(f)', f.run = s[Len(s)].run, f.rec = s[Len(s)].rec,
         f.stage # "enter" =>
           \/ s[Len(s)].stage # "enter"
           \/ Len(s) <= MaxLineage /\ \A j \in 1 .. Len(s) - 1 : s[j].run # f.run,
         Len(s) > 1 /\ f.stage = "publish" =>
           plan'[Exec(f)] = f.rec.attempt /\ rest'[Exec(f)] = f.rec.attempt
  PROVE  StackOK([s EXCEPT ![Len(s)] = f])' /\ IsStack([s EXCEPT ![Len(s)] = f])
<1>1. PICK t : t = [s EXCEPT ![Len(s)] = f]
  OBVIOUS
<1>2. /\ IsStack(t) /\ Len(t) = Len(s) /\ t[Len(s)] = f
      /\ \A i \in 1 .. Len(s) - 1 : t[i] = s[i]
  BY <1>1, BecomeFrame
<1>3. Len(s) \in 1 .. Len(s)
  BY StackTyped
<1>4. StackOK(t)'
  BY <1>2, <1>3, StackReplaced
<1> QED
  BY <1>1, <1>2, <1>4

LEMMA StackPopped ==
  ASSUME GithubInv, DirectoryInv, GithubInv', DirectoryInv', Onward,
         NEW s, IsStack(s), StackOK(s), Len(s) > 1, NEW f,
         FrameOK(f)', f.run = s[Len(s) - 1].run, f.rec = s[Len(s) - 1].rec,
         s[Len(s) - 1].stage # "enter", f.stage # "publish"
  PROVE  LET t == Append(SubSeq(s, 1, Len(s) - 2), f) IN StackOK(t)' /\ IsStack(t)
<1>1. PICK t : t = Append(SubSeq(s, 1, Len(s) - 2), f)
  OBVIOUS
<1>2. Len(s) \in Nat /\ Len(s) - 1 \in 1 .. Len(s)
  BY StackTyped
<1>3. /\ IsStack(t) /\ Len(t) = Len(s) - 1 /\ t[Len(s) - 1] = f
      /\ \A i \in 1 .. Len(s) - 2 : t[i] = s[i]
  BY <1>1, PopFrame
<1>4. \A i \in 1 .. (Len(s) - 1) - 1 : t[i] = s[i]
  BY <1>2, <1>3
<1>5. PICK m : m = Len(s) - 1
  OBVIOUS
<1>6. StackOK(t)'
  <2>1. /\ m \in 1 .. Len(s) /\ Len(t) = m /\ t[m] = f
        /\ \A i \in 1 .. m - 1 : t[i] = s[i]
        /\ f.run = s[m].run /\ f.rec = s[m].rec /\ s[m].stage # "enter"
    BY <1>2, <1>3, <1>4, <1>5
  <2> QED
    BY <1>3, <2>1, StackReplaced
<1> QED
  BY <1>1, <1>3, <1>6

LEMMA StackPushed ==
  ASSUME GithubInv, DirectoryInv, GithubInv', DirectoryInv', Onward,
         NEW s, IsStack(s), StackOK(s), s # <<>>, NEW f,
         FrameOK(f)', f.stage = "enter",
         s[Len(s)].stage \in {"source", "validate"},
         f.run = SourceOf[s[Len(s)].run],
         pin'[Exec(s[Len(s)])] = f.rec,
         Established(f.rec, s[Len(s)].run)'
  PROVE  StackOK(Append(s, f))' /\ IsStack(Append(s, f))
<1>1. PICK t : t = Append(s, f)
  OBVIOUS
<1>2. PICK n : n = Len(s)
  OBVIOUS
<1>3. /\ n \in Nat /\ n >= 1 /\ n \in 1 .. Len(s)
  BY <1>2, StackTyped
<1>4. /\ IsStack(t) /\ Len(t) = n + 1 /\ t[n + 1] = f
      /\ \A i \in 1 .. n : t[i] = s[i]
  BY <1>1, <1>2, PushFrame
<1>5. \A i \in 1 .. n : FrameOK(s[i])' /\ PlaceOK(s, i)'
  BY <1>2, StackStays DEF StackOK
<1>6. ASSUME NEW i \in 1 .. n + 1 PROVE FrameOK(t[i])'
  <2>1. i \in 1 .. n \/ i = n + 1
    BY <1>3
  <2> QED
    BY <2>1, <1>4, <1>5
<1>7. ASSUME NEW i \in 1 .. n + 1 PROVE PlaceOK(t, i)'
  <2>1. CASE i = n + 1
    <3>1. t[i] = f /\ ~(i < Len(t))
      BY <2>1, <1>3, <1>4
    <3> QED
      BY <3>1 DEF PlaceOK
  <2>2. CASE i = n
    <3>1. /\ t[i] = s[n] /\ t[i + 1] = f
          /\ \A j \in 1 .. i - 1 : t[j] = s[j]
      BY <2>2, <1>3, <1>4
    <3>2. PlaceOK(s, n)'
      BY <1>3, <1>5
    <3>3. /\ s[n].stage \in {"source", "validate"}
          /\ f.run = SourceOf[s[n].run]
          /\ pin'[Exec(s[n])] = f.rec
          /\ Established(f.rec, s[n].run)'
      BY <1>2
    <3> QED
      BY <2>2, <3>1, <3>2, <3>3 DEF PlaceOK, Exec, Established
  <2>3. CASE i < n
    <3>1. /\ i \in 1 .. n /\ t[i] = s[i] /\ t[i + 1] = s[i + 1]
          /\ \A j \in 1 .. i - 1 : t[j] = s[j]
          /\ i < Len(s) /\ i < Len(t)
      BY <2>3, <1>2, <1>3, <1>4
    <3>2. PlaceOK(s, i)'
      BY <3>1, <1>5
    <3> QED
      BY <3>1, <3>2 DEF PlaceOK, Exec, Established
  <2> QED
    BY <2>1, <2>2, <2>3, <1>3
<1>8. StackOK(t)'
  BY <1>4, <1>6, <1>7 DEF StackOK
<1> QED
  BY <1>1, <1>4, <1>8

LEMMA Restaged ==
  ASSUME NEW g, FrameOK(g), NEW x \in Stages
  PROVE  LET f == [g EXCEPT !.stage = x] IN
           /\ f = [run |-> f.run, rec |-> f.rec, stage |-> f.stage,
                   link |-> f.link, result |-> f.result]
           /\ f.run = g.run /\ f.rec = g.rec /\ f.link = g.link
           /\ f.result = g.result /\ f.stage = x
           /\ f.run \in Runs /\ f.rec \in Records
           /\ Exec(f) = Exec(g)
BY DEF FrameOK, Exec

-----------------------------------------------------------------------------
(* The stack of a collector that takes a step *)

Core == GithubInv /\ BasisInv /\ DirectoryInv /\ SummariesInv /\ Stacks

StackRight(c) == IsStack(stack[c]) /\ StackOK(stack[c])

LEMMA Advances ==
  ASSUME Core, NEW c \in Collectors, Collect(c)
  PROVE  /\ UNCHANGED <<clock, created, record, basis, content, files>>
         /\ GithubInv' /\ BasisInv' /\ DirectoryInv' /\ Onward
<1>1. UNCHANGED github /\ DirectoryInv' /\ DirectoryOnward
  BY DirectoryStep DEF Core
<1>2. GithubInv' /\ GithubOnward /\ BasisInv'
  BY <1>1, RestingGithub DEF Core
<1> QED
  BY <1>1, <1>2 DEF Onward, github

LEMMA EndedStack ==
  ASSUME Stacks, NEW c \in Collectors, NEW a, Ends(c, a)
  PROVE  StackRight(c)'
<1>1. stack'[c] = <<>>
  BY DEF Ends, Stacks, StacksInv
<1> QED
  BY <1>1, EmptyStack DEF StackRight, StackOK

LEMMA BecomeStack ==
  ASSUME Core, NEW c \in Collectors, Collect(c), stack[c] # <<>>,
         NEW f, Become(c, f),
         FrameOK(f)', f.run = Run(c), f.rec = Top(c).rec,
         f.stage # "enter" => Top(c).stage # "enter" \/ MayEnter(c),
         Depth(c) > 1 /\ f.stage = "publish" =>
           plan'[This(c)] = f.rec.attempt /\ rest'[This(c)] = f.rec.attempt
  PROVE  StackRight(c)'
<1>1. PICK s : s = stack[c]
  OBVIOUS
<1>2. /\ IsStack(s) /\ StackOK(s) /\ s # <<>>
      /\ Depth(c) = Len(s) /\ Top(c) = s[Len(s)] /\ Run(c) = s[Len(s)].run
      /\ This(c) = Exec(f)
  BY <1>1 DEF Core, Stacks, StacksInv, Depth, Top, Run, This, Exec
<1>3. stack'[c] = [s EXCEPT ![Len(s)] = f]
  BY <1>1 DEF Become, Depth, Core, Stacks, StacksInv
<1>4. MayEnter(c) =>
        Len(s) <= MaxLineage /\ \A j \in 1 .. Len(s) - 1 : s[j].run # f.run
  BY <1>1, <1>2 DEF MayEnter, Lineage
<1>5. f.stage # "enter" =>
        \/ s[Len(s)].stage # "enter"
        \/ Len(s) <= MaxLineage /\ \A j \in 1 .. Len(s) - 1 : s[j].run # f.run
  BY <1>2, <1>4
<1>6. /\ f.run = s[Len(s)].run /\ f.rec = s[Len(s)].rec
      /\ Len(s) > 1 /\ f.stage = "publish" =>
           plan'[Exec(f)] = f.rec.attempt /\ rest'[Exec(f)] = f.rec.attempt
  BY <1>2
<1>7. GithubInv /\ DirectoryInv /\ GithubInv' /\ DirectoryInv' /\ Onward
  BY Advances DEF Core
<1>8. PICK t : t = [s EXCEPT ![Len(s)] = f]
  OBVIOUS
<1>9. StackOK(t)' /\ IsStack(t)
  BY <1>2, <1>5, <1>6, <1>7, <1>8, StackBecomes
<1> QED
  BY <1>3, <1>8, <1>9 DEF StackRight

LEMMA StartStack ==
  ASSUME Core, NEW c \in Collectors, Start(c)
  PROVE  StackRight(c)'
<1>1. PICK r \in DOMAIN record : stack' = [stack EXCEPT ![c] = <<Frame(r, record[r])>>]
  BY DEF Start
<1>2. PICK f : f = Frame(r, record[r])
  OBVIOUS
<1>3. /\ stack'[c] = <<f>>
      /\ f = [run |-> r, rec |-> record[r], stage |-> "enter", link |-> NoLink,
              result |-> NoSummary]
      /\ UNCHANGED <<record, files>>
  BY <1>1, <1>2 DEF Frame, Core, Stacks, StacksInv, Start, github
<1>4. r \in Runs /\ record[r] \in Records /\ r \in DOMAIN record
  BY DEF Core, GithubInv
<1>5. Began(Exec(f))'
  BY <1>3, <1>4 DEF Began, Exists, Exec, Records, Attempts
<1>6. FrameOK(f)'
  BY <1>3, <1>4, <1>5 DEF FrameOK, Stages
<1>7. PICK t : t = <<f>>
  OBVIOUS
<1>8. IsStack(t) /\ Len(t) = 1 /\ t[1] = f
  BY <1>7, OneFrame
<1>9. PlaceOK(t, 1)'
  BY <1>3, <1>8 DEF PlaceOK
<1>10. StackOK(t)'
  BY <1>6, <1>8, <1>9 DEF StackOK
<1> QED
  BY <1>3, <1>7, <1>8, <1>10 DEF StackRight

LEMMA EnterStack ==
  ASSUME Core, NEW c \in Collectors, Enter(c)
  PROVE  StackRight(c)'
<1>1. At(c, "enter") /\ stack[c] # <<>> /\ Collect(c)
  BY DEF Enter, At, Collect
<1>2. CASE Ends(c, "failed")
  BY <1>2, EndedStack DEF Core
<1>3. CASE ~Ends(c, "failed")
  <2> DEFINE x == IF summary[This(c)] = NoSummary THEN "describe"
                  ELSE IF summary[This(c)].link = NoLink THEN "return"
                  ELSE "validate"
  <2>1. MayEnter(c) /\ Become(c, [Top(c) EXCEPT !.stage = x]) /\ UNCHANGED directory
    BY <1>3 DEF Enter, GoTo
  <2>2. /\ FrameOK(Top(c)) /\ This(c) = Exec(Top(c)) /\ This(c) \in Executions
        /\ Run(c) = Top(c).run /\ Top(c).stage = "enter"
    BY <1>1, TopOK DEF Core, At
  <2>3. PICK g : g = Top(c)
    OBVIOUS
  <2>4. PICK f : f = [g EXCEPT !.stage = x]
    OBVIOUS
  <2>5. x \in {"describe", "return", "validate"} /\ x \in Stages
    BY DEF Stages
  <2>6. /\ f = [run |-> f.run, rec |-> f.rec, stage |-> f.stage,
                link |-> f.link, result |-> f.result]
        /\ f.run = g.run /\ f.rec = g.rec /\ f.link = g.link
        /\ f.stage = x /\ f.run \in Runs /\ f.rec \in Records
        /\ Exec(f) = Exec(g)
    BY <2>2, <2>3, <2>4, <2>5, Restaged
  <2>7. FrameOK(g)'
    BY <1>1, <2>2, <2>3, Advances, FrameStays DEF Core
  <2>8. /\ f.stage = "validate" => Published(Exec(f))' /\ summary'[Exec(f)].link # NoLink
        /\ f.stage = "return" => Published(Exec(f))'
    BY <2>1, <2>2, <2>3, <2>6 DEF Published, directory
  <2>9. Began(Exec(f))' /\ f.link = NoLink
    BY <2>2, <2>3, <2>6, <2>7 DEF FrameOK, Began, Exists, Exec
  <2>10. FrameOK(f)'
    <3>1. /\ Began(Exec(f))'
          /\ f.stage = "validate" =>
               Published(Exec(f))' /\ summary'[Exec(f)].link # NoLink
          /\ f.stage = "return" => Published(Exec(f))'
      BY <2>8, <2>9
    <3>2. Exec(f)' = Exec(f)
      BY DEF Exec
    <3> QED
      BY <2>5, <2>6, <2>9, <3>1, <3>2 DEF FrameOK
  <2>11. Become(c, f) /\ f.run = Run(c) /\ f.rec = Top(c).rec /\ f.stage # "publish"
    BY <2>1, <2>2, <2>3, <2>4, <2>5, <2>6
  <2> QED
    BY <1>1, <2>1, <2>10, <2>11, BecomeStack
<1> QED
  BY <1>2, <1>3

\* What every action needs that replaces the top frame by one of another stage.
LEMMA TopRestaged ==
  ASSUME Core, NEW c \in Collectors, Collect(c), stack[c] # <<>>,
         NEW x \in Stages, NEW f, f = [Top(c) EXCEPT !.stage = x]
  PROVE  /\ FrameOK(Top(c)) /\ This(c) \in Executions
         /\ f = [run |-> f.run, rec |-> f.rec, stage |-> f.stage,
                 link |-> f.link, result |-> f.result]
         /\ f.run = Run(c) /\ f.run = Top(c).run /\ f.rec = Top(c).rec
         /\ f.link = Top(c).link
         /\ f.result = Top(c).result /\ f.stage = x
         /\ f.run \in Runs /\ f.rec \in Records
         /\ Exec(f) = This(c) /\ Exec(f)' = This(c)
         /\ Began(Exec(f))'
<1>1. /\ FrameOK(Top(c)) /\ This(c) = Exec(Top(c)) /\ This(c) \in Executions
      /\ Run(c) = Top(c).run /\ Began(This(c))
  BY TopOK DEF Core
<1>2. PICK g : g = Top(c)
  OBVIOUS
<1>3. /\ f = [run |-> f.run, rec |-> f.rec, stage |-> f.stage,
              link |-> f.link, result |-> f.result]
      /\ f.run = g.run /\ f.rec = g.rec /\ f.link = g.link
      /\ f.result = g.result /\ f.stage = x
      /\ f.run \in Runs /\ f.rec \in Records
      /\ Exec(f) = Exec(g)
  BY <1>1, <1>2, Restaged
<1>4. PICK e : e = Exec(f)
  OBVIOUS
<1>5. Began(e) /\ e = This(c)
  BY <1>1, <1>2, <1>3, <1>4
<1>6. UNCHANGED <<created, record>>
  BY Advances
<1>7. Began(e)'
  BY <1>5, <1>6 DEF Began, Exists
<1>8. Exec(f)' = e
  BY <1>4 DEF Exec
<1> QED
  BY <1>1, <1>2, <1>3, <1>4, <1>5, <1>7, <1>8

LEMMA DescribeStack ==
  ASSUME Core, NEW c \in Collectors, Describe(c)
  PROVE  StackRight(c)'
<1>1. At(c, "describe") /\ stack[c] # <<>> /\ Collect(c)
  BY DEF Describe, At, Collect
<1>2. CASE Ends(c, "failed")
  BY <1>2, EndedStack DEF Core
<1>3. CASE ~Ends(c, "failed")
  <2>1. CollectJob(This(c)) /\ Become(c, [Top(c) EXCEPT !.stage = "plan"])
    BY <1>3 DEF Describe, GoTo
  <2>2. PICK f : f = [Top(c) EXCEPT !.stage = "plan"]
    OBVIOUS
  <2>3. "plan" \in Stages
    BY DEF Stages
  <2>4. /\ FrameOK(Top(c)) /\ This(c) \in Executions
        /\ f = [run |-> f.run, rec |-> f.rec, stage |-> f.stage,
                link |-> f.link, result |-> f.result]
        /\ f.run = Run(c) /\ f.run = Top(c).run /\ f.rec = Top(c).rec
        /\ f.link = Top(c).link /\ f.stage = "plan"
        /\ f.run \in Runs /\ f.rec \in Records
        /\ Exec(f) = This(c) /\ Began(Exec(f))'
    BY <1>1, <2>2, <2>3, TopRestaged
  <2>5. f.link = NoLink
    BY <1>1, <2>4 DEF FrameOK, At
  <2>6. f.rec.attempt <= files'[f.run]
    <3>1. /\ files' = files /\ This(c) = <<f.run, f.rec.attempt>> /\ Began(This(c))
          /\ f.rec.attempt \in Nat
      BY <1>1, <2>4, Advances, TopOK DEF Core, Records, Attempts, Exec
    <3>2. f.run \in DOMAIN record
      BY <3>1 DEF Began, Exists
    <3>3. /\ record[f.run].attempt \in Nat
          /\ files[f.run] \in {record[f.run].attempt - 1, record[f.run].attempt}
      BY <3>2 DEF Core, GithubInv, Records, Attempts
    <3> QED
      BY <2>1, <3>1, <3>2, <3>3 DEF CollectJob, Began
  <2>7. FrameOK(f)'
    BY <2>4, <2>5, <2>6 DEF FrameOK, Stages
  <2>8. Become(c, f) /\ f.stage # "publish" /\ Top(c).stage # "enter"
    BY <1>1, <2>1, <2>2, <2>4 DEF At
  <2> QED
    BY <1>1, <2>4, <2>7, <2>8, BecomeStack
<1> QED
  BY <1>2, <1>3

LEMMA ReadPlanStack ==
  ASSUME Core, NEW c \in Collectors, ReadPlan(c)
  PROVE  StackRight(c)'
<1>1. At(c, "plan") /\ stack[c] # <<>> /\ Collect(c)
  BY DEF ReadPlan, At, Collect
<1>2. CASE Ends(c, "failed")
  BY <1>2, EndedStack DEF Core
<1>3. CASE ~Ends(c, "failed")
  <2> DEFINE x == IF SourceOf[Run(c)] = NoRun THEN "rest" ELSE "source"
  <2>1. /\ Fetched(plan[This(c)], Run(c)) # None
        /\ plan' = [plan EXCEPT ![This(c)] = Fetched(@, Run(c))]
        /\ Become(c, [Top(c) EXCEPT !.stage = x])
    BY <1>3 DEF ReadPlan, GoTo
  <2>2. PICK f : f = [Top(c) EXCEPT !.stage = x]
    OBVIOUS
  <2>3. x \in Stages
    BY DEF Stages
  <2>4. /\ FrameOK(Top(c)) /\ This(c) \in Executions
        /\ f = [run |-> f.run, rec |-> f.rec, stage |-> f.stage,
                link |-> f.link, result |-> f.result]
        /\ f.run = Run(c) /\ f.run = Top(c).run /\ f.rec = Top(c).rec
        /\ f.link = Top(c).link /\ f.stage = x
        /\ f.run \in Runs /\ f.rec \in Records
        /\ Exec(f) = This(c) /\ Began(Exec(f))'
    BY <1>1, <2>2, <2>3, TopRestaged
  <2>5. f.link = NoLink /\ f.rec.attempt <= files'[f.run]
    BY <1>1, <2>4, Advances DEF FrameOK, At
  <2>6. plan'[Exec(f)] # None
    BY <2>1, <2>4 DEF Core, DirectoryInv
  <2>7. FrameOK(f)'
    BY <2>4, <2>5, <2>6 DEF FrameOK, Stages, Exec
  <2>8. Become(c, f) /\ f.stage # "publish" /\ Top(c).stage # "enter"
    BY <1>1, <2>1, <2>2, <2>4 DEF At
  <2> QED
    BY <1>1, <2>4, <2>7, <2>8, BecomeStack
<1> QED
  BY <1>2, <1>3

\* A link that is made one of a verdict carried forward is still that link.
LEMMA LinkMoved ==
  ASSUME NEW e, NEW l, LinkOK(e, l)
  PROVE  LET k == [l EXCEPT !.mode = "carried_forward"] IN
           LinkOK(e, k) /\ k.attempt = l.attempt
BY DEF LinkOK

LEMMA ResultRight ==
  ASSUME GithubInv, NEW e \in Executions, NEW f, f.run = e[1],
         \/ f.link = NoLink /\ SourceOf[e[1]] = NoRun
         \/ LinkOK(e, f.link),
         NEW p \in 1 .. files[e[1]], NEW q \in 1 .. files[e[1]],
         VerdictAgrees(Result(f, p, q))
  PROVE  /\ ResultOK(e, Result(f, p, q))
         /\ Result(f, p, q).link # NoLink => f.link # NoLink
<1>1. e[1] \in Runs
  BY DEF Executions
<1>2. /\ <<e[1], p>> \in DOMAIN content /\ <<e[1], q>> \in DOMAIN content
      /\ content[<<e[1], p>>] \in Uploads[e[1]]
      /\ content[<<e[1], q>>] \in Uploads[e[1]]
  BY <1>1 DEF GithubInv
<1>3. content[<<e[1], q>>].verdict \in {"pass", "fail"}
  BY <1>1, <1>2, LineageAssumption
<1>4. content[<<e[1], p>>].carried => SourceOf[e[1]] # NoRun
  BY <1>1, <1>2, LineageAssumption
<1>5. PICK m : m = Result(f, p, q)
  OBVIOUS
<1>6. /\ m.verdict = content[<<e[1], q>>].verdict
      /\ m.link = IF content[<<e[1], p>>].carried
                  THEN [f.link EXCEPT !.mode = "carried_forward"] ELSE f.link
  BY <1>5 DEF Result
<1>7. PICK l : l = f.link
  OBVIOUS
<1>8. CASE content[<<e[1], p>>].carried
  <2>1. LinkOK(e, l)
    BY <1>4, <1>7, <1>8
  <2>2. LinkOK(e, m.link) /\ l.mode \in {"partial", "carried_forward"}
    BY <1>6, <1>7, <1>8, <2>1, LinkMoved DEF LinkOK
  <2>3. f.link # NoLink
    BY <1>7, <2>2 DEF NoLink
  <2> QED
    BY <1>3, <1>5, <1>6, <2>2, <2>3 DEF ResultOK
<1>9. CASE ~content[<<e[1], p>>].carried
  <2>1. m.link = f.link
    BY <1>6, <1>9
  <2> QED
    BY <1>3, <1>5, <1>6, <2>1 DEF ResultOK
<1> QED
  BY <1>8, <1>9

LEMMA ReadRestStack ==
  ASSUME Core, NEW c \in Collectors, ReadRest(c)
  PROVE  StackRight(c)'
<1>1. At(c, "rest") /\ stack[c] # <<>> /\ Collect(c)
  BY DEF ReadRest, At, Collect
<1>2. CASE Ends(c, "failed")
  BY <1>2, EndedStack DEF Core
<1>3. CASE ~Ends(c, "failed")
  <2>1. PICK e : e = This(c)
    OBVIOUS
  <2>2. PICK q : q = rest'[e]
    OBVIOUS
  <2>3. PICK m : m = Result(Top(c), plan[e], q)
    OBVIOUS
  <2>4. /\ Fetched(rest[e], Run(c)) # None
        /\ rest' = [rest EXCEPT ![e] = Fetched(rest[e], Run(c))]
        /\ VerdictAgrees(m)
        /\ Become(c, [Top(c) EXCEPT !.stage = "recheck", !.result = m])
    BY <1>3, <2>1, <2>2, <2>3 DEF ReadRest
  <2>5. /\ FrameOK(Top(c)) /\ e \in Executions /\ Top(c).run = e[1]
        /\ Run(c) = e[1] /\ e = <<Top(c).run, Top(c).rec.attempt>>
        /\ e = Exec(Top(c)) /\ Began(e) /\ Top(c).stage = "rest"
    BY <1>1, <2>1, TopOK DEF Core, At
  <2>6. /\ plan[e] # None /\ e[2] <= files[e[1]]
        /\ \/ Top(c).link = NoLink /\ SourceOf[e[1]] = NoRun
           \/ LinkOK(e, Top(c).link)
    <3>1. PICK g : g = Top(c)
      OBVIOUS
    <3>2. FrameOK(g) /\ g.stage = "rest" /\ e = Exec(g) /\ g.run = e[1]
      BY <2>5, <3>1
    <3>3. plan[e] # None /\ g.rec.attempt <= files[g.run]
      BY <3>2 DEF FrameOK
    <3>4. \/ g.link = NoLink /\ SourceOf[g.run] = NoRun
          \/ LinkOK(e, g.link)
      BY <3>2 DEF FrameOK
    <3> QED
      BY <2>5, <3>1, <3>2, <3>3, <3>4
  <2>7. plan[e] \in 1 .. files[e[1]]
    <3>1. plan[e] \in e[2] .. files[e[1]]
      BY <2>5, <2>6 DEF Core, DirectoryInv
    <3>2. e[1] \in Runs /\ e[2] \in Nat /\ e[2] >= 1
      BY <2>5 DEF Executions, Attempts
    <3>3. plan[e] \in Attempts /\ files[e[1]] \in {None} \cup Attempts
      BY <2>5, <2>6, <3>2 DEF Core, DirectoryInv, GithubInv
    <3> QED
      BY <3>1, <3>2, <3>3 DEF Attempts, None
  <2>8. q \in 1 .. files[e[1]] /\ q # None
    <3>1. PICK kept : kept = rest[e]
      OBVIOUS
    <3>2. kept # None => kept \in e[2] .. files[e[1]]
      BY <2>5, <3>1 DEF Core, DirectoryInv
    <3>3. Fetched(kept, e[1]) \in 1 .. files[e[1]] /\ Fetched(kept, e[1]) # None
      BY <2>5, <2>6, <3>2, FetchedIsRight DEF Core
    <3>4. q = Fetched(rest[e], e[1])
      BY <2>2, <2>4, <2>5 DEF Core, DirectoryInv
    <3> QED
      BY <3>1, <3>3, <3>4
  <2>9. PICK g : g = Top(c)
    OBVIOUS
  <2>10. /\ ResultOK(e, m)
         /\ m.link # NoLink => g.link # NoLink
    BY <2>3, <2>4, <2>5, <2>6, <2>7, <2>8, <2>9, ResultRight DEF Core
  <2>11. PICK f : f = [g EXCEPT !.stage = "recheck", !.result = m]
    OBVIOUS
  <2>12. /\ f = [run |-> f.run, rec |-> f.rec, stage |-> f.stage,
                 link |-> f.link, result |-> f.result]
         /\ f.run = g.run /\ f.rec = g.rec /\ f.link = g.link
         /\ f.stage = "recheck" /\ f.result = m
         /\ f.run \in Runs /\ f.rec \in Records
    BY <2>5, <2>9, <2>11 DEF FrameOK
  <2>13. /\ GithubInv /\ DirectoryInv /\ GithubInv' /\ DirectoryInv' /\ Onward
         /\ UNCHANGED <<created, record, files>>
    BY <1>1, Advances DEF Core
  <2>14. Began(e)' /\ ResultOK(e, m)' /\ f.rec.attempt <= files'[f.run]
    BY <2>5, <2>6, <2>9, <2>10, <2>12, <2>13, ResultStays DEF Began, Exists
  <2>15. PICK l : l = g.link
    OBVIOUS
  <2>16. \/ l = NoLink /\ SourceOf[f.run] = NoRun
         \/ LinkOK(e, l)'
    BY <2>5, <2>6, <2>9, <2>12, <2>13, <2>15, LinkStays
  <2>17. plan'[e] # None /\ rest'[e] # None
    BY <2>2, <2>5, <2>6, <2>8, <2>13 DEF Onward, DirectoryOnward
  <2>18. e = Exec(f)' /\ e = Exec(f)
    BY <2>5, <2>9, <2>12 DEF Exec
  <2>19. FrameOK(f)'
    BY <2>10, <2>12, <2>14, <2>15, <2>16, <2>17, <2>18 DEF FrameOK, Stages
  <2>20. Become(c, f) /\ f.run = Run(c) /\ f.rec = Top(c).rec
    BY <2>4, <2>5, <2>9, <2>11, <2>12
  <2>21. f.stage # "publish" /\ Top(c).stage # "enter"
    BY <2>5, <2>12
  <2> QED
    BY <1>1, <2>19, <2>20, <2>21, BecomeStack
<1> QED
  BY <1>2, <1>3

LEMMA RecheckStack ==
  ASSUME Core, NEW c \in Collectors, Recheck(c)
  PROVE  StackRight(c)'
<1>1. At(c, "recheck") /\ stack[c] # <<>> /\ Collect(c)
  BY DEF Recheck, At, Collect
<1>2. CASE Ends(c, "failed")
  BY <1>2, EndedStack DEF Core
<1>3. CASE ~Ends(c, "failed")
  <2>1. /\ Depth(c) = 1 \/ StillPinned(Run(c), Top(c).rec)
        /\ Become(c, [Top(c) EXCEPT !.stage = "publish"])
    BY <1>3 DEF Recheck, GoTo
  <2>2. PICK f : f = [Top(c) EXCEPT !.stage = "publish"]
    OBVIOUS
  <2>3. "publish" \in Stages
    BY DEF Stages
  <2>4. /\ FrameOK(Top(c)) /\ This(c) \in Executions
        /\ f = [run |-> f.run, rec |-> f.rec, stage |-> f.stage,
                link |-> f.link, result |-> f.result]
        /\ f.run = Run(c) /\ f.run = Top(c).run /\ f.rec = Top(c).rec
        /\ f.link = Top(c).link /\ f.result = Top(c).result /\ f.stage = "publish"
        /\ f.run \in Runs /\ f.rec \in Records
        /\ Exec(f) = This(c) /\ Began(Exec(f))'
    BY <1>1, <2>2, <2>3, TopRestaged
  <2>5. PICK g : g = Top(c)
    OBVIOUS
  <2>6. FrameOK(g)' /\ g.stage = "recheck"
    <3>1. FrameOK(g) /\ g.stage = "recheck"
      BY <1>1, <2>4, <2>5 DEF At
    <3>2. GithubInv /\ DirectoryInv /\ GithubInv' /\ DirectoryInv' /\ Onward
      BY <1>1, Advances DEF Core
    <3> QED
      BY <3>1, <3>2, FrameStays
  <2>7. FrameOK(f)'
    <3>1. PICK e : e = This(c)
      OBVIOUS
    <3>2. PICK m : m = g.result
      OBVIOUS
    <3>3. PICK l : l = g.link
      OBVIOUS
    <3>4. Exec(f) = e /\ Exec(f)' = e /\ Exec(g)' = e /\ f.result = m /\ f.link = l
      BY <2>4, <2>5, <3>1, <3>2, <3>3 DEF Exec
    <3>5. /\ f.rec.attempt <= files'[f.run] /\ plan'[e] # None /\ rest'[e] # None
          /\ m.link # NoLink => l # NoLink
      BY <2>4, <2>5, <2>6, <3>2, <3>3, <3>4 DEF FrameOK
    <3>6. ResultOK(e, m)'
      BY <2>6, <3>2, <3>4 DEF FrameOK
    <3>7. \/ l = NoLink /\ SourceOf[f.run] = NoRun
          \/ LinkOK(e, l)'
      BY <2>4, <2>5, <2>6, <3>3, <3>4 DEF FrameOK
    <3> QED
      BY <2>4, <3>4, <3>5, <3>6, <3>7 DEF FrameOK, Stages
  \* A source that has not been re-run has not uploaded files of a later attempt.
  <2>8. ASSUME Depth(c) > 1
        PROVE  plan'[This(c)] = f.rec.attempt /\ rest'[This(c)] = f.rec.attempt
    <3>1. PICK e : e = This(c)
      OBVIOUS
    <3>2. /\ e = <<f.run, f.rec.attempt>> /\ Began(e) /\ e \in Executions
          /\ plan[e] # None /\ rest[e] # None
      BY <1>1, <2>4, <3>1, TopOK DEF Core, FrameOK, At, Exec
    <3>3. record[f.run] = f.rec /\ f.run \in DOMAIN record
      BY <2>1, <2>4, <2>8, <3>2 DEF StillPinned, Began, Exists
    <3>4. files[e[1]] \in {e[2] - 1, e[2]} /\ e[2] \in Nat
      BY <3>2, <3>3 DEF Core, GithubInv, Executions, Attempts
    <3>5. /\ plan[e] \in e[2] .. files[e[1]] /\ plan[e] \in Attempts
          /\ rest[e] \in e[2] .. files[e[1]] /\ rest[e] \in Attempts
      BY <3>2 DEF Core, DirectoryInv
    <3>6. plan[e] = e[2] /\ rest[e] = e[2]
      BY <3>4, <3>5 DEF Attempts
    <3> QED
      BY <1>1, <3>1, <3>2, <3>6, Advances DEF Onward, DirectoryOnward
  <2>9. Become(c, f) /\ Top(c).stage # "enter"
    BY <1>1, <2>1, <2>2 DEF At
  <2> QED
    BY <1>1, <2>4, <2>7, <2>8, <2>9, BecomeStack
<1> QED
  BY <1>2, <1>3

LEMMA ResultIsSummary ==
  ASSUME NEW e, NEW m, ResultOK(e, m)
  PROVE  m # NoSummary
BY DEF ResultOK, NoSummary

LEMMA PublishStack ==
  ASSUME Core, NEW c \in Collectors, Publish(c)
  PROVE  StackRight(c)'
<1>1. At(c, "publish") /\ stack[c] # <<>> /\ Collect(c)
  BY DEF Publish, At, Collect
<1>2. CASE Ends(c, "failed")
  BY <1>2, EndedStack DEF Core
<1>3. CASE ~Ends(c, "failed")
  <2>1. PICK e : e = This(c)
    OBVIOUS
  <2>2. /\ \/ summary' = [summary EXCEPT ![e] = Top(c).result]
           \/ summary[e] = Top(c).result /\ summary' = summary
        /\ Become(c, [Top(c) EXCEPT !.stage = "return"])
    BY <1>3, <2>1 DEF Publish, GoTo
  <2>3. PICK f : f = [Top(c) EXCEPT !.stage = "return"]
    OBVIOUS
  <2>4. "return" \in Stages
    BY DEF Stages
  <2>5. /\ FrameOK(Top(c)) /\ e \in Executions
        /\ f = [run |-> f.run, rec |-> f.rec, stage |-> f.stage,
                link |-> f.link, result |-> f.result]
        /\ f.run = Run(c) /\ f.run = Top(c).run /\ f.rec = Top(c).rec
        /\ f.stage = "return"
        /\ f.run \in Runs /\ f.rec \in Records
        /\ Exec(f) = e /\ Exec(f)' = e /\ Began(Exec(f))'
    BY <1>1, <2>1, <2>3, <2>4, TopRestaged
  <2>6. ResultOK(Exec(Top(c)), Top(c).result)
    BY <1>1, <2>5 DEF FrameOK, At
  <2>7. Top(c).result # NoSummary
    BY <2>6, ResultIsSummary
  <2>8. summary'[e] = Top(c).result
    BY <2>2, <2>5 DEF Core, SummariesInv
  <2>9. Published(e)'
    BY <2>7, <2>8 DEF Published
  <2>10. FrameOK(f)'
    BY <2>5, <2>9 DEF FrameOK, Stages
  <2>11. Become(c, f) /\ f.stage # "publish" /\ Top(c).stage # "enter"
    BY <1>1, <2>2, <2>3, <2>5 DEF At
  <2> QED
    BY <1>1, <2>5, <2>10, <2>11, BecomeStack
<1> QED
  BY <1>2, <1>3

LEMMA PinSourceStack ==
  ASSUME Core, NEW c \in Collectors, PinSource(c)
  PROVE  StackRight(c)'
<1>1. /\ At(c, "source") \/ At(c, "validate")
      /\ stack[c] # <<>> /\ Collect(c)
  BY DEF PinSource, At, Collect
<1>2. CASE Ends(c, "failed")
  BY <1>2, EndedStack DEF Core
<1>3. CASE ~Ends(c, "failed")
  <2>1. PICK e : e = This(c)
    OBVIOUS
  <2>2. PICK rec : rec = PinnedSource(c)
    OBVIOUS
  <2>3. PICK r : r = SourceOf[Run(c)]
    OBVIOUS
  <2>4. /\ pin' = [pin EXCEPT ![e] = rec]
        /\ Established(rec, Run(c))
        /\ stack' = [stack EXCEPT ![c] = Append(stack[c], Frame(r, rec))]
    BY <1>3, <2>1, <2>2, <2>3 DEF PinSource, Retained
  <2>5. r \in Runs /\ rec \in Records /\ Began(<<r, rec.attempt>>)
    BY <1>1, <2>2, <2>3, PinnedIsRight DEF Core
  <2>6. PICK f : f = Frame(r, rec)
    OBVIOUS
  <2>7. f = [run |-> r, rec |-> rec, stage |-> "enter", link |-> NoLink,
             result |-> NoSummary]
    BY <2>6 DEF Frame
  <2>8. UNCHANGED <<record, created>>
    BY <1>1, Advances
  <2>9. Began(Exec(f))'
    BY <2>5, <2>7, <2>8 DEF Began, Exists, Exec
  <2>10. FrameOK(f)'
    BY <2>5, <2>7, <2>9 DEF FrameOK, Stages
  <2>11. PICK s : s = stack[c]
    OBVIOUS
  <2>12. /\ IsStack(s) /\ StackOK(s) /\ s # <<>>
         /\ Top(c) = s[Len(s)] /\ Run(c) = s[Len(s)].run /\ e = Exec(s[Len(s)])
         /\ s[Len(s)].stage \in {"source", "validate"}
    BY <1>1, <2>1, <2>11 DEF Core, Stacks, StacksInv, Depth, Top, Run, This, Exec, At
  <2>13. pin'[e] = rec
    BY <1>1, <2>1, <2>4, TopOK DEF Core, DirectoryInv
  <2>15. /\ f.run = SourceOf[s[Len(s)].run] /\ f.stage = "enter"
         /\ pin'[Exec(s[Len(s)])] = f.rec
    BY <2>3, <2>7, <2>12, <2>13
  <2>16. Established(f.rec, s[Len(s)].run)'
    BY <2>4, <2>7, <2>8, <2>12 DEF Established
  <2>17. GithubInv /\ DirectoryInv /\ GithubInv' /\ DirectoryInv' /\ Onward
    BY <1>1, Advances DEF Core
  <2>18. PICK t : t = Append(s, f)
    OBVIOUS
  <2>19. StackOK(t)' /\ IsStack(t)
    BY <2>10, <2>12, <2>15, <2>16, <2>17, <2>18, StackPushed
  <2>20. stack'[c] = t
    BY <2>4, <2>6, <2>11, <2>18 DEF Core, Stacks, StacksInv
  <2> QED
    BY <2>19, <2>20 DEF StackRight
<1> QED
  BY <1>2, <1>3

\* What a frame returns is the link of the one below.
LEMMA LinkReturned ==
  ASSUME Core, NEW c \in Collectors, At(c, "return"), Depth(c) > 1
  PROVE  LET below == stack[c][Depth(c) - 1]
             link  == LinkTo(Run(c), This(c), "partial")
         IN
           /\ FrameOK(below)
           /\ below.stage \in {"source", "validate"}
           /\ Exec(below) \in Executions
           /\ LinkOK(Exec(below), link)
           /\ <<SourceOf[below.run], link.attempt>> = This(c)
<1>1. PICK s : s = stack[c]
  OBVIOUS
<1>2. PICK n : n = Depth(c)
  OBVIOUS
<1>3. PICK b : b = s[n - 1]
  OBVIOUS
<1>4. PICK top : top = s[n]
  OBVIOUS
<1>5. PICK e : e = Exec(b)
  OBVIOUS
<1>6. /\ IsStack(s) /\ StackOK(s) /\ n = Len(s) /\ n \in Nat /\ n > 1
      /\ n - 1 \in 1 .. n /\ n - 1 < n /\ (n - 1) + 1 = n /\ n \in 1 .. n
  BY <1>1, <1>2, StackTyped DEF Core, Stacks, StacksInv, Depth
<1>7. FrameOK(b) /\ PlaceOK(s, n - 1) /\ FrameOK(top)
  BY <1>3, <1>4, <1>6 DEF StackOK
<1>8. /\ b.stage \in {"source", "validate"}
      /\ top.run = SourceOf[b.run]
      /\ top.rec = pin[e]
      /\ Established(top.rec, b.run)
  BY <1>3, <1>4, <1>5, <1>6, <1>7 DEF PlaceOK
<1>9. /\ Top(c) = top /\ Run(c) = top.run /\ This(c) = <<top.run, top.rec.attempt>>
      /\ top.stage = "return" /\ Published(This(c))
  BY <1>1, <1>2, <1>4, <1>6, <1>7 DEF Top, Run, This, At, FrameOK, Exec
<1>10. /\ e \in Executions /\ e[1] = b.run
       /\ top.rec \in Records /\ top.run \in Runs
  BY <1>5, <1>7 DEF FrameOK, Exec, Executions, Records
<1>11. pin[e] # NoRecord /\ SourceOf[e[1]] # NoRun
  BY <1>8, <1>10, NoRecordIsNone, LineageAssumption
<1>12. PICK link : link = LinkTo(Run(c), This(c), "partial")
  OBVIOUS
<1>13. link = [mode |-> "partial", attempt |-> top.rec.attempt,
               summary |-> summary[This(c)]]
  BY <1>9, <1>12 DEF LinkTo
<1>14. <<SourceOf[b.run], link.attempt>> = This(c)
  BY <1>8, <1>9, <1>13
<1>15. LinkOK(e, link)
  BY <1>8, <1>9, <1>10, <1>11, <1>13, <1>14 DEF LinkOK
<1> QED
  BY <1>1, <1>2, <1>3, <1>5, <1>7, <1>8, <1>10, <1>12, <1>14, <1>15

LEMMA ReturnStack ==
  ASSUME Core, NEW c \in Collectors, Return(c)
  PROVE  StackRight(c)'
<1>1. /\ At(c, "return") /\ stack[c] # <<>> /\ Collect(c)
  BY DEF Return, At, Collect
<1>2. CASE \E a : Ends(c, a)
  BY <1>2, EndedStack DEF Core
<1>3. CASE ~\E a : Ends(c, a)
  <2>1. PICK s : s = stack[c]
    OBVIOUS
  <2>2. PICK b : b = s[Len(s) - 1]
    OBVIOUS
  <2>3. PICK link : link = LinkTo(Run(c), This(c), "partial")
    OBVIOUS
  <2>4. Depth(c) > 1 /\ Depth(c) = Len(s)
    BY <1>1, <1>3, <2>1, TopOK DEF Return, Depth, Core
  <2>5. PICK f : /\ \/ b.stage = "source" /\ f = [b EXCEPT !.stage = "rest", !.link = link]
                    \/ b.stage = "validate" /\ f = [b EXCEPT !.stage = "return"]
                 /\ stack' = [stack EXCEPT ![c] =
                      Append(SubSeq(s, 1, Len(s) - 2), f)]
    BY <1>3, <2>1, <2>2, <2>3, <2>4 DEF Return
  <2>6. PICK e : e = Exec(b)
    OBVIOUS
  <2>7. /\ FrameOK(b) /\ e \in Executions /\ LinkOK(e, link)
        /\ b.stage \in {"source", "validate"}
    BY <1>1, <2>1, <2>2, <2>3, <2>4, <2>6, LinkReturned
  <2>8. /\ f = [run |-> f.run, rec |-> f.rec, stage |-> f.stage,
                link |-> f.link, result |-> f.result]
        /\ f.run = b.run /\ f.rec = b.rec
        /\ f.run \in Runs /\ f.rec \in Records
        /\ \/ b.stage = "source" /\ f.stage = "rest" /\ f.link = link
           \/ b.stage = "validate" /\ f.stage = "return"
        /\ Exec(f) = e
    BY <2>5, <2>6, <2>7 DEF FrameOK, Exec
  <2>9. GithubInv /\ DirectoryInv /\ GithubInv' /\ DirectoryInv' /\ Onward
    BY <1>1, Advances DEF Core
  <2>10. FrameOK(b)' /\ LinkOK(e, link)'
    BY <2>7, <2>9, FrameStays, LinkStays
  <2>11. FrameOK(f)'
    <3>1. Exec(f)' = e /\ Exec(b)' = e
      BY <2>6, <2>8 DEF Exec
    <3>2. /\ Began(e)'
          /\ b.stage = "source" => b.rec.attempt <= files'[b.run] /\ plan'[e] # None
          /\ b.stage = "validate" => Published(e)'
      BY <2>10, <3>1 DEF FrameOK
    <3> QED
      BY <2>8, <2>10, <3>1, <3>2 DEF FrameOK, Stages
  <2>12. IsStack(s) /\ StackOK(s)
    BY <2>1 DEF Core, Stacks, StacksInv
  <2>13. PICK t : t = Append(SubSeq(s, 1, Len(s) - 2), f)
    OBVIOUS
  <2>14. /\ Len(s) > 1 /\ f.run = s[Len(s) - 1].run /\ f.rec = s[Len(s) - 1].rec
         /\ s[Len(s) - 1].stage # "enter" /\ f.stage # "publish"
    BY <2>2, <2>4, <2>7, <2>8
  <2>15. StackOK(t)' /\ IsStack(t)
    BY <2>9, <2>11, <2>12, <2>13, <2>14, StackPopped
  <2>16. stack'[c] = t
    BY <2>5, <2>13 DEF Core, Stacks, StacksInv
  <2> QED
    BY <2>15, <2>16 DEF StackRight
<1> QED
  BY <1>2, <1>3

-----------------------------------------------------------------------------
(* The steps preserve the first layers *)

LEMMA SummariesStay ==
  ASSUME GithubInv, DirectoryInv, SummariesInv, Onward,
         UNCHANGED <<summary, nested>>
  PROVE  SummariesInv'
<1>1. ASSUME NEW e \in Executions, Published(e)
      PROVE  plan'[e] # None /\ rest'[e] # None /\ ResultOK(e, summary[e])'
  <2>1. PICK m : m = summary[e]
    OBVIOUS
  <2>2. plan[e] # None /\ rest[e] # None /\ ResultOK(e, m)
    BY <1>1, <2>1 DEF SummariesInv
  <2>3. ResultOK(e, m)'
    BY <2>2, ResultStays
  <2>4. m = summary'[e]
    BY <2>1
  <2> QED
    BY <2>2, <2>3, <2>4 DEF Onward, DirectoryOnward
<1>2. SourceEvidenceIsPinned'
  <2>1. \A e \in nested : e \in Executions /\ plan[e] # None /\ rest[e] # None
    BY DEF SummariesInv, SourceEvidenceIsPinned, DirectoryInv, Executions,
           Attempts, None
  <2> QED
    BY <2>1 DEF SummariesInv, SourceEvidenceIsPinned, Onward, DirectoryOnward
<1>3. \A e \in Executions : Published(e)' => Published(e)
  BY DEF Published
<1> QED
  BY <1>1, <1>2, <1>3 DEF SummariesInv

LEMMA SummariesStep ==
  ASSUME Core, NEW c \in Collectors, Collect(c)
  PROVE  SummariesInv'
<1>1. /\ GithubInv /\ DirectoryInv /\ SummariesInv /\ Stacks
      /\ GithubInv' /\ DirectoryInv' /\ Onward
  BY Advances DEF Core
<1>2. CASE UNCHANGED <<summary, nested>>
  BY <1>1, <1>2, SummariesStay
<1>3. CASE ~UNCHANGED <<summary, nested>>
  <2>1. Publish(c)
    BY <1>3 DEF Collect, Start, Enter, Describe, ReadPlan, PinSource, NoSource,
                Return, ReadRest, Recheck, directory
  <2>2. PICK e : e = This(c)
    OBVIOUS
  <2>3. PICK m : m = Top(c).result
    OBVIOUS
  <2>4. /\ summary[e] = NoSummary
        /\ summary' = [summary EXCEPT ![e] = m]
        /\ nested' = IF Depth(c) > 1 THEN nested \cup {e} ELSE nested
        /\ UNCHANGED <<plan, rest>>
    BY <1>3, <2>1, <2>2, <2>3 DEF Publish
  <2>5. /\ e \in Executions /\ FrameOK(Top(c)) /\ e = Exec(Top(c))
        /\ PlaceOK(stack[c], Depth(c)) /\ Top(c) = stack[c][Depth(c)]
        /\ Top(c).stage = "publish" /\ e = <<Top(c).run, Top(c).rec.attempt>>
    BY <1>1, <2>1, <2>2, TopOK DEF Publish, At
  <2>6. ResultOK(e, m) /\ plan[e] # None /\ rest[e] # None
    BY <2>3, <2>5 DEF FrameOK
  <2>7. ResultOK(e, m)'
    BY <1>1, <2>5, <2>6, ResultStays
  <2>8. summary' = [x \in Executions |-> summary'[x]] /\ summary'[e] = m
    BY <1>1, <2>4, <2>5 DEF SummariesInv
  <2>9. ASSUME NEW x \in Executions, Published(x)'
        PROVE  plan'[x] # None /\ rest'[x] # None /\ ResultOK(x, summary[x])'
    <3>1. CASE x = e
      BY <2>4, <2>6, <2>7, <2>8, <3>1
    <3>2. CASE x # e
      <4>1. PICK k : k = summary[x]
        OBVIOUS
      <4>2. k = summary'[x] /\ Published(x)
        BY <2>4, <2>9, <3>2, <4>1 DEF Published
      <4>3. plan[x] # None /\ rest[x] # None /\ ResultOK(x, k)
        BY <1>1, <4>1, <4>2 DEF SummariesInv
      <4>4. ResultOK(x, k)'
        BY <1>1, <4>3, ResultStays
      <4> QED
        BY <2>4, <4>2, <4>3, <4>4
    <3> QED
      BY <3>1, <3>2
  <2>10. SourceEvidenceIsPinned'
    <3>1. ASSUME NEW x \in nested' PROVE plan'[x] = x[2] /\ rest'[x] = x[2]
      <4>1. CASE x \in nested
        BY <1>1, <2>4, <4>1 DEF SummariesInv, SourceEvidenceIsPinned
      <4>2. CASE x \notin nested
        BY <2>4, <2>5, <4>2 DEF PlaceOK
      <4> QED
        BY <4>1, <4>2
    <3> QED
      BY <3>1 DEF SourceEvidenceIsPinned
  <2> QED
    BY <2>8, <2>9, <2>10 DEF SummariesInv
<1> QED
  BY <1>2, <1>3

LEMMA StackMovesAlone ==
  ASSUME StacksInv, NEW c \in Collectors, Collect(c)
  PROVE  /\ stack' = [d \in Collectors |-> stack'[d]]
         /\ \A d \in Collectors \ {c} : stack'[d] = stack[d]
<1>1. \/ UNCHANGED stack
      \/ \E t : stack' = [stack EXCEPT ![c] = t]
  BY DEF Collect, Start, Enter, Describe, ReadPlan, PinSource, NoSource, Return,
         ReadRest, Recheck, Publish, Ends, GoTo, Become
<1> QED
  BY <1>1 DEF StacksInv

LEMMA StackKept ==
  ASSUME GithubInv, DirectoryInv, GithubInv', DirectoryInv', Onward, Stacks,
         NEW d \in Collectors, stack'[d] = stack[d]
  PROVE  StackRight(d)'
<1>1. PICK s : s = stack[d]
  OBVIOUS
<1>2. IsStack(s) /\ StackOK(s) /\ s = stack'[d]
  BY <1>1 DEF Stacks, StacksInv
<1>3. StackOK(s)'
  BY <1>2, StackStays
<1> QED
  BY <1>2, <1>3 DEF StackRight

LEMMA CoreStep ==
  ASSUME Core, [Next]_vars
  PROVE  Core' /\ Onward
<1>1. /\ GithubInv /\ BasisInv /\ DirectoryInv /\ SummariesInv
      /\ Stacks /\ StacksInv
  BY DEF Core, Stacks
<1>2. ASSUME GithubInv', BasisInv', GithubOnward, UNCHANGED <<directory, memory>>
      PROVE  Core' /\ Onward
  <2>1. UNCHANGED <<runFile, pin, plan, rest, summary, nested, stack>>
    BY <1>2 DEF directory, memory
  <2>2. DirectoryInv' /\ Onward
    BY <1>1, <1>2, <2>1, DirectoryOutlasts, RestingDirectory
       DEF Onward, directory, DirectoryInv
  <2>3. SummariesInv'
    BY <1>1, <2>1, <2>2, SummariesStay
  <2>4. \A d \in Collectors : StackRight(d)'
    BY <1>1, <1>2, <2>1, <2>2, StackKept
  <2>5. Stacks'
    BY <1>1, <2>1, <2>4 DEF Stacks, StacksInv, StackRight
  <2> QED
    BY <1>2, <2>2, <2>3, <2>5 DEF Core
<1>3. CASE UNCHANGED vars
  BY <1>1, <1>2, <1>3, RestingGithub DEF vars
<1>4. CASE Environment
  <2>1. GithubInv' /\ BasisInv'
    BY <1>1, <1>4, ATick, ACreation, AnUpload, ACompletion, ARerun DEF Environment
  <2> QED
    BY <1>1, <1>2, <1>4, <2>1, EnvironmentOnward
<1>5. ASSUME NEW c \in Collectors, Collect(c)
      PROVE  Core' /\ Onward
  <2>1. GithubInv' /\ BasisInv' /\ DirectoryInv' /\ Onward
    BY <1>5, Advances
  <2>2. NoSource(c) => StackRight(c)'
    BY <1>1, EndedStack DEF NoSource
  <2>3. StackRight(c)'
    BY <1>5, <2>2, StartStack, EnterStack, DescribeStack, ReadPlanStack,
       PinSourceStack, ReturnStack, ReadRestStack, RecheckStack, PublishStack
       DEF Collect
  <2>4. \A d \in Collectors \ {c} : StackRight(d)'
    BY <1>1, <1>5, <2>1, StackMovesAlone, StackKept
  <2>5. Stacks'
    BY <1>1, <1>5, <2>3, <2>4, StackMovesAlone DEF Stacks, StacksInv, StackRight
  <2> QED
    BY <1>5, <2>1, <2>5, SummariesStep DEF Core
<1> QED
  BY <1>3, <1>4, <1>5 DEF Next

LEMMA CoreInit ==
  ASSUME Init
  PROVE  Core
<1>1. /\ MaxTime \in Nat /\ MaxAttempt \in Nat /\ 1 \in Attempts
  BY LineageAssumption DEF Attempts
<1>2. /\ DOMAIN created = {} /\ DOMAIN record = {} /\ DOMAIN content = {}
  BY DEF Init
<1>3. \A r \in Runs : files[r] = None
  BY DEF Init
<1>4. \A r \in Runs : 1 .. files[r] = {}
  BY <1>3 DEF None
<1>5. /\ clock \in 0 .. MaxTime
      /\ basis \in [Executions -> {None} \cup Attempts]
      /\ files \in [Runs -> {None} \cup Attempts]
  BY <1>1 DEF Init
<1>6. GithubInv
  BY <1>2, <1>3, <1>4, <1>5 DEF GithubInv
<1>7. BasisInv
  BY <1>2 DEF BasisInv
<1>8. DirectoryInv
  BY DEF Init, DirectoryInv
<1>9. SummariesInv
  BY DEF Init, SummariesInv, Published, SourceEvidenceIsPinned
<1>10. \A c \in Collectors : stack[c] = <<>>
  BY DEF Init
<1>11. Stacks
  <2>1. stack = [c \in Collectors |-> stack[c]]
    BY DEF Init
  <2>2. ASSUME NEW c \in Collectors PROVE StackRight(c)
    BY <1>10, EmptyStack DEF StackRight, StackOK
  <2> QED
    BY <2>1, <2>2 DEF Stacks, StacksInv, StackRight
<1> QED
  BY <1>6, <1>7, <1>8, <1>9, <1>11 DEF Core

\* Who has begun, what was there and how it ended.
MemoryTyped == found \in [Collectors -> BOOLEAN] /\ answer \in [Collectors -> Answers]

LEMMA MemoryStep ==
  ASSUME MemoryTyped, [Next]_vars
  PROVE  MemoryTyped'
<1>1. CASE UNCHANGED vars
  BY <1>1 DEF vars, memory, MemoryTyped
<1>2. CASE Environment
  BY <1>2 DEF Environment, Tick, Create, Upload, Complete, Rerun, memory, MemoryTyped
<1>3. ASSUME NEW c \in Collectors, Collect(c)
      PROVE  MemoryTyped'
  <2>1. \/ UNCHANGED answer
        \/ \E a \in Answers : answer' = [answer EXCEPT ![c] = a]
    BY <1>3 DEF Collect, Start, Enter, Describe, ReadPlan, PinSource, NoSource, Return,
         ReadRest, Recheck, Publish, Ends, Answers
  <2>2. \/ UNCHANGED found
        \/ \E b \in BOOLEAN : found' = [found EXCEPT ![c] = b]
    BY <1>3, Zenon DEF Collect, Start, Enter, Describe, ReadPlan, PinSource, NoSource,
         Return, ReadRest, Recheck, Publish
  <2>3. found' \in [Collectors -> BOOLEAN]
    BY <2>2 DEF MemoryTyped
  <2>4. answer' \in [Collectors -> Answers]
    BY <2>1 DEF MemoryTyped
  <2> QED
    BY <2>3, <2>4 DEF MemoryTyped
<1> QED
  BY <1>1, <1>2, <1>3 DEF Next

-----------------------------------------------------------------------------
(* Paths *)

LEMMA PathStays ==
  ASSUME Onward, NEW n \in Nat, NEW p \in [1 .. n -> Executions], n >= 1, Path(p, n)
  PROVE  Path(p, n)'
<1>1. \A i \in 1 .. n : Published(p[i]) /\ summary'[p[i]] = summary[p[i]]
  BY DEF Path, Published, Onward, DirectoryOnward
<1>2. n \in 1 .. n
  OBVIOUS
<1> QED
  BY <1>1, <1>2 DEF Path, Published, Source

LEMMA LeadsStays ==
  ASSUME Onward, NEW e, NEW s, NEW d, Leads(e, s, d)
  PROVE  Leads(e, s, d)'
<1>1. MaxLineage \in Nat
  BY LineageAssumption
<1>2. PICK n \in 1 .. MaxLineage : \E p \in [1 .. n -> Executions] :
        Fits(p, n, e, s, d)
  BY DEF Leads
<1>p. PICK p \in [1 .. n -> Executions] :
        /\ Path(p, n)
        /\ p[1] = e
        /\ d + n <= MaxLineage
        /\ \A i \in 1 .. n : \A j \in 1 .. d : p[i][1] # s[j].run
  BY <1>2 DEF Fits
<1>3. Path(p, n)'
  BY <1>p, <1>1, <1>2, PathStays
<1> QED
  BY <1>p, <1>2, <1>3 DEF Leads, Fits

\* Fewer frames, or others of the same runs, are no obstacle.
LEMMA LeadsWithin ==
  ASSUME NEW e, NEW s, NEW d \in Nat, Leads(e, s, d)',
         NEW t, NEW k \in 0 .. d, \A j \in 1 .. k : t[j].run = s[j].run
  PROVE  Leads(e, t, k)'
<1>1. MaxLineage \in Nat
  BY LineageAssumption
<1>2. PICK n \in 1 .. MaxLineage : \E p \in [1 .. n -> Executions] :
        Fits(p, n, e, s, d)'
  BY DEF Leads
<1>p. PICK p \in [1 .. n -> Executions] :
        /\ Path(p, n)'
        /\ p[1] = e
        /\ d + n <= MaxLineage
        /\ \A i \in 1 .. n : \A j \in 1 .. d : p[i][1] # s[j].run
  BY <1>2 DEF Fits
<1>3. k + n <= MaxLineage
  BY <1>p, <1>1, <1>2
<1>4. \A i \in 1 .. n : \A j \in 1 .. k : p[i][1] # t[j].run
  BY <1>p, <1>2
<1> QED
  BY <1>p, <1>2, <1>3, <1>4 DEF Leads, Fits

LEMMA LeadsNowhere ==
  ASSUME NEW e \in Executions, Published(e)', summary'[e].link = NoLink,
         NEW s, NEW d \in Nat, d < MaxLineage,
         \A j \in 1 .. d : s[j].run # e[1]
  PROVE  Leads(e, s, d)'
<1>1. MaxLineage \in Nat
  BY LineageAssumption
<1>2. PICK p : p = [i \in 1 .. 1 |-> e]
  OBVIOUS
<1>3. p \in [1 .. 1 -> Executions] /\ p[1] = e /\ \A i \in 1 .. 1 : i = 1
  BY <1>2
<1>4. Path(p, 1)'
  BY <1>3 DEF Path
<1>5. 1 \in 1 .. MaxLineage /\ d + 1 <= MaxLineage
  BY <1>1
<1>6. \A i \in 1 .. 1 : \A j \in 1 .. d : p[i][1] # s[j].run
  BY <1>3
<1> QED
  BY <1>3, <1>4, <1>5, <1>6 DEF Leads, Fits

LEMMA LeadsFurther ==
  ASSUME NEW e \in Executions, Published(e)', summary'[e].link # NoLink,
         NEW s, NEW d \in Nat, \A j \in 1 .. d : s[j].run # e[1],
         s[d + 1].run = e[1],
         NEW x, Source(e)' = x, Leads(x, s, d + 1)'
  PROVE  Leads(e, s, d)'
<1>1. MaxLineage \in Nat
  BY LineageAssumption
<1>2. PICK n \in 1 .. MaxLineage : \E p \in [1 .. n -> Executions] :
        Fits(p, n, x, s, d + 1)'
  BY DEF Leads
<1>p. PICK p \in [1 .. n -> Executions] :
        /\ Path(p, n)'
        /\ p[1] = x
        /\ (d + 1) + n <= MaxLineage
        /\ \A i \in 1 .. n : \A j \in 1 .. d + 1 : p[i][1] # s[j].run
  BY <1>2 DEF Fits
<1>3. PICK q : q = [i \in 1 .. n + 1 |-> IF i = 1 THEN e ELSE p[i - 1]]
  OBVIOUS
<1>4. n \in Nat /\ n >= 1 /\ n + 1 \in 1 .. MaxLineage /\ d + (n + 1) <= MaxLineage
  BY <1>p, <1>1, <1>2
<1>5. ASSUME NEW i \in 1 .. n + 1
      PROVE  \/ i = 1 /\ q[i] = e
             \/ i # 1 /\ i - 1 \in 1 .. n /\ q[i] = p[i - 1]
  BY <1>3, <1>4
<1>6. q \in [1 .. n + 1 -> Executions] /\ q[1] = e /\ q[n + 1] = p[n] /\ q[2] = x
  <2>1. \A i \in 1 .. n + 1 : q[i] \in Executions
    BY <1>5
  <2>2. q \in [1 .. n + 1 -> Executions]
    BY <1>3, <2>1
  <2> QED
    BY <1>p, <1>2, <1>3, <1>4, <2>2
<1>7. \A i \in 1 .. n : p[i][1] # e[1]
  <2>1. d + 1 \in 1 .. d + 1
    OBVIOUS
  <2> QED
    BY <1>p, <1>2, <2>1
<1>8. ASSUME NEW i \in 1 .. n + 1
      PROVE  /\ Published(q[i])'
             /\ i < n + 1 => summary'[q[i]].link # NoLink /\ q[i + 1] = Source(q[i])'
             /\ \A j \in 1 .. n + 1 : q[i][1] = q[j][1] => i = j
  <2>1. CASE i = 1
    <3>1. q[i] = e /\ q[i + 1] = x
      BY <1>6, <2>1
    <3>2. \A j \in 1 .. n + 1 : q[i][1] = q[j][1] => i = j
      BY <1>5, <1>7, <2>1, <3>1
    <3>3. Source(q[i])' = x
      BY <3>1 DEF Source
    <3> QED
      BY <3>1, <3>2, <3>3 DEF Published
  <2>2. CASE i # 1
    <3>1. PICK k : k = i - 1
      OBVIOUS
    <3>2. k \in 1 .. n /\ i = k + 1 /\ q[i] = p[k] /\ (i < n + 1 => k < n)
      BY <1>4, <1>5, <2>2, <3>1
    <3>3. k < n => q[i + 1] = p[k + 1]
      BY <1>3, <1>4, <3>2
    <3>4. /\ Published(p[k])'
          /\ k < n => summary'[p[k]].link # NoLink /\ p[k + 1] = Source(p[k])'
          /\ \A j \in 1 .. n : p[k][1] = p[j][1] => k = j
      BY <1>p, <1>2, <3>2 DEF Path
    <3>5. ASSUME NEW j \in 1 .. n + 1, q[i][1] = q[j][1]
          PROVE  i = j
      <4>1. j # 1
        BY <1>5, <1>7, <3>2, <3>5
      <4>2. j - 1 \in 1 .. n /\ q[j] = p[j - 1]
        BY <1>5, <4>1
      <4>3. k = j - 1
        BY <3>2, <3>4, <3>5, <4>2
      <4> QED
        BY <1>4, <3>2, <4>3
    <3>6. Published(q[i])' /\ Source(q[i])' = Source(p[k])'
      BY <3>2, <3>4 DEF Published, Source
    <3> QED
      BY <3>2, <3>3, <3>4, <3>5, <3>6
  <2> QED
    BY <2>1, <2>2
<1>9. summary'[q[n + 1]].link = NoLink
  BY <1>p, <1>2, <1>6 DEF Path
<1>10. Path(q, n + 1)'
  BY <1>8, <1>9 DEF Path
<1>11. \A i \in 1 .. n + 1 : \A j \in 1 .. d : q[i][1] # s[j].run
  BY <1>p, <1>2, <1>5
<1> QED
  BY <1>4, <1>6, <1>10, <1>11 DEF Leads, Fits

-----------------------------------------------------------------------------
(* The top of a stack leads somewhere *)

LEMMA TopLeadsStays ==
  ASSUME Onward, NEW s, TopLeads(s)
  PROVE  TopLeads(s)'
<1>1. PICK d : d = Len(s)
  OBVIOUS
<1>2. PICK top : top = s[d]
  OBVIOUS
<1>3. PICK e : e = Exec(top)
  OBVIOUS
<1>4. PICK x : x = <<SourceOf[top.run], top.link.attempt>>
  OBVIOUS
<1>5. /\ Leads(e, s, d - 1) => Leads(e, s, d - 1)'
      /\ Leads(x, s, d) => Leads(x, s, d)'
  BY LeadsStays
<1>6. Exec(top)' = e
  BY <1>3 DEF Exec
<1> QED
  BY <1>1, <1>2, <1>3, <1>4, <1>5, <1>6 DEF TopLeads

LEMMA NothingToLead ==
  ASSUME NEW t,
         t # <<>> =>
           \/ t[Len(t)].stage \notin {"return", "rest", "recheck", "publish"}
           \/ t[Len(t)].stage # "return" /\ t[Len(t)].link = NoLink
  PROVE  TopLeads(t)'
BY DEF TopLeads

\* One of the frames of a stack and those under it.
LEMMA FramesUnder ==
  ASSUME Core, NEW c \in Collectors, stack[c] # <<>>
  PROVE  LET s == stack[c] IN
           /\ IsStack(s) /\ Len(s) \in Nat /\ Len(s) >= 1
           /\ Depth(c) = Len(s) /\ Top(c) = s[Len(s)]
           /\ \A i \in 1 .. Len(s) : FrameOK(s[i]) /\ PlaceOK(s, i)
BY StackTyped DEF Core, Stacks, StacksInv, StackOK, Depth, Top

LEMMA TopBecomes ==
  ASSUME Core, NEW c \in Collectors, stack[c] # <<>>, NEW f, Become(c, f),
         NEW t, t = [stack[c] EXCEPT ![Depth(c)] = f]
  PROVE  /\ stack'[c] = t /\ Len(t) = Depth(c) /\ t[Depth(c)] = f /\ t # <<>>
         /\ \A i \in 1 .. Depth(c) - 1 : t[i] = stack[c][i]
<1>1. stack'[c] = t
  BY DEF Become, Core, Stacks, StacksInv
<1>2. PICK s : s = stack[c]
  OBVIOUS
<1>3. IsStack(s) /\ s # <<>> /\ Depth(c) = Len(s) /\ Len(s) \in Nat /\ Len(s) >= 1
  BY <1>2, FramesUnder
<1>4. /\ Len(t) = Len(s) /\ t[Len(s)] = f
      /\ \A i \in 1 .. Len(s) - 1 : t[i] = s[i]
  BY <1>2, <1>3, BecomeFrame
<1>5. t # <<>>
  BY <1>3, <1>4
<1> QED
  BY <1>1, <1>2, <1>3, <1>4, <1>5

\* An action that ends, or makes the top a frame with nothing to lead to.
LEMMA IdleTop ==
  ASSUME Core, NEW c \in Collectors, stack[c] # <<>>,
         \/ \E a : Ends(c, a)
         \/ \E f : /\ Become(c, f)
                   /\ \/ f.stage \notin {"return", "rest", "recheck", "publish"}
                      \/ f.stage # "return" /\ f.link = NoLink
  PROVE  TopLeads(stack[c])'
<1>1. PICK t : t = stack'[c]
  OBVIOUS
<1>2. CASE \E a : Ends(c, a)
  <2>1. t = <<>>
    BY <1>1, <1>2 DEF Ends, Core, Stacks, StacksInv
  <2> QED
    BY <1>1, <2>1, NothingToLead
<1>3. CASE \E f : /\ Become(c, f)
                  /\ \/ f.stage \notin {"return", "rest", "recheck", "publish"}
                     \/ f.stage # "return" /\ f.link = NoLink
  <2>1. PICK f : /\ Become(c, f)
                 /\ \/ f.stage \notin {"return", "rest", "recheck", "publish"}
                    \/ f.stage # "return" /\ f.link = NoLink
    BY <1>3
  <2>2. PICK u : u = [stack[c] EXCEPT ![Depth(c)] = f]
    OBVIOUS
  <2>3. t = u /\ t[Len(t)] = f
    BY <1>1, <2>1, <2>2, TopBecomes
  <2>4. TopLeads(t)'
    BY <2>1, <2>3, NothingToLead
  <2> QED
    BY <1>1, <2>4
<1> QED
  BY <1>2, <1>3

LEMMA EnterLeads ==
  ASSUME Core, NEW c \in Collectors, Enter(c)
  PROVE  TopLeads(stack[c])'
<1>1. At(c, "enter") /\ stack[c] # <<>>
  BY DEF Enter, At
<1>2. CASE Ends(c, "failed")
  BY <1>1, <1>2, IdleTop
<1>3. CASE ~Ends(c, "failed")
  <2> DEFINE x == IF summary[This(c)] = NoSummary THEN "describe"
                  ELSE IF summary[This(c)].link = NoLink THEN "return"
                  ELSE "validate"
  <2>1. PICK f : f = [Top(c) EXCEPT !.stage = x]
    OBVIOUS
  <2>2. MayEnter(c) /\ Become(c, f) /\ summary' = summary
    BY <1>3, <2>1 DEF Enter, GoTo, directory
  <2>3. FrameOK(Top(c)) /\ This(c) = Exec(Top(c)) /\ This(c) \in Executions
    BY <1>1, TopOK DEF Core
  <2>4. f.stage = x /\ f.run = Top(c).run /\ f.rec = Top(c).rec
    BY <2>1, <2>3 DEF FrameOK
  <2>5. CASE f.stage = "return"
    <3>1. PICK e : e = This(c)
      OBVIOUS
    <3>2. /\ e \in Executions /\ Published(e)' /\ summary'[e].link = NoLink
          /\ e = Exec(f) /\ e[1] = Run(c)
      BY <2>2, <2>3, <2>4, <2>5, <3>1 DEF Published, Exec, This
    <3>3. PICK s : s = stack[c]
      OBVIOUS
    <3>4. PICK n : n = Depth(c)
      OBVIOUS
    <3>5. n \in Nat /\ n >= 1
      BY <1>1, <3>4, FramesUnder
    <3>6. MaxLineage \in Nat
      BY LineageAssumption
    <3>7. /\ n - 1 \in Nat /\ n - 1 < MaxLineage
          /\ \A j \in 1 .. n - 1 : s[j].run # e[1]
      BY <2>2, <3>2, <3>3, <3>4, <3>5, <3>6 DEF MayEnter, Lineage
    <3>8. Leads(e, s, n - 1)'
      BY <3>2, <3>7, LeadsNowhere
    <3>9. PICK t : t = [s EXCEPT ![n] = f]
      OBVIOUS
    <3>10. /\ stack'[c] = t /\ Len(t) = n /\ t[n] = f
           /\ \A i \in 1 .. n - 1 : t[i] = s[i]
      BY <1>1, <2>2, <3>3, <3>4, <3>9, TopBecomes
    <3>11. Leads(e, t, n - 1)'
      <4>1. n - 1 \in 0 .. n - 1 /\ \A i \in 1 .. n - 1 : t[i].run = s[i].run
        BY <3>5, <3>10
      <4> QED
        BY <3>7, <3>8, <4>1, LeadsWithin
    <3>12. TopLeads(t)'
      <4>1. Exec(f)' = e
        BY <3>2 DEF Exec
      <4> QED
        BY <2>5, <3>10, <3>11, <4>1 DEF TopLeads
    <3> QED
      BY <3>10, <3>12
  <2>6. CASE f.stage # "return"
    BY <1>1, <2>2, <2>4, <2>6, IdleTop
  <2> QED
    BY <2>5, <2>6
<1> QED
  BY <1>2, <1>3

LEMMA EarlyLeads ==
  ASSUME Core, NEW c \in Collectors,
         Start(c) \/ Describe(c) \/ ReadPlan(c) \/ PinSource(c) \/ NoSource(c)
  PROVE  TopLeads(stack[c])'
<1>1. CASE Start(c)
  <2>1. PICK f : f.stage = "enter" /\ stack'[c] = <<f>>
    <3>1. PICK r \in DOMAIN record : stack' = [stack EXCEPT ![c] = <<Frame(r, record[r])>>]
      BY <1>1 DEF Start
    <3> QED
      BY <3>1 DEF Core, Stacks, StacksInv, Frame
  <2>2. PICK t : t = <<f>>
    OBVIOUS
  <2>3. Len(t) = 1 /\ t[1] = f
    BY <2>2, OneFrame
  <2>4. TopLeads(t)'
    BY <2>1, <2>3, NothingToLead
  <2> QED
    BY <2>1, <2>2, <2>4
<1>2. CASE NoSource(c)
  BY <1>2, IdleTop DEF NoSource, At
<1>3. CASE Describe(c)
  <2>1. stack[c] # <<>> /\ FrameOK(Top(c)) /\ (Ends(c, "failed") \/ GoTo(c, "plan"))
    BY <1>3, TopOK DEF Describe, At, Core
  <2>2. GoTo(c, "plan") =>
          \E f : Become(c, f) /\ f.stage \notin {"return", "rest", "recheck", "publish"}
    <3>1. [Top(c) EXCEPT !.stage = "plan"].stage = "plan"
      BY <2>1 DEF FrameOK
    <3> QED
      BY <3>1 DEF GoTo
  <2> QED
    BY <2>1, <2>2, IdleTop
<1>4. CASE ReadPlan(c)
  <2> DEFINE x == IF SourceOf[Run(c)] = NoRun THEN "rest" ELSE "source"
  <2>1. /\ stack[c] # <<>> /\ FrameOK(Top(c)) /\ Top(c).stage = "plan"
        /\ Ends(c, "failed") \/ GoTo(c, x)
    BY <1>4, TopOK DEF ReadPlan, At, Core
  <2>2. GoTo(c, x) => \E f : Become(c, f) /\ f.stage \in {"rest", "source"} /\ f.link = NoLink
    <3>1. PICK f : f = [Top(c) EXCEPT !.stage = x]
      OBVIOUS
    <3>2. f.stage \in {"rest", "source"} /\ f.link = NoLink
      BY <2>1, <3>1 DEF FrameOK
    <3> QED
      BY <3>1, <3>2 DEF GoTo
  <2> QED
    BY <2>1, <2>2, IdleTop
<1>5. CASE PinSource(c)
  <2>1. stack[c] # <<>>
    BY <1>5 DEF PinSource, At
  <2>2. CASE Ends(c, "failed")
    BY <2>1, <2>2, IdleTop
  <2>3. CASE ~Ends(c, "failed")
    <3>1. PICK s : s = stack[c]
      OBVIOUS
    <3>2. PICK f : f.stage = "enter" /\ stack'[c] = Append(s, f)
      BY <1>5, <2>3, <3>1 DEF PinSource, Frame, Core, Stacks, StacksInv
    <3>3. PICK t : t = Append(s, f)
      OBVIOUS
    <3>4. t[Len(t)] = f
      BY <2>1, <3>1, <3>3, FramesUnder, PushFrame
    <3>5. TopLeads(t)'
      BY <3>2, <3>4, NothingToLead
    <3> QED
      BY <3>2, <3>3, <3>5
  <2> QED
    BY <2>2, <2>3
<1> QED
  BY <1>1, <1>2, <1>3, <1>4, <1>5

\* A frame with a link goes on with it.
LEMMA OnwardLeads ==
  ASSUME Core, Onward, NEW c \in Collectors, TopLeads(stack[c]),
         ReadRest(c) \/ Recheck(c)
  PROVE  TopLeads(stack[c])'
<1>1. /\ stack[c] # <<>> /\ FrameOK(Top(c))
      /\ Top(c).stage \in {"rest", "recheck"}
  BY TopOK DEF ReadRest, Recheck, At, Core
<1>2. CASE Ends(c, "failed")
  BY <1>1, <1>2, IdleTop
<1>3. CASE ~Ends(c, "failed")
  <2>1. PICK f : /\ Become(c, f) /\ f.stage \in {"recheck", "publish"}
                 /\ f.run = Top(c).run /\ f.link = Top(c).link
    <3>1. PICK g : g = Top(c)
      OBVIOUS
    <3>2. \/ \E m : Become(c, [g EXCEPT !.stage = "recheck", !.result = m])
          \/ Become(c, [g EXCEPT !.stage = "publish"])
      BY <1>3, <3>1 DEF ReadRest, Recheck, GoTo
    <3>3. CASE \E m : Become(c, [g EXCEPT !.stage = "recheck", !.result = m])
      <4>1. PICK m : Become(c, [g EXCEPT !.stage = "recheck", !.result = m])
        BY <3>3
      <4>2. PICK f : f = [g EXCEPT !.stage = "recheck", !.result = m]
        OBVIOUS
      <4>3. f.stage = "recheck" /\ f.run = g.run /\ f.link = g.link
        BY <1>1, <3>1, <4>2 DEF FrameOK
      <4> QED
        BY <3>1, <4>1, <4>2, <4>3
    <3>4. CASE Become(c, [g EXCEPT !.stage = "publish"])
      <4>1. PICK f : f = [g EXCEPT !.stage = "publish"]
        OBVIOUS
      <4>2. f.stage = "publish" /\ f.run = g.run /\ f.link = g.link
        BY <1>1, <3>1, <4>1 DEF FrameOK
      <4> QED
        BY <3>1, <3>4, <4>1, <4>2
    <3> QED
      BY <3>2, <3>3, <3>4
  <2>2. CASE f.link = NoLink
    BY <1>1, <2>1, <2>2, IdleTop
  <2>3. CASE f.link # NoLink
    <3>1. PICK s : s = stack[c]
      OBVIOUS
    <3>2. PICK n : n = Depth(c)
      OBVIOUS
    <3>3. PICK x : x = <<SourceOf[f.run], f.link.attempt>>
      OBVIOUS
    <3>4. s # <<>> /\ n \in Nat /\ n >= 1 /\ n = Len(s) /\ Top(c) = s[n]
      BY <1>1, <3>1, <3>2, FramesUnder
    <3>5. Leads(x, s, n)
      BY <1>1, <2>1, <2>3, <3>1, <3>3, <3>4 DEF TopLeads
    <3>6. Leads(x, s, n)'
      BY <3>5, LeadsStays
    <3>7. PICK t : t = [s EXCEPT ![n] = f]
      OBVIOUS
    <3>8. /\ stack'[c] = t /\ Len(t) = n /\ t[n] = f
          /\ \A i \in 1 .. n - 1 : t[i] = s[i]
      BY <1>1, <2>1, <3>1, <3>2, <3>7, TopBecomes
    <3>9. n \in 0 .. n /\ \A i \in 1 .. n : t[i].run = s[i].run
      BY <2>1, <3>4, <3>8
    <3>10. Leads(x, t, n)'
      BY <3>4, <3>6, <3>9, LeadsWithin
    <3>11. TopLeads(t)'
      BY <2>1, <3>3, <3>8, <3>10 DEF TopLeads
    <3> QED
      BY <3>8, <3>11
  <2> QED
    BY <2>2, <2>3
<1> QED
  BY <1>2, <1>3

LEMMA PublishedLeads ==
  ASSUME Core, Onward, NEW c \in Collectors, TopLeads(stack[c]), Publish(c),
         ~Ends(c, "failed"),
         NEW e, e = This(c), NEW s, s = stack[c], NEW n, n = Depth(c)
  PROVE  e \in Executions /\ n \in Nat /\ n >= 1 /\ Leads(e, s, n - 1)'
<1>1. At(c, "publish") /\ stack[c] # <<>>
  BY DEF Publish, At
<1>2. PICK top : top = Top(c)
  OBVIOUS
<1>3. PICK m : m = top.result
  OBVIOUS
<1>4. /\ n \in Nat /\ n >= 1 /\ top = s[n] /\ n = Len(s) /\ s # <<>>
      /\ FrameOK(top) /\ PlaceOK(s, n)
  BY <1>1, <1>2, FramesUnder
<1>5. /\ e \in Executions /\ e = Exec(top) /\ e[1] = top.run /\ top.stage = "publish"
  BY <1>1, <1>2, TopOK DEF Core, At
<1>6. /\ ResultOK(e, m)
      /\ m.link # NoLink => top.link # NoLink
      /\ \/ top.link = NoLink
         \/ LinkOK(e, top.link)
  BY <1>3, <1>4, <1>5 DEF FrameOK
<1>7. summary'[e] = m
  <2>1. \/ summary' = [summary EXCEPT ![e] = m]
        \/ summary[e] = m /\ summary' = summary
    BY <1>2, <1>3 DEF Publish
  <2> QED
    BY <1>5, <2>1 DEF Core, SummariesInv
<1>8. Published(e)'
  BY <1>6, <1>7, ResultIsSummary DEF Published
<1>9. /\ n <= MaxLineage /\ MaxLineage \in Nat
      /\ \A j \in 1 .. n - 1 : s[j].run # e[1]
  BY <1>4, <1>5, LineageAssumption DEF PlaceOK
<1>10. PICK d : d = n - 1
  OBVIOUS
<1>11. d \in Nat /\ d + 1 = n /\ d < MaxLineage /\ \A j \in 1 .. d : s[j].run # e[1]
  <2>1. n \in Nat /\ n >= 1
    BY <1>4
  <2> QED
    BY <1>9, <1>10, <2>1
<1>12. CASE m.link = NoLink
  <2>1. Leads(e, s, d)'
    BY <1>5, <1>7, <1>8, <1>12, <1>11, LeadsNowhere
  <2> QED
    BY <1>4, <1>5, <1>10, <2>1
<1>13. CASE m.link # NoLink
  <2>1. PICK x : x = <<SourceOf[top.run], top.link.attempt>>
    OBVIOUS
  <2>2. Leads(x, s, n)
    BY <1>4, <1>5, <1>6, <1>13, <2>1 DEF TopLeads
  <2>3. Leads(x, s, n)'
    BY <2>2, LeadsStays
  <2>4. top.link.attempt = m.link.attempt
    BY <1>6, <1>13 DEF ResultOK, LinkOK
  <2>5. Source(e)' = x
    BY <1>5, <1>7, <2>1, <2>4 DEF Source
  <2>6. s[n].run = e[1]
    BY <1>4, <1>5
  <2>7. s[d + 1].run = e[1] /\ Leads(x, s, d + 1)'
    BY <1>11, <2>3, <2>6
  <2>8. Leads(e, s, d)'
    BY <1>5, <1>7, <1>8, <1>13, <1>11, <2>5, <2>7, LeadsFurther
  <2> QED
    BY <1>4, <1>5, <1>10, <2>8
<1> QED
  BY <1>12, <1>13

LEMMA PublishLeads ==
  ASSUME Core, Onward, NEW c \in Collectors, TopLeads(stack[c]), Publish(c)
  PROVE  TopLeads(stack[c])'
<1>1. stack[c] # <<>> /\ FrameOK(Top(c)) /\ This(c) = Exec(Top(c))
  BY TopOK DEF Publish, At, Core
<1>2. CASE Ends(c, "failed")
  BY <1>1, <1>2, IdleTop
<1>3. CASE ~Ends(c, "failed")
  <2>1. PICK e : e = This(c)
    OBVIOUS
  <2>2. PICK s : s = stack[c]
    OBVIOUS
  <2>3. PICK n : n = Depth(c)
    OBVIOUS
  <2>4. n \in Nat /\ n >= 1 /\ Leads(e, s, n - 1)'
    BY <1>3, <2>1, <2>2, <2>3, PublishedLeads
  <2>5. PICK f : f = [Top(c) EXCEPT !.stage = "return"]
    OBVIOUS
  <2>6. Become(c, f) /\ f.stage = "return" /\ Exec(f) = e
    BY <1>1, <1>3, <2>1, <2>5 DEF Publish, GoTo, FrameOK, Exec
  <2>7. PICK t : t = [s EXCEPT ![n] = f]
    OBVIOUS
  <2>8. /\ stack'[c] = t /\ Len(t) = n /\ t[n] = f
        /\ \A i \in 1 .. n - 1 : t[i] = s[i]
    BY <1>1, <2>2, <2>3, <2>6, <2>7, TopBecomes
  <2>9. n - 1 \in Nat /\ n - 1 \in 0 .. n - 1 /\ \A i \in 1 .. n - 1 : t[i].run = s[i].run
    BY <2>4, <2>8
  <2>10. Leads(e, t, n - 1)'
    BY <2>4, <2>9, LeadsWithin
  <2>11. Exec(f)' = e
    BY <2>6 DEF Exec
  <2>12. TopLeads(t)'
    BY <2>6, <2>8, <2>10, <2>11 DEF TopLeads
  <2> QED
    BY <2>8, <2>12
<1> QED
  BY <1>2, <1>3

LEMMA ReturnLeads ==
  ASSUME Core, Onward, NEW c \in Collectors, TopLeads(stack[c]), Return(c)
  PROVE  TopLeads(stack[c])'
<1>1. At(c, "return") /\ stack[c] # <<>>
  BY DEF Return, At
<1>2. CASE \E a : Ends(c, a)
  BY <1>1, <1>2, IdleTop
<1>3. CASE ~\E a : Ends(c, a)
  <2>1. PICK s : s = stack[c]
    OBVIOUS
  <2>2. PICK n : n = Len(s) - 1
    OBVIOUS
  <2>3. PICK b : b = s[n]
    OBVIOUS
  <2>4. PICK link : link = LinkTo(Run(c), This(c), "partial")
    OBVIOUS
  <2>5. PICK x : x = This(c)
    OBVIOUS
  <2>6. /\ Depth(c) > 1 /\ Depth(c) = Len(s) /\ Len(s) = n + 1 /\ n \in Nat /\ n >= 1
        /\ IsStack(s) /\ Len(s) > 1 /\ Top(c) = s[Len(s)]
        /\ PlaceOK(s, n)
    BY <1>1, <1>3, <2>1, <2>2, FramesUnder DEF Return
  <2>7. PICK f : /\ \/ b.stage = "source" /\ f = [b EXCEPT !.stage = "rest", !.link = link]
                    \/ /\ b.stage = "validate" /\ f = [b EXCEPT !.stage = "return"]
                       /\ summary[Exec(b)].link
                            = [link EXCEPT !.mode = summary[Exec(b)].link.mode]
                 /\ stack' = [stack EXCEPT ![c] =
                      Append(SubSeq(s, 1, Len(s) - 2), f)]
    BY <1>3, <2>1, <2>2, <2>3, <2>4, <2>6 DEF Return, Exec
  <2>8. PICK t : t = Append(SubSeq(s, 1, Len(s) - 2), f)
    OBVIOUS
  <2>9. /\ stack'[c] = t /\ Len(t) = n /\ t[n] = f
        /\ \A i \in 1 .. n - 1 : t[i] = s[i]
    <3>1. stack'[c] = t
      BY <2>7, <2>8 DEF Core, Stacks, StacksInv
    <3>2. Len(t) = Len(s) - 1 /\ t[Len(s) - 1] = f /\ \A i \in 1 .. Len(s) - 2 : t[i] = s[i]
      BY <2>6, <2>8, PopFrame
    <3>3. Len(s) - 1 = n /\ Len(s) - 2 = n - 1
      BY <2>6
    <3> QED
      BY <3>1, <3>2, <3>3
  <2>10. PICK e : e = Exec(b)
    OBVIOUS
  <2>11. /\ FrameOK(b) /\ e \in Executions /\ e[1] = b.run
         /\ LinkOK(e, link) /\ <<SourceOf[b.run], link.attempt>> = x
    <3>1. Depth(c) - 1 = n
      BY <2>6
    <3>2. FrameOK(b) /\ e \in Executions /\ LinkOK(e, link)
          /\ <<SourceOf[b.run], link.attempt>> = x
      BY <1>1, <2>1, <2>3, <2>4, <2>5, <2>6, <2>10, <3>1, LinkReturned
    <3> QED
      BY <2>10, <3>2 DEF Exec
  <2>12. f.run = b.run /\ f.rec = b.rec /\ Exec(f) = e
    BY <2>7, <2>10, <2>11 DEF FrameOK, Exec
  <2>13. Leads(x, s, n)'
    <3>1. Exec(Top(c)) = x /\ Top(c).stage = "return"
      BY <1>1, <2>5, TopOK DEF At, Core
    <3>2. PICK d : d = Len(s)
      OBVIOUS
    <3>3. Leads(x, s, d - 1) /\ d - 1 = n
      BY <1>1, <2>1, <2>6, <3>1, <3>2 DEF TopLeads
    <3>4. Leads(x, s, n)
      BY <3>3
    <3> QED
      BY <3>4, LeadsStays
  <2>14. CASE b.stage = "source"
    <3>1. f.stage = "rest" /\ f.link = link
      BY <2>7, <2>11, <2>14 DEF FrameOK
    <3>2. \A i \in 1 .. n : t[i].run = s[i].run
      BY <2>3, <2>6, <2>9, <2>12
    <3>3. Leads(x, t, n)'
      <4>1. n \in 0 .. n
        BY <2>6
      <4> QED
        BY <2>6, <2>13, <3>2, <4>1, LeadsWithin
    <3>4. TopLeads(t)'
      BY <2>9, <2>11, <2>12, <3>1, <3>3 DEF TopLeads
    <3> QED
      BY <2>9, <3>4
  <2>15. CASE b.stage = "validate"
    <3>1. /\ f.stage = "return"
          /\ summary[e].link = [link EXCEPT !.mode = summary[e].link.mode]
          /\ Published(e) /\ summary[e].link # NoLink
      BY <2>7, <2>10, <2>11, <2>15 DEF FrameOK
    <3>2. summary[e].link.attempt = link.attempt
      BY <2>11, <3>1 DEF LinkOK
    <3>3. Published(e)' /\ summary'[e] = summary[e]
      BY <2>11, <3>1 DEF Published, Onward, DirectoryOnward
    <3>4. Source(e)' = x
      BY <2>11, <3>2, <3>3 DEF Source
    <3>5. PICK d : d = n - 1
      OBVIOUS
    <3>6. /\ d \in Nat /\ d + 1 = n /\ s[d + 1].run = e[1]
          /\ \A j \in 1 .. d : s[j].run # e[1]
      BY <2>3, <2>6, <2>11, <2>15, <3>5 DEF PlaceOK
    <3>7. Leads(x, s, d + 1)'
      BY <2>13, <3>6
    <3>8. Leads(e, s, d)'
      BY <2>11, <3>1, <3>3, <3>4, <3>6, <3>7, LeadsFurther
    <3>9. Leads(e, t, d)'
      <4>1. d \in 0 .. d /\ \A i \in 1 .. d : t[i].run = s[i].run
        BY <2>9, <3>5, <3>6
      <4> QED
        BY <3>6, <3>8, <4>1, LeadsWithin
    <3>10. TopLeads(t)'
      <4>1. Exec(f)' = e
        BY <2>12 DEF Exec
      <4>2. t # <<>> => t[Len(t)] = f /\ Len(t) - 1 = d
        BY <2>9, <3>5
      <4> QED
        BY <3>1, <3>9, <4>1, <4>2 DEF TopLeads
    <3> QED
      BY <2>9, <3>10
  <2> QED
    BY <2>7, <2>14, <2>15
<1> QED
  BY <1>2, <1>3

LEMMA PathsStep ==
  ASSUME Core, PathsInv, [Next]_vars
  PROVE  PathsInv'
<1>1. Core' /\ Onward
  BY CoreStep
<1>2. ASSUME NEW e \in Executions, Published(e)
      PROVE  Leads(e, <<>>, 0)'
  <2>1. PICK s : s = <<>>
    OBVIOUS
  <2>2. Leads(e, s, 0)
    BY <1>2, <2>1 DEF PathsInv
  <2>3. Leads(e, s, 0)'
    BY <1>1, <2>2, LeadsStays
  <2> QED
    BY <2>1, <2>3
<1>3. ASSUME NEW c \in Collectors, stack'[c] = stack[c]
      PROVE  TopLeads(stack[c])'
  <2>1. PICK s : s = stack[c]
    OBVIOUS
  <2>2. TopLeads(s)'
    BY <1>1, <2>1, TopLeadsStays DEF PathsInv
  <2> QED
    BY <1>3, <2>1, <2>2
<1>4. ASSUME UNCHANGED <<summary, stack>>
      PROVE  PathsInv'
  BY <1>2, <1>3, <1>4 DEF PathsInv, Published
<1>5. CASE UNCHANGED vars
  BY <1>4, <1>5 DEF vars, directory, memory
<1>6. CASE Environment
  BY <1>4, <1>6, EnvironmentOnward DEF Core, directory, memory
<1>7. ASSUME NEW c \in Collectors, Collect(c)
      PROVE  PathsInv'
  <2>1. TopLeads(stack[c])'
    BY <1>1, <1>7, EarlyLeads, EnterLeads, OnwardLeads, PublishLeads, ReturnLeads
       DEF Collect, PathsInv
  <2>2. \A d \in Collectors : TopLeads(stack[d])'
    BY <1>3, <1>7, <2>1, StackMovesAlone DEF Core, Stacks
  <2>3. ASSUME NEW e \in Executions, Published(e)'
        PROVE  Leads(e, <<>>, 0)'
    <3>1. CASE Published(e)
      BY <1>2, <3>1
    <3>2. CASE ~Published(e)
      <4>1. Publish(c) /\ e = This(c) /\ ~Ends(c, "failed")
        <5>1. summary'[e] # summary[e]
          BY <2>3, <3>2 DEF Published
        <5>2. Publish(c)
          BY <1>7, <5>1 DEF Collect, Start, Enter, Describe, ReadPlan, PinSource,
             NoSource, Return, ReadRest, Recheck, directory
        <5>3. /\ summary' = [summary EXCEPT ![This(c)] = Top(c).result]
              /\ GoTo(c, "return") /\ stack[c] # <<>>
          BY <5>1, <5>2 DEF Publish, At
        <5>4. e = This(c)
          BY <5>1, <5>3 DEF Core, SummariesInv
        <5>5. stack'[c] # <<>>
          <6>1. PICK f : f = [Top(c) EXCEPT !.stage = "return"]
            OBVIOUS
          <6>2. PICK t : t = [stack[c] EXCEPT ![Depth(c)] = f]
            OBVIOUS
          <6> QED
            BY <5>3, <6>1, <6>2, TopBecomes DEF GoTo
        <5>6. ~Ends(c, "failed")
          BY <5>5 DEF Ends, Core, Stacks, StacksInv
        <5> QED
          BY <5>2, <5>4, <5>6
      <4>2. PICK s : s = stack[c]
        OBVIOUS
      <4>3. PICK n : n = Depth(c)
        OBVIOUS
      <4>4. n \in Nat /\ n >= 1 /\ Leads(e, s, n - 1)'
        BY <1>1, <1>7, <4>1, <4>2, <4>3, PublishedLeads DEF PathsInv
      <4>5. PICK t : t = <<>>
        OBVIOUS
      <4>6. n - 1 \in Nat /\ 0 \in 0 .. n - 1 /\ \A j \in 1 .. 0 : t[j].run = s[j].run
        BY <4>4
      <4>7. Leads(e, t, 0)'
        BY <4>4, <4>6, LeadsWithin
      <4> QED
        BY <4>5, <4>7
    <3> QED
      BY <3>1, <3>2
  <2> QED
    BY <2>2, <2>3 DEF PathsInv
<1> QED
  BY <1>5, <1>6, <1>7 DEF Next

-----------------------------------------------------------------------------
(* A collector whose run was published *)

LEMMA FollowsStays ==
  ASSUME Onward, NEW s, Follows(s)
  PROVE  Follows(s)'
<1>1. CASE s = <<>>
  BY <1>1 DEF Follows
<1>2. CASE s # <<>>
  <2>1. MaxLineage \in Nat
    BY LineageAssumption
  <2>2. PICK n \in 1 .. MaxLineage : \E p \in [1 .. n -> Executions] :
          /\ Path(p, n)
          /\ Len(s) <= n
          /\ \A i \in 1 .. Len(s) :
               Exec(s[i]) = p[i] /\ s[i].stage \in {"enter", "validate", "return"}
    BY <1>2 DEF Follows
  <2>3. PICK p \in [1 .. n -> Executions] :
          /\ Path(p, n)
          /\ Len(s) <= n
          /\ \A i \in 1 .. Len(s) :
               Exec(s[i]) = p[i] /\ s[i].stage \in {"enter", "validate", "return"}
    BY <2>2
  <2>4. Path(p, n)'
    BY <2>1, <2>3, PathStays
  <2> QED
    BY <2>3, <2>4 DEF Follows, Exec
<1> QED
  BY <1>1, <1>2

LEMMA LinksAgree ==
  ASSUME NEW e, NEW l, NEW k, LinkOK(e, l), LinkOK(e, k)
  PROVE  l = [k EXCEPT !.mode = l.mode]
<1>1. /\ l = [mode |-> l.mode, attempt |-> l.attempt, summary |-> l.summary]
      /\ k = [mode |-> k.mode, attempt |-> k.attempt, summary |-> k.summary]
      /\ l.attempt = k.attempt /\ l.summary = k.summary
  BY DEF LinkOK
<1> QED
  BY <1>1

\* The stack s is the beginning of the path p.
Along(s, p, n) ==
  /\ Path(p, n)
  /\ Len(s) <= n
  /\ \A i \in 1 .. Len(s) :
       Exec(s[i]) = p[i] /\ s[i].stage \in {"enter", "validate", "return"}

LEMMA FoundStart ==
  ASSUME Core, Onward, PathsInv, NEW c \in Collectors, Start(c), found'[c],
         found \in [Collectors -> BOOLEAN]
  PROVE  Follows(stack[c])'
<1>1. PICK r \in DOMAIN record :
        /\ stack' = [stack EXCEPT ![c] = <<Frame(r, record[r])>>]
        /\ found' = [found EXCEPT ![c] = summary[<<r, record[r].attempt>>] # NoSummary]
  BY DEF Start
<1>2. PICK f : f = Frame(r, record[r])
  OBVIOUS
<1>3. PICK e : e = <<r, record[r].attempt>>
  OBVIOUS
<1>4. /\ e \in Executions /\ Published(e)
      /\ Exec(f) = e /\ f.stage = "enter"
      /\ stack'[c] = <<f>>
  BY <1>1, <1>2, <1>3 DEF Core, GithubInv, Records, Executions, Published, Frame, Exec,
     Stacks, StacksInv
<1>5. MaxLineage \in Nat
  BY LineageAssumption
<1>6. PICK n \in 1 .. MaxLineage :
        \E p \in [1 .. n -> Executions] : Fits(p, n, e, <<>>, 0)
  BY <1>4 DEF PathsInv, Leads
<1>7. PICK p \in [1 .. n -> Executions] : Path(p, n) /\ p[1] = e
  BY <1>6 DEF Fits
<1>8. Path(p, n)' /\ n \in Nat /\ n >= 1
  BY <1>5, <1>7, PathStays
<1>9. PICK t : t = <<f>>
  OBVIOUS
<1>10. Len(t) = 1 /\ t[1] = f
  BY <1>9, OneFrame
<1>11. Follows(t)'
  BY <1>4, <1>7, <1>8, <1>10 DEF Follows, Exec
<1> QED
  BY <1>4, <1>9, <1>11

\* What such a collector knows, and what its next stack must be.
LEMMA FoundTop ==
  ASSUME Core, NEW c \in Collectors, stack[c] # <<>>, Follows(stack[c])
  PROVE  \E n \in 1 .. MaxLineage : \E p \in [1 .. n -> Executions] :
           /\ Along(stack[c], p, n)
           /\ Depth(c) \in 1 .. n /\ Depth(c) = Len(stack[c])
           /\ This(c) = p[Depth(c)] /\ Published(This(c))
           /\ Top(c).stage \in {"enter", "validate", "return"}
<1>1. PICK n \in 1 .. MaxLineage : \E p \in [1 .. n -> Executions] :
        Along(stack[c], p, n)
  BY DEF Follows, Along
<1>2. PICK p \in [1 .. n -> Executions] : Along(stack[c], p, n)
  BY <1>1
<1>3. /\ Depth(c) \in 1 .. n /\ Depth(c) = Len(stack[c])
      /\ Depth(c) \in 1 .. Len(stack[c]) /\ Top(c) = stack[c][Depth(c)]
      /\ This(c) = Exec(Top(c))
  <2>1. /\ Depth(c) = Len(stack[c]) /\ Depth(c) \in Nat /\ Depth(c) >= 1
        /\ Top(c) = stack[c][Depth(c)]
    BY FramesUnder
  <2>2. Len(stack[c]) <= n /\ n \in Nat
    BY <1>2, LineageAssumption DEF Along
  <2>3. This(c) = Exec(Top(c))
    BY TopOK DEF Core
  <2> QED
    BY <2>1, <2>2, <2>3
<1>4. This(c) = p[Depth(c)] /\ Top(c).stage \in {"enter", "validate", "return"}
  BY <1>2, <1>3 DEF Along
<1>5. Published(This(c))
  BY <1>2, <1>3, <1>4 DEF Along, Path
<1> QED
  BY <1>2, <1>3, <1>4, <1>5

LEMMA FoundEnter ==
  ASSUME Core, Onward, NEW c \in Collectors, Follows(stack[c]), Enter(c)
  PROVE  Follows(stack[c])' /\ UNCHANGED answer
<1>1. At(c, "enter") /\ stack[c] # <<>>
  BY DEF Enter, At
<1>2. PICK n \in 1 .. MaxLineage : \E p \in [1 .. n -> Executions] :
        /\ Along(stack[c], p, n)
        /\ Depth(c) \in 1 .. n /\ Depth(c) = Len(stack[c])
        /\ This(c) = p[Depth(c)] /\ Published(This(c))
  BY <1>1, FoundTop
<1>3. PICK p \in [1 .. n -> Executions] :
        /\ Along(stack[c], p, n)
        /\ Depth(c) \in 1 .. n /\ Depth(c) = Len(stack[c])
        /\ This(c) = p[Depth(c)] /\ Published(This(c))
  BY <1>2
<1>4. PICK s : s = stack[c]
  OBVIOUS
<1>5. PICK d : d = Depth(c)
  OBVIOUS
<1>6. /\ d \in 1 .. n /\ d = Len(s) /\ d \in Nat /\ d >= 1 /\ n \in Nat
      /\ \A i \in 1 .. d : i \in 1 .. n /\ Exec(s[i]) = p[i]
                           /\ s[i].stage \in {"enter", "validate", "return"}
  BY <1>3, <1>4, <1>5, LineageAssumption DEF Along
<1>7. MayEnter(c)
  <2>1. d <= MaxLineage
    BY <1>6, LineageAssumption
  <2>2. ASSUME NEW i \in 1 .. d - 1 PROVE s[i].run # Run(c)
    <3>1. i \in 1 .. n /\ i # d /\ Exec(s[i]) = p[i]
      BY <1>6
    <3>2. p[i][1] # p[d][1]
      BY <1>3, <1>6, <3>1 DEF Along, Path
    <3> QED
      BY <1>3, <1>5, <3>1, <3>2 DEF Exec, This
  <2> QED
    BY <1>4, <1>5, <2>1, <2>2 DEF MayEnter, Lineage
<1>8. PICK x \in {"return", "validate"} : GoTo(c, x) /\ UNCHANGED answer
  BY <1>3, <1>7 DEF Enter, Published
<1>9. PICK f : f = [Top(c) EXCEPT !.stage = x]
  OBVIOUS
<1>10. /\ FrameOK(Top(c)) /\ This(c) = Exec(Top(c))
       /\ Become(c, f) /\ f.stage = x /\ Exec(f) = p[d]
  <2>1. FrameOK(Top(c)) /\ This(c) = Exec(Top(c))
    BY <1>1, TopOK DEF Core
  <2> QED
    BY <1>3, <1>5, <1>8, <1>9, <2>1 DEF GoTo, FrameOK, Exec
<1>11. PICK t : t = [s EXCEPT ![d] = f]
  OBVIOUS
<1>12. /\ stack'[c] = t /\ Len(t) = d /\ t[d] = f
       /\ \A i \in 1 .. d - 1 : t[i] = s[i]
  BY <1>1, <1>4, <1>5, <1>10, <1>11, TopBecomes
<1>13. ASSUME NEW i \in 1 .. d
       PROVE  Exec(t[i]) = p[i] /\ t[i].stage \in {"enter", "validate", "return"}
  <2>1. CASE i = d
    BY <1>10, <1>12, <2>1
  <2>2. CASE i # d
    BY <1>6, <1>12, <2>2
  <2> QED
    BY <2>1, <2>2
<1>14. Path(p, n)'
  BY <1>3, <1>6, PathStays DEF Along
<1>15. Follows(t)'
  BY <1>6, <1>12, <1>13, <1>14 DEF Follows, Exec
<1> QED
  BY <1>8, <1>12, <1>15

\* What was published of its source stays pinned, and it is no other run of
\* the stack.
LEMMA FoundPin ==
  ASSUME Core, Onward, NEW c \in Collectors, Follows(stack[c]),
         PinSource(c) \/ NoSource(c)
  PROVE  Follows(stack[c])' /\ UNCHANGED answer
<1>1. stack[c] # <<>> /\ (At(c, "source") \/ At(c, "validate"))
  BY DEF PinSource, NoSource, At
<1>2. PICK n \in 1 .. MaxLineage : \E p \in [1 .. n -> Executions] :
        /\ Along(stack[c], p, n)
        /\ Depth(c) \in 1 .. n /\ Depth(c) = Len(stack[c])
        /\ This(c) = p[Depth(c)] /\ Published(This(c))
        /\ Top(c).stage \in {"enter", "validate", "return"}
  BY <1>1, FoundTop
<1>3. PICK p \in [1 .. n -> Executions] :
        /\ Along(stack[c], p, n)
        /\ Depth(c) \in 1 .. n /\ Depth(c) = Len(stack[c])
        /\ This(c) = p[Depth(c)] /\ Published(This(c))
        /\ Top(c).stage \in {"enter", "validate", "return"}
  BY <1>2
<1>4. PICK s : s = stack[c]
  OBVIOUS
<1>5. PICK d : d = Depth(c)
  OBVIOUS
<1>6. /\ d \in 1 .. n /\ d = Len(s) /\ d \in Nat /\ d >= 1 /\ n \in Nat
      /\ \A i \in 1 .. d : i \in 1 .. n /\ Exec(s[i]) = p[i]
                           /\ s[i].stage \in {"enter", "validate", "return"}
  BY <1>3, <1>4, <1>5, LineageAssumption DEF Along
<1>7. PICK e : e = This(c)
  OBVIOUS
<1>8. /\ FrameOK(Top(c)) /\ e = Exec(Top(c)) /\ e \in Executions
      /\ e[1] = Run(c) /\ Top(c).stage = "validate"
  BY <1>1, <1>3, <1>7, TopOK DEF Core, At
<1>9. summary[e].link # NoLink /\ Published(e) /\ LinkOK(e, summary[e].link)
  <2>1. Published(e) /\ summary[e].link # NoLink
    BY <1>8 DEF FrameOK
  <2> QED
    BY <1>8, <2>1 DEF Core, SummariesInv, ResultOK
<1>10. d < n /\ d + 1 \in 1 .. n /\ p[d + 1] = Source(e)
  <2>1. d # n
    BY <1>3, <1>5, <1>7, <1>9 DEF Along, Path
  <2>2. d < n /\ d + 1 \in 1 .. n
    BY <1>6, <2>1
  <2> QED
    BY <1>3, <1>5, <1>6, <1>7, <2>2 DEF Along, Path
<1>11. PICK rec : rec = PinnedSource(c)
  OBVIOUS
<1>12. PICK r : r = SourceOf[Run(c)]
  OBVIOUS
<1>13. /\ pin[e] # NoRecord /\ rec = pin[e] /\ Established(rec, Run(c))
       /\ p[d + 1] = <<r, rec.attempt>>
  BY <1>7, <1>8, <1>9, <1>10, <1>11, <1>12 DEF LinkOK, PinnedSource, Source
<1>14. r \notin Lineage(c) \cup {Run(c)}
  <2>1. ASSUME NEW i \in 1 .. d PROVE s[i].run # r
    <3>1. i \in 1 .. n /\ i # d + 1 /\ Exec(s[i]) = p[i]
      BY <1>6
    <3>2. p[i][1] # p[d + 1][1]
      BY <1>3, <1>10, <3>1 DEF Along, Path
    <3> QED
      BY <1>13, <3>1, <3>2 DEF Exec
  <2>2. Run(c) = s[d].run /\ d \in 1 .. d
    BY <1>4, <1>5, <1>6 DEF Run, Top
  <2> QED
    BY <1>4, <1>5, <1>6, <2>1, <2>2 DEF Lineage
<1>15. /\ ~NoSource(c)
       /\ stack' = [stack EXCEPT ![c] = Append(s, Frame(r, rec))]
       /\ UNCHANGED answer
  BY <1>4, <1>7, <1>11, <1>12, <1>13, <1>14 DEF PinSource, NoSource
<1>16. PICK f : f = Frame(r, rec)
  OBVIOUS
<1>17. Exec(f) = p[d + 1] /\ f.stage = "enter"
  BY <1>13, <1>16 DEF Frame, Exec
<1>18. PICK t : t = Append(s, f)
  OBVIOUS
<1>19. stack'[c] = t /\ Len(t) = d + 1 /\ t[d + 1] = f /\ \A i \in 1 .. d : t[i] = s[i]
  <2>1. IsStack(s)
    BY <1>4 DEF Core, Stacks
  <2> QED
    BY <1>6, <1>15, <1>16, <1>18, <2>1, PushFrame DEF Core, Stacks, StacksInv
<1>20. ASSUME NEW i \in 1 .. d + 1
       PROVE  Exec(t[i]) = p[i] /\ t[i].stage \in {"enter", "validate", "return"}
  <2>1. CASE i = d + 1
    BY <1>17, <1>19, <2>1
  <2>2. CASE i # d + 1
    BY <1>6, <1>19, <2>2
  <2> QED
    BY <2>1, <2>2
<1>21. Path(p, n)'
  BY <1>3, <1>6, PathStays DEF Along
<1>22. Len(t) <= n
  BY <1>6, <1>10, <1>19
<1>23. Follows(t)'
  BY <1>19, <1>20, <1>21, <1>22 DEF Follows, Exec
<1> QED
  BY <1>15, <1>19, <1>23

\* What its source returns is what the summary names.
LEMMA FoundReturn ==
  ASSUME Core, Onward, NEW c \in Collectors, Follows(stack[c]), Return(c)
  PROVE  Follows(stack[c])' /\ (UNCHANGED answer \/ Ends(c, "collected"))
<1>1. stack[c] # <<>> /\ At(c, "return")
  BY DEF Return, At
<1>2. CASE Ends(c, "collected")
  <2>1. stack'[c] = <<>>
    BY <1>2 DEF Ends, Core, Stacks, StacksInv
  <2> QED
    BY <1>2, <2>1 DEF Follows
<1>3. CASE ~Ends(c, "collected")
  <2>1. PICK n \in 1 .. MaxLineage : \E p \in [1 .. n -> Executions] :
          /\ Along(stack[c], p, n)
          /\ Depth(c) \in 1 .. n /\ Depth(c) = Len(stack[c])
    BY <1>1, FoundTop
  <2>2. PICK p \in [1 .. n -> Executions] :
          /\ Along(stack[c], p, n)
          /\ Depth(c) \in 1 .. n /\ Depth(c) = Len(stack[c])
    BY <2>1
  <2>3. PICK s : s = stack[c]
    OBVIOUS
  <2>4. PICK d : d = Depth(c)
    OBVIOUS
  <2>5. /\ d \in 1 .. n /\ d = Len(s) /\ d \in Nat /\ n \in Nat
        /\ d > 1 /\ IsStack(s) /\ d - 1 \in 1 .. d
        /\ \A i \in 1 .. d : i \in 1 .. n /\ Exec(s[i]) = p[i]
                             /\ s[i].stage \in {"enter", "validate", "return"}
    <3>1. d \in 1 .. n /\ d = Len(s) /\ d \in Nat /\ n \in Nat /\ IsStack(s)
      BY <2>2, <2>3, <2>4, LineageAssumption DEF Core, Stacks
    <3>2. d > 1
      BY <1>3, <2>4, <3>1 DEF Return
    <3> QED
      BY <2>2, <2>3, <3>1, <3>2 DEF Along
  <2>6. PICK b : b = s[d - 1]
    OBVIOUS
  <2>7. PICK link : link = LinkTo(Run(c), This(c), "partial")
    OBVIOUS
  <2>8. PICK e : e = Exec(b)
    OBVIOUS
  <2>9. /\ FrameOK(b) /\ e \in Executions /\ LinkOK(e, link)
        /\ b.stage \in {"source", "validate"}
    BY <1>1, <2>3, <2>4, <2>5, <2>6, <2>7, <2>8, LinkReturned
  <2>10. b.stage = "validate" /\ Exec(b) = p[d - 1]
    BY <2>5, <2>6, <2>9
  <2>11. LinkOK(e, summary[e].link)
    <3>1. Published(e) /\ summary[e].link # NoLink
      BY <2>8, <2>9, <2>10 DEF FrameOK
    <3> QED
      BY <2>9, <3>1 DEF Core, SummariesInv, ResultOK
  <2>12. summary[e].link = [link EXCEPT !.mode = summary[e].link.mode]
    <3>1. PICK l : l = summary[e].link
      OBVIOUS
    <3>2. l = [link EXCEPT !.mode = l.mode]
      BY <2>9, <2>11, <3>1, LinksAgree
    <3> QED
      BY <3>1, <3>2
  <2>13. PICK f : f = [b EXCEPT !.stage = "return"]
    OBVIOUS
  <2>14. /\ stack' = [stack EXCEPT ![c] = Append(SubSeq(s, 1, Len(s) - 2), f)]
         /\ UNCHANGED answer
    <3>1. Depth(c) = Len(s) /\ d = Len(s) /\ Depth(c) > 1 /\ ~(Depth(c) = 1)
      BY <2>4, <2>5
    <3>2. stack[c][Depth(c) - 1] = b /\ <<b.run, b.rec.attempt>> = e
      BY <2>3, <2>4, <2>6, <2>8 DEF Exec
    <3>3. b.stage # "source"
      BY <2>10
    <3> QED
      BY <2>3, <2>7, <2>12, <2>13, <3>1, <3>2, <3>3 DEF Return
  <2>15. PICK t : t = Append(SubSeq(s, 1, Len(s) - 2), f)
    OBVIOUS
  <2>16. /\ stack'[c] = t /\ Len(t) = d - 1 /\ t[d - 1] = f
         /\ \A i \in 1 .. d - 2 : t[i] = s[i]
    <3>1. stack'[c] = t
      BY <2>14, <2>15 DEF Core, Stacks, StacksInv
    <3>2. Len(s) > 1
      BY <2>5
    <3> QED
      BY <2>5, <2>15, <3>1, <3>2, PopFrame
  <2>17. Exec(f) = p[d - 1] /\ f.stage = "return"
    BY <2>9, <2>10, <2>13 DEF FrameOK, Exec
  <2>18. ASSUME NEW i \in 1 .. d - 1
         PROVE  Exec(t[i]) = p[i] /\ t[i].stage \in {"enter", "validate", "return"}
    <3>1. CASE i = d - 1
      BY <2>16, <2>17, <3>1
    <3>2. CASE i # d - 1
      <4>1. d \in Nat /\ d > 1
        BY <2>5
      <4>2. i \in 1 .. d - 2 /\ i \in 1 .. d
        BY <3>2, <4>1
      <4>3. t[i] = s[i]
        BY <2>16, <4>2
      <4> QED
        BY <2>5, <4>2, <4>3
    <3> QED
      BY <3>1, <3>2
  <2>19. Path(p, n)' /\ Len(t) <= n
    BY <2>2, <2>5, <2>16, PathStays DEF Along
  <2>20. Follows(t)'
    BY <2>16, <2>18, <2>19 DEF Follows, Exec
  <2> QED
    BY <2>14, <2>16, <2>20
<1> QED
  BY <1>2, <1>3

LEMMA FoundStep ==
  ASSUME Core, PathsInv, FoundInv, [Next]_vars
  PROVE  FoundInv'
<1>1. Core' /\ Onward
  BY CoreStep
<1>2. /\ found \in [Collectors -> BOOLEAN] /\ answer \in [Collectors -> Answers]
      /\ MemoryTyped
      /\ \A c \in Collectors : found[c] => Follows(stack[c]) /\ answer[c] # "failed"
  BY DEF FoundInv, PublishedRerunStays, MemoryTyped
<1>3. MemoryTyped'
  BY <1>2, MemoryStep
<1>4. ASSUME NEW d \in Collectors, stack'[d] = stack[d], found'[d] = found[d],
             answer'[d] = answer[d]
      PROVE  found'[d] => Follows(stack[d])' /\ answer'[d] # "failed"
  <2>1. PICK s : s = stack[d]
    OBVIOUS
  <2>2. Follows(s) => Follows(s)'
    BY <1>1, FollowsStays
  <2> QED
    BY <1>2, <1>4, <2>1, <2>2
<1>5. ASSUME \A d \in Collectors :
               found'[d] => Follows(stack[d])' /\ answer'[d] # "failed"
      PROVE  FoundInv'
  BY <1>3, <1>5 DEF FoundInv, PublishedRerunStays, MemoryTyped
<1>6. CASE UNCHANGED vars
  BY <1>4, <1>5, <1>6 DEF vars, memory
<1>7. CASE Environment
  BY <1>4, <1>5, <1>7, EnvironmentOnward DEF Core, memory
<1>8. ASSUME NEW c \in Collectors, Collect(c)
      PROVE  FoundInv'
  <2>1. \A d \in Collectors \ {c} : stack'[d] = stack[d] /\ found'[d] = found[d]
                                    /\ answer'[d] = answer[d]
    <3>1. /\ UNCHANGED answer \/ \E a : answer' = [answer EXCEPT ![c] = a]
          /\ UNCHANGED found \/ \E b : found' = [found EXCEPT ![c] = b]
      BY <1>8 DEF Collect, Start, Enter, Describe, ReadPlan, PinSource, NoSource,
         Return, ReadRest, Recheck, Publish, Ends
    <3> QED
      BY <1>2, <1>8, <3>1, StackMovesAlone DEF Core, Stacks
  <2>2. ASSUME found'[c]
        PROVE  Follows(stack[c])' /\ answer'[c] # "failed"
    <3>1. CASE Start(c)
      <4>1. answer[c] = "none" /\ UNCHANGED answer
        BY <3>1 DEF Start
      <4> QED
        BY <1>1, <1>2, <2>2, <3>1, <4>1, FoundStart
    <3>2. CASE ~Start(c)
      <4>1. found' = found
        BY <1>8, <3>2 DEF Collect, Enter, Describe, ReadPlan, PinSource, NoSource,
           Return, ReadRest, Recheck, Publish
      <4>2. Follows(stack[c]) /\ answer[c] # "failed"
        BY <1>2, <2>2, <4>1
      <4>3. CASE Enter(c)
        BY <1>1, <4>2, <4>3, FoundEnter
      <4>4. CASE PinSource(c) \/ NoSource(c)
        BY <1>1, <4>2, <4>4, FoundPin
      <4>5. CASE Return(c)
        <5>1. Follows(stack[c])' /\ (UNCHANGED answer \/ Ends(c, "collected"))
          BY <1>1, <4>2, <4>5, FoundReturn
        <5>2. Ends(c, "collected") => answer'[c] = "collected"
          BY <1>2 DEF Ends
        <5> QED
          BY <4>2, <5>1, <5>2
      \* It is never at a stage of making a summary.
      <4>6. CASE Describe(c) \/ ReadPlan(c) \/ ReadRest(c) \/ Recheck(c) \/ Publish(c)
        <5>1. /\ stack[c] # <<>>
              /\ Top(c).stage \in {"describe", "plan", "rest", "recheck", "publish"}
          BY <4>6 DEF Describe, ReadPlan, ReadRest, Recheck, Publish, At
        <5>2. Top(c).stage \in {"enter", "validate", "return"}
          BY <4>2, <5>1, FoundTop
        <5> QED
          BY <5>1, <5>2
      <4> QED
        BY <1>8, <3>2, <4>3, <4>4, <4>5, <4>6 DEF Collect
    <3> QED
      BY <3>1, <3>2
  <2> QED
    BY <1>4, <1>5, <2>1, <2>2
<1> QED
  BY <1>6, <1>7, <1>8 DEF Next

-----------------------------------------------------------------------------
(* The invariant, and what it implies *)

LEMMA LineageInit ==
  ASSUME Init
  PROVE  LineageInv
<1>1. Core
  BY CoreInit
<1>2. PathsInv
  BY DEF Init, PathsInv, Published, TopLeads
<1>3. FoundInv
  BY DEF Init, FoundInv, PublishedRerunStays, Follows, Answers
<1> QED
  BY <1>1, <1>2, <1>3 DEF LineageInv, Core, Stacks

LEMMA LineageStep ==
  ASSUME LineageInv, [Next]_vars
  PROVE  LineageInv'
<1>1. Core /\ PathsInv /\ FoundInv
  BY DEF LineageInv, Core, Stacks
<1>2. Core' /\ PathsInv' /\ FoundInv'
  BY <1>1, CoreStep, PathsStep, FoundStep
<1> QED
  BY <1>2 DEF LineageInv, Core, Stacks

(* Whatever the runs, the collectors and the bounds, everything keeps its   *)
(* type, a summary is published only of files that are retained, and a      *)
(* source is pinned before it is collected.                                 *)
THEOREM LineageTypeCorrect == Spec => []TypeOK
<1>1. LineageInv => TypeOK
  <2> SUFFICES ASSUME LineageInv PROVE TypeOK
    OBVIOUS
  <2>1. GithubInv /\ DirectoryInv /\ SummariesInv /\ StacksInv /\ FoundInv
    BY DEF LineageInv
  <2>2. \A e \in Executions :
          /\ runFile[e] \in Records \cup {NoRecord}
          /\ pin[e] \in Records \cup {NoRecord}
          /\ {plan[e], rest[e]} \subseteq {None} \cup Attempts
    BY <2>1 DEF DirectoryInv
  <2>3. \A e \in Executions : summary[e] # NoSummary =>
          /\ plan[e] # None /\ rest[e] # None
          /\ summary[e].link # NoLink => pin[e] # NoRecord
    BY <2>1 DEF SummariesInv, Published, ResultOK, LinkOK
  <2>4. ASSUME NEW c \in Collectors, NEW i \in DOMAIN stack[c]
        PROVE  /\ stack[c][i].run \in Runs
               /\ stack[c][i].rec \in Records
               /\ stack[c][i].stage \in Stages
               /\ i < Len(stack[c]) =>
                    pin[<<stack[c][i].run, stack[c][i].rec.attempt>>]
                      = stack[c][i + 1].rec
    <3>1. IsStack(stack[c]) /\ StackOK(stack[c])
      BY DEF LineageInv, StacksInv
    <3>2. FrameOK(stack[c][i]) /\ PlaceOK(stack[c], i)
      BY <3>1, StackTyped DEF StackOK
    <3> QED
      BY <3>2 DEF FrameOK, PlaceOK, Exec
  <2>5. /\ clock \in 0 .. MaxTime
        /\ DOMAIN created \subseteq Runs
        /\ \A r \in DOMAIN created : created[r] \in 0 .. clock
        /\ DOMAIN record = DOMAIN created
        /\ \A r \in DOMAIN record : record[r] \in Records
        /\ basis \in [Executions -> {None} \cup Attempts]
        /\ DOMAIN content \subseteq Executions
        /\ \A e \in DOMAIN content : content[e] \in Uploads[e[1]]
        /\ files \in [Runs -> {None} \cup Attempts]
    BY <2>1 DEF GithubInv
  <2>6. nested \subseteq Executions
    BY <2>1 DEF DirectoryInv
  <2> QED
    BY <2>1, <2>2, <2>3, <2>4, <2>5, <2>6 DEF TypeOK, FoundInv
<1> QED
  BY <1>1, LineageInit, LineageStep, PTL DEF Spec

(* However often runs are re-run, before, between and during collections,   *)
(* the attempt that a rerun's summary names, and that a collector takes for *)
(* its source, was the newest when the rerun's attempt began.               *)
THEOREM RerunsStandOnTheirBasis == Spec => []StandsOnItsBasis
<1>1. LineageInv => StandsOnItsBasis
  <2> SUFFICES ASSUME LineageInv PROVE StandsOnItsBasis
    OBVIOUS
  <2>1. ASSUME NEW e \in Executions, pin[e] # NoRecord, Established(pin[e], e[1])
        PROVE  pin[e].attempt = basis[e]
    BY <2>1 DEF LineageInv, DirectoryInv
  <2>2. ASSUME NEW e \in Executions, IsRerun(e)
        PROVE  summary[e].link.attempt = basis[e]
    <3>1. LinkOK(e, summary[e].link)
      BY <2>2 DEF LineageInv, SummariesInv, ResultOK, IsRerun
    <3> QED
      BY <2>1, <3>1 DEF LinkOK
  <2>3. ASSUME NEW c \in Collectors, NEW i \in 1 .. Depth(c) - 1
        PROVE  stack[c][i + 1].rec.attempt
                 = basis[<<stack[c][i].run, stack[c][i].rec.attempt>>]
    <3>1. PICK s : s = stack[c]
      OBVIOUS
    <3>2. IsStack(s) /\ StackOK(s) /\ Depth(c) = Len(s)
      BY <3>1 DEF LineageInv, StacksInv, Depth
    <3>3. i \in 1 .. Len(s) /\ i < Len(s) /\ i + 1 \in 1 .. Len(s)
      BY <3>2, StackTyped
    <3>4. FrameOK(s[i]) /\ PlaceOK(s, i) /\ FrameOK(s[i + 1])
      BY <3>2, <3>3 DEF StackOK
    <3>5. PICK e : e = Exec(s[i])
      OBVIOUS
    <3>6. /\ e \in Executions /\ e[1] = s[i].run
          /\ s[i + 1].rec = pin[e] /\ Established(s[i + 1].rec, s[i].run)
          /\ s[i + 1].rec \in Records
      BY <3>3, <3>4, <3>5 DEF FrameOK, PlaceOK, Exec, Executions, Records
    <3>7. pin[e] # NoRecord /\ Established(pin[e], e[1])
      BY <3>6, NoRecordIsNone
    <3> QED
      BY <2>1, <3>1, <3>5, <3>6, <3>7 DEF Exec
  <2> QED
    BY <2>2, <2>3 DEF StandsOnItsBasis
<1> QED
  BY <1>1, LineageInit, LineageStep, PTL DEF Spec

(* The link of a published rerun leads to the published summary that it     *)
(* recorded, and a verdict carried forward is the one of that summary.      *)
THEOREM VerdictsRestOnSources == Spec => []VerdictRestsOnSource
<1>1. LineageInv => VerdictRestsOnSource
  <2> SUFFICES ASSUME LineageInv, NEW e \in Executions, IsRerun(e)
               PROVE  /\ summary[Source(e)] = summary[e].link.summary
                      /\ summary[e].link.mode = "carried_forward"
                           => summary[e].verdict = summary[Source(e)].verdict
    BY DEF VerdictRestsOnSource
  <2>1. LinkOK(e, summary[e].link) /\ VerdictAgrees(summary[e])
    BY DEF LineageInv, SummariesInv, ResultOK, IsRerun
  <2> QED
    BY <2>1 DEF LinkOK, VerdictAgrees, Source
<1> QED
  BY <1>1, LineageInit, LineageStep, PTL DEF Spec

(* What is published as the source of a rerun is evidence of the attempt    *)
(* that was pinned, whoever retained its files and whenever.                *)
THEOREM SourcesAreOfTheirAttempt == Spec => []SourceEvidenceIsPinned
<1>1. LineageInv => SourceEvidenceIsPinned
  BY DEF LineageInv, SummariesInv
<1> QED
  BY <1>1, LineageInit, LineageStep, PTL DEF Spec

(* Whatever chain of reruns the logs describe, a collector works on         *)
(* distinct runs and on no more of them than the limit.                     *)
THEOREM CollectionIsBounded == Spec => []LineageIsBounded
<1>1. LineageInv => LineageIsBounded
  <2> SUFFICES ASSUME LineageInv, NEW c \in Collectors
               PROVE  LET inside == {i \in DOMAIN stack[c] : stack[c][i].stage # "enter"} IN
                        /\ inside \subseteq 1 .. MaxLineage
                        /\ \A i, j \in inside : stack[c][i].run = stack[c][j].run => i = j
    BY DEF LineageIsBounded
  <2>1. PICK s : s = stack[c]
    OBVIOUS
  <2>2. IsStack(s) /\ StackOK(s)
    BY <2>1 DEF LineageInv, StacksInv
  <2>3. DOMAIN s = 1 .. Len(s) /\ Len(s) \in Nat
    BY <2>2, StackTyped
  <2>4. ASSUME NEW i \in DOMAIN s, s[i].stage # "enter"
        PROVE  /\ i \in 1 .. MaxLineage
               /\ \A j \in 1 .. i - 1 : s[j].run # s[i].run
    BY <2>2, <2>3, <2>4, LineageAssumption DEF StackOK, PlaceOK
  <2>5. ASSUME NEW i \in DOMAIN s, s[i].stage # "enter",
               NEW j \in DOMAIN s, s[j].stage # "enter", s[i].run = s[j].run
        PROVE  i = j
    <3>1. i \in Nat /\ j \in Nat /\ i >= 1 /\ j >= 1
      BY <2>3
    <3>2. ~(i < j)
      BY <2>4, <2>5, <3>1
    <3>3. ~(j < i)
      BY <2>4, <2>5, <3>1
    <3> QED
      BY <3>1, <3>2, <3>3
  <2> QED
    BY <2>1, <2>4, <2>5
<1> QED
  BY <1>1, LineageInit, LineageStep, PTL DEF Spec

(* Whoever asks for a run whose summary is published gets it, whatever      *)
(* became of its sources on GitHub, and with no limit but the one under     *)
(* which it was published.                                                  *)
THEOREM PublishedRerunsAreReused == Spec => []PublishedRerunStays
<1>1. LineageInv => PublishedRerunStays
  BY DEF LineageInv, FoundInv
<1> QED
  BY <1>1, LineageInit, LineageStep, PTL DEF Spec

=============================================================================
