---------------------------- MODULE BaseResolution ----------------------------
(***************************************************************************)
(* `collect-base` reads a pull request once, pins its head and its target, *)
(* and finds their merge base with Git, in a bare repository of its own    *)
(* that lasts from command to command.  It writes what it pinned and what  *)
(* came of it to a receipt, then collects the commit it found; Selection   *)
(* continues there.                                                        *)
(***************************************************************************)
EXTENDS FiniteSets

CONSTANTS
  Pairs,        \* <<head, target>> pairs the pull request may have
  MergeBases,   \* the merge bases of each pair, none or several
  Unresolved    \* no pair, no commit

ASSUME BaseAssumption ==
  /\ Pairs # {}              \* a pull request has a head and a target
  /\ Unresolved \notin Pairs
  /\ \A p \in Pairs : IsFiniteSet(MergeBases[p]) /\ Unresolved \notin MergeBases[p]

VARIABLES
  pull,       \* what the pull request's head and target are now
  cache,      \* the Git cache: "absent", "empty" or "bare"
  shallow,    \* does it lack older commits?
  present,    \* the pairs whose commits it has
  step,       \* where the resolution is
  request,    \* request.json: the pair that was pinned
  result,     \* result.json: the merge base, "failed", or "none" yet
  base        \* the commit that is going to be collected

resolution == <<pull, cache, shallow, present, step, request, result, base>>

Commits == UNION {MergeBases[p] : p \in Pairs}

BaseTypeOK ==
  /\ pull \in Pairs
  /\ cache \in {"absent", "empty", "bare"}
  /\ shallow \in BOOLEAN
  /\ present \subseteq Pairs
  /\ step \in {"idle", "cache", "history", "bases", "resolved", "failed"}
  /\ request \in Pairs \cup {Unresolved}
  /\ result \in Commits \cup {"none", "failed"}
  /\ base \in Commits \cup {Unresolved}

\* Earlier commands left the cache in some state.  One that was killed
\* between mkdir and `git init` left an empty directory.
BaseInit ==
  /\ pull \in Pairs
  /\ \/ cache \in {"absent", "empty"} /\ shallow = FALSE /\ present = {}
     \/ cache = "bare" /\ shallow \in BOOLEAN /\ present \in {{}, Pairs}
  /\ step = "idle"
  /\ request = Unresolved /\ result = "none" /\ base = Unresolved

\* Another command has nothing to resolve.
NoResolution ==
  /\ pull = CHOOSE p \in Pairs : TRUE
  /\ cache = "absent" /\ shallow = FALSE /\ present = {}
  /\ step = "idle"
  /\ request = Unresolved /\ result = "none" /\ base = Unresolved

\* Somebody pushes, or retargets the pull request.
MovePull ==
  /\ step \notin {"resolved", "failed"}
  /\ pull' \in Pairs \ {pull}
  /\ UNCHANGED <<cache, shallow, present, step, request, result, base>>

ReadPull ==
  /\ step = "idle"
  /\ request' = pull
  /\ step' = "cache"
  /\ UNCHANGED <<pull, cache, shallow, present, result, base>>

NoPull ==
  /\ step = "idle"
  /\ step' = "failed"
  /\ UNCHANGED <<pull, cache, shallow, present, request, result, base>>

\* Every error of the resolution is recorded.
\* Faulty variant: it is only reported.
NotRecorded == result
FailureRecorded == "failed"
GiveUp == step' = "failed" /\ result' = FailureRecorded

\* The cache is made if its directory is missing; it must be bare.
OpenCache ==
  /\ step = "cache"
  /\ \/ /\ cache \in {"absent", "bare"}
        /\ cache' = "bare"
        /\ step' = "history"
        /\ UNCHANGED result
     \/ GiveUp /\ cache' \in {cache} \cup (IF cache = "absent" THEN {"empty"} ELSE {})
  /\ UNCHANGED <<pull, shallow, present, request, base>>

\* What is missing is fetched, by commit and with all its history.
HistoryIsThere == request \in present /\ ~shallow

FetchHistory ==
  /\ step = "history"
  /\ \/ /\ HistoryIsThere
        /\ step' = "bases"
        /\ UNCHANGED <<shallow, present, result>>
     \/ /\ ~HistoryIsThere
        /\ present' = present \cup {request}
        /\ shallow' = FALSE
        /\ step' = "bases"
        /\ UNCHANGED result
     \/ ~HistoryIsThere /\ GiveUp /\ UNCHANGED <<shallow, present>>
  /\ UNCHANGED <<pull, cache, request, base>>

\* Faulty variant: the bases of the pull request as it is now.
BasesNow == MergeBases[pull]
Bases == MergeBases[request]

FindBase ==
  /\ step = "bases"
  /\ \/ \E b \in Bases :
          /\ Bases = {b}
          /\ result' = b /\ base' = b
          /\ step' = "resolved"
     \/ Cardinality(Bases) # 1 /\ GiveUp /\ UNCHANGED base
  /\ UNCHANGED <<pull, cache, shallow, present, request>>

Resolve == ReadPull \/ NoPull \/ OpenCache \/ FetchHistory \/ FindBase

(* README: the pull request is read once, zero or several bases are         *)
(* unresolved, and requests and results are retained even when the          *)
(* resolution fails.  However the pull request moves and whatever state the *)
(* cache was left in, the commit that is collected is the one merge base of *)
(* the pair in the receipt, and a failure after the request has a result.   *)
ReceiptExplainsBase ==
  /\ step = "resolved" => /\ MergeBases[request] = {base}
                          /\ result = base
  /\ step = "failed" /\ request # Unresolved => result = "failed"
=============================================================================
