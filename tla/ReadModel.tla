------------------------------- MODULE ReadModel -------------------------------
(***************************************************************************)
(* What froot reads back of its own history, pure: GitHub's answers made   *)
(* into pull requests and outcomes (dashboard/github_source.py), joined    *)
(* into rows and counted per class (dashboard/read_model.py).  A moment is *)
(* a natural number, NoTime where there is none.                           *)
(***************************************************************************)
EXTENDS Autonomy, FiniteSets, FiniteSetsExt

NoTime == -1

-----------------------------------------------------------------------------
(* The GitHub source.                                                      *)

CanaryTarget == "99.99.99"
IsCanary(to) == to = CanaryTarget
ScoreProbe(state) == CASE state = "merged" -> "escaped"
                       [] state = "open"   -> "pending"
                       [] state = "closed" -> "caught"

\* Mutant of ClassifyCheckRuns: runs without a conclusion are an outcome.
ClassifyCheckRunsPending(conclusions) ==
  CASE "bad" \in conclusions -> "broke"
    [] "bad" \notin conclusions /\ "ok" \in conclusions -> "held"
    [] OTHER -> "pending"

\* What the conclusions of a commit's check runs amount to.  A run that has
\* none yet says nothing.
ClassifyCheckRuns(conclusions) ==
  CASE "bad" \in conclusions -> "broke"
    [] "bad" \notin conclusions /\ "ok" \in conclusions -> "held"
    [] OTHER -> "unknown"

Determined == {"held", "broke", "reverted"}
Outcomes   == Determined \cup {"unknown", "none"}

\* _merge_index over one page of commits, higher indices newer: the newest
\* commit that mentions the pull request, none or one, and the pull requests
\* that some revert mentions.
MergeSha(page, commits, number) ==
  {i \in page : /\ ~commits[i].revert /\ number \in commits[i].refs
                /\ \A j \in page : ~commits[j].revert /\ number \in commits[j].refs => j <= i}
Reverted(page, commits) ==
  UNION {commits[i].refs : i \in {j \in page : commits[j].revert}}

Within(when, now, days) == when # NoTime /\ now - when <= days

-----------------------------------------------------------------------------
(* Rows.                                                                   *)

Or(first, second) == IF first # "none" THEN first ELSE second

\* Mutant of Joined: a number is enough.
JoinedByNumber(pr, bumps) == {b \in bumps : b.number = pr.number}

\* The executions that GitHub's pull request joins: those of its repository
\* and number.
Joined(pr, bumps) == {b \in bumps : b.repo = pr.repo /\ b.number = pr.number}
OfJoined(pr, bumps, field) ==
  IF Joined(pr, bumps) = {} THEN "none" ELSE (CHOOSE b \in Joined(pr, bumps) : TRUE)[field]

BumpRow(pr, bumps, outcomes) ==
  [repo |-> pr.repo, number |-> pr.number, loop |-> pr.loop, env |-> pr.env,
   to |-> IF pr.loop = "dead-code" THEN "unused" ELSE pr.to,
   state |-> pr.state, opened |-> pr.opened, merged |-> pr.merged,
   verdict |-> Or(OfJoined(pr, bumps, "verdict"), pr.verdict),
   ci |-> OfJoined(pr, bumps, "ci"),
   postMerge |-> outcomes[<<pr.repo, pr.number>>]]
BumpRows(prs, bumps, outcomes) == {BumpRow(pr, bumps, outcomes) : pr \in prs}

DecidedAt(row) == IF row.merged # NoTime THEN row.merged ELSE row.opened

\* Mutant of InWindow: a class is a loop, whatever the repository.
InWindowOfLoop(now, rows, repo, loop, policy) ==
  {r \in rows : /\ r.loop = loop
                /\ r.state \in {"merged", "closed"}
                /\ Within(DecidedAt(r), now, policy.windowDays)}

\* The decided pull requests of a class that are recent.
InWindow(now, rows, repo, loop, policy) ==
  {r \in rows : /\ r.repo = repo /\ r.loop = loop
                /\ r.state \in {"merged", "closed"}
                /\ Within(DecidedAt(r), now, policy.windowDays)}

\* Mutant of UnderEnvironment: what was earned under another model counts.
UnderAnyEnvironment(rows, environment) == rows

\* An empty environment filters nothing.
UnderEnvironment(rows, environment) ==
  {r \in rows : environment = "" \/ r.env = environment}

Standing(rows) ==
  LET merged == {r \in rows : r.state = "merged"}
  IN [decided    |-> Cardinality(rows),
      merged     |-> Cardinality(merged),
      determined |-> Cardinality({r \in merged : r.postMerge \in Determined}),
      defects    |-> Cardinality({r \in merged : r.postMerge \in {"broke", "reverted"}})]

ClassGate(now, rows, repo, loop, policy, environment) ==
  ClassEarned(Standing(UnderEnvironment(InWindow(now, rows, repo, loop, policy), environment)),
              policy)

\* The acting gate.
EarnedNow(now, prs, outcomes, repo, loop, policy, environment) ==
  ClassGate(now, BumpRows(prs, {}, outcomes), repo, loop, policy, environment)
=============================================================================
