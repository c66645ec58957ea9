------------------------------- MODULE Dashboard -------------------------------
(***************************************************************************)
(* The page, pure: what the readers brought (dashboard/github_source.py,   *)
(* dashboard/temporal_source.py) joined into one view                      *)
(* (dashboard/read_model.py).  Lists are sets here: their order is layout; *)
(* so are times to merge, rates and links.                                 *)
(***************************************************************************)
EXTENDS ReadModel, Names, SequencesExt

LiveStatuses  == {"running", "continued_as_new"}
FlapThreshold == 2

\* Every way not to close cleanly.
FailureStatuses == {"terminated", "failed", "canceled", "timed_out"}

Count(rows, field, values) == Cardinality({r \in rows : r[field] \in values})

-----------------------------------------------------------------------------
(* Roots: the executions of one id, several since each continues as new.   *)

\* Mutant of Latest: the first execution is the one that counts.
LatestOldest(execs) == {e \in execs : \A f \in execs : e.start <= f.start}

Latest(execs) == {e \in execs : \A f \in execs : f.start <= e.start}

\* Mutant of Failed: every execution that is over has failed.
FailedOrOver(execs) == {e \in execs : e.status # "running"}

Failed(execs) == {e \in execs : e.status \in FailureStatuses}

\* The newest execution tells whether the root is live; all of them are looked
\* at for failures, so that one that is revived again and again shows.
RootRow(repo, loop, execs) ==
  LET status == IF execs = {} THEN "none" ELSE (CHOOSE e \in Latest(execs) : TRUE).status
  IN [repo |-> repo, loop |-> loop, status |-> status, live |-> status \in LiveStatuses,
      recentFailures |-> Cardinality(Failed(execs))]
ScanRow(repo, loop, scans) ==
  RootRow(repo, loop, {s \in scans : s.id = ScanWorkflowId(repo, loop)})
ScanLoops(repos, loops, scans) == {ScanRow(r, l, scans) : r \in repos, l \in loops}

-----------------------------------------------------------------------------
(* Aggregates of rows.                                                     *)

TrackRecord(rows) ==
  [opened |-> Cardinality(rows), merged |-> Count(rows, "state", {"merged"}),
   closedUnmerged |-> Count(rows, "state", {"closed"}),
   openNow |-> Count(rows, "state", {"open"})]

\* No CI at all is told from a failure.
Verification(rows) ==
  [ci \in {"passed", "failed", "absent", "timed_out", "none"} |-> Count(rows, "ci", {ci})]
Reliability(rows) ==
  [held |-> Count(rows, "postMerge", {"held"}), unverified |-> Count(rows, "postMerge", {"unknown"}),
   defects |-> Count(rows, "postMerge", {"broke", "reverted"})]
Judgment(rows) ==
  [verdicts |-> [v \in {"clean", "risky", "unknown", "none"} |-> Count(rows, "verdict", {v})],
   cleanButFailed |->
     Cardinality({r \in rows : r.verdict = "clean" /\ r.ci = "failed"}),
   flaggedButPassed |->
     Cardinality({r \in rows : r.verdict \in {"risky", "unknown"} /\ r.ci = "passed"})]
Probes(canaries) ==
  [score \in {"caught", "escaped", "pending"} |->
     Cardinality({r \in canaries : ScoreProbe(r.state) = score})]

\* What is reclaimed is zero until the class has earned it.
ClassGateRow(read, rows, repo, loop) ==
  LET inWindow == InWindow(read.now, rows, repo, loop, read.policy)
      decided  == UnderEnvironment(inWindow, read.environment)
      standing == Standing(decided)
      earned   == ClassEarned(standing, read.policy)
  IN [repo |-> repo, loop |-> loop, standing |-> standing, earned |-> earned,
      priorEnvDecided |-> Cardinality(inWindow) - Cardinality(decided),
      reclaimable |-> IF earned
        THEN Cardinality({r \in decided : /\ r.state = "merged"
                                          /\ r.verdict = "clean" /\ r.ci = "passed"})
        ELSE 0]
ClassGates(read, rows, loops) ==
  {ClassGateRow(read, rows, repo, l) : repo \in read.repos, l \in loops}

\* The open pull requests, each with what it waits for.
Held(row, gates, policy) ==
  LET class == {g \in gates : g.repo = row.repo /\ g.loop = row.loop}
  IN IF class = {} THEN "no record"
     ELSE HeldReason(row.repo, row.verdict, row.ci, \A g \in class : g.earned, policy)
Gate(rows, gates, policy) ==
  {[row |-> r, held |-> Held(r, gates, policy)] : r \in {s \in rows : s.state = "open"}}

-----------------------------------------------------------------------------
(* One tab per loop that proposes.                                         *)

Failures(bumps) == {[id |-> b.id, kind |-> b.status] : b \in Failed(bumps)}

BumpId == <<"froot", "-", "bump", "-">>
NamedIn(id, loop) == IsPrefix(BumpId \o Words(loop) \o <<Hyphen>>, id)

\* Mutant of FailureLoop: the loop without a segment is tried first.
FailureLoopDefaultFirst(id, loops) ==
  IF "dependency-patch" \in loops THEN {"dependency-patch"}
  ELSE {l \in loops : NamedIn(id, l)}

\* The loop whose segment the id carries, or else the one that has none.
FailureLoop(id, loops) ==
  LET named == {l \in loops \ {"dependency-patch"} : NamedIn(id, l)}
  IN CASE named # {} -> named
       [] named = {} /\ IsPrefix(BumpId, id) -> loops \cap {"dependency-patch"}
       [] OTHER -> {}

OfLoop(rows, loop) == {r \in rows : r.loop = loop}
LoopView(read, rows, canaries, loop) ==
  LET mine  == OfLoop(rows, loop)
      gates == ClassGates(read, mine, {loop})
  IN [loop |-> loop, scanLoops |-> ScanLoops(read.repos, {loop}, read.scans),
      trackRecord |-> TrackRecord(mine), classGates |-> gates,
      verification |-> Verification(mine), reliability |-> Reliability(mine),
      judgment |-> Judgment(mine), probes |-> Probes(OfLoop(canaries, loop)),
      gate |-> Gate(mine, gates, read.policy),
      failures |-> {f \in Failures(read.bumps) : loop \in FailureLoop(f.id, read.loops)}]

-----------------------------------------------------------------------------
(* One tab per loop that comments.                                         *)

\* The id of its root, widened: all its reviews of the repository begin so.
PrAdvisoryPrefix(loop, repo) ==
  LET id == ReviewLoopId(repo, loop)
  IN <<"froot", "-", "pr", "-">> \o SubSeq(id, 3, Len(id)) \o <<Hyphen>>

\* The repository of a review, none or one: the longest prefix wins.
AttributeRepo(loop, id, repos) ==
  LET fits == {r \in repos : IsPrefix(PrAdvisoryPrefix(loop, r), id)}
  IN {r \in fits : \A s \in fits :
        Len(PrAdvisoryPrefix(loop, s)) <= Len(PrAdvisoryPrefix(loop, r))}

OfRoot(execs, loop, repo) ==
  {e \in execs : e.loop = loop /\ e.id = ReviewLoopId(repo, loop)}

\* Mutant of AdvisoryLiveness: a repository without the loop has a dead one.
AdvisoryLivenessOfAll(loop, repos, execs) ==
  {RootRow(r, loop, OfRoot(execs, loop, r)) : r \in repos}

\* A repository that does not run the loop is left out.
AdvisoryLiveness(loop, repos, execs) ==
  {RootRow(r, loop, OfRoot(execs, loop, r)) :
     r \in {s \in repos : OfRoot(execs, loop, s) # {}}}
AdvisoryRow(loop, review, repos) ==
  [repo |-> AttributeRepo(loop, review.id, repos), id |-> review.id,
   number |-> review.number, findings |-> review.findings, status |-> review.status]
AdvisoryRows(loop, reviews, repos) ==
  {AdvisoryRow(loop, review, repos) : review \in {e \in reviews : e.loop = loop}}
AdvisoryRecord(liveness, rows) ==
  LET completed == {r \in rows : r.status = "completed"}
      flagged   == {r \in completed : r.findings > 0}
  IN [reviewed |-> Cardinality(completed), flagged |-> Cardinality(flagged),
      clean |-> Cardinality(completed \ flagged),
      findings |-> MapThenSumSet(LAMBDA r : r.findings, completed),
      reposCovered |-> Cardinality(liveness)]
AdvisoryView(read, loop) ==
  LET liveness == AdvisoryLiveness(loop, read.repos, read.advisory)
      rows     == AdvisoryRows(loop, read.reviews, read.repos)
  IN [loop |-> loop, loops |-> liveness, rows |-> rows,
      record |-> AdvisoryRecord(liveness, rows)]

-----------------------------------------------------------------------------
(* The view.                                                               *)

Sources(read) ==
  [github   |-> [ok |-> ~read.githubError, count |-> Cardinality(read.prs)],
   temporal |-> [ok |-> ~read.temporalError,
     count |-> Cardinality(read.scans) + Cardinality(read.bumps)
               + Cardinality(read.advisory) + Cardinality(read.reviews)]]

Flapping(rows) ==
  {[repo |-> r.repo, loop |-> r.loop, failures |-> r.recentFailures, live |-> r.live] :
     r \in {s \in rows : s.recentFailures >= FlapThreshold}}

\* Mutant of Genuine: planted bumps count as the others.
GenuineOrPlanted(rows) == rows

\* Planted bumps bear on nothing but their own tally.
Genuine(rows) == {r \in rows : ~IsCanary(r.to)}

Assemble(read, advisoryLoops) ==
  LET all      == BumpRows(read.prs, read.bumps, read.outcomes)
      rows     == Genuine(all)
      canaries == {r \in all : IsCanary(r.to)}
      gates    == ClassGates(read, rows, read.loops)
      scans    == ScanLoops(read.repos, read.loops, read.scans)
      advisory == {AdvisoryView(read, l) : l \in advisoryLoops}
  IN [sources |-> Sources(read), scanLoops |-> scans, bumps |-> rows,
      trackRecord |-> TrackRecord(rows), classGates |-> gates,
      verification |-> Verification(rows), reliability |-> Reliability(rows),
      judgment |-> Judgment(rows), probes |-> Probes(canaries),
      gate |-> Gate(rows, gates, read.policy), failures |-> Failures(read.bumps),
      advisory |-> advisory,
      bumpLoops |-> {LoopView(read, rows, canaries, l) : l \in read.loops},
      flapping |-> Flapping(scans \cup UNION {view.loops : view \in advisory})]
=============================================================================
