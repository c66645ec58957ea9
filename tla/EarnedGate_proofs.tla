--------------------------- MODULE EarnedGate_proofs ---------------------------
(***************************************************************************)
(* What a grant of the acting gate stands for, for every policy, model,    *)
(* page size and length of history: the evidence the policy asks for,      *)
(* under the model in force, and a defect overlooked only for a cause.     *)
(***************************************************************************)
EXTENDS EarnedGate, FiniteSetTheorems, TLAPS

\* Of what was read, GitHub takes nothing back: an environment, a decision, a
\* commit on the branch and the pull requests that it mentions.
Faithful ==
  /\ \A pr \in reading.prs :
       /\ pr.env \in pulls[pr.number].labels
       /\ pr.state \in {"merged", "closed"} => pulls[pr.number].state = pr.state
  /\ \A p, q \in reading.prs : p.number = q.number => p = q
  /\ reading.page \subseteq 1..branch.tip
  /\ \A i \in reading.page : /\ reading.commits[i].refs = branch.commits[i].refs
                             /\ reading.commits[i].revert = branch.commits[i].revert
  /\ \A n \in Numbers : reading.outcomes[n] \in Determined =>
       \E i \in 1..branch.tip : n \in branch.commits[i].refs

\* The evidence that a grant stands on, and goes on standing on.
Decided == {n \in Numbers : pulls[n].state \in {"merged", "closed"} /\ model \in pulls[n].labels}
Vouched ==
  /\ reading.granted => At("answered")
  /\ Granted => /\ Cardinality(Decided) >= policy.minDecided
                /\ Cardinality(Confirmed) >= policy.minDetermined

\* A defect on record that is not hidden stays one, and is on its way into the
\* answer.
OnRecord(n, i) ==
  /\ pulls[n].state = "merged" /\ pulls[n].labels = {model}
  /\ Within(pulls[n].merged, reading.now, policy.windowDays)
  /\ i \in Evidence(n)
OnItsWay(n, i) ==
  /\ reading.at \in {"commits", "checks", "answer"} => ToPr(n, model) \in reading.prs
  /\ At("checks") => i \in reading.page
  /\ reading.at \in {"checks", "answer"} /\ reading.whole =>
       n \in reading.todo \/ reading.outcomes[n] \in {"broke", "reverted"}
Followed ==
  /\ \A i \in Shas : branch.commits[i].revert => branch.commits[i].checks = {}
  /\ \A d \in known : pulls[d[1]].state = "merged" /\ d[2] \in 1..branch.tip
  /\ At("answer") /\ reading.whole => reading.todo = {}
  /\ reading.at \in {"pulls", "commits", "checks", "answer"} =>
       \A d \in known : Hidden(d[1], d[2]) \/ (OnRecord(d[1], d[2]) /\ OnItsWay(d[1], d[2]))
  /\ DefectMissedForCause

GateInductive == TypeOK /\ Faithful /\ Vouched /\ Followed

-----------------------------------------------------------------------------
(* Types.                                                                  *)

LEMMA Bounds ==
  /\ MaxPulls \in Nat /\ MaxCommits \in Nat /\ PullPage \in Nat /\ CommitPage \in Nat
  /\ MaxMeanwhile \in Nat /\ MaxFaults \in Nat /\ MaxMoves \in Nat
  BY GateAssumption

LEMMA MomentsAre == Moments \subseteq Nat /\ Moments # {}
  BY GateAssumption

LEMMA PolicyIs ==
  ASSUME policy \in Policies
  PROVE  /\ policy.minRate \in 0..100 /\ policy.minDecided \in Nat \ {0}
         /\ policy.windowDays \in Nat \ {0} /\ policy.minDetermined \in Nat \ {0}
         /\ policy.maxDefectRate \in 0..100
  BY GateAssumption DEF AutonomyPolicies

LEMMA IdleType ==
  ASSUME NEW now \in Moments
  PROVE  Idle(now) \in Readings
<1>1. Unread \in [Numbers -> Outcomes] /\ Unlisted \in [Shas -> Commits]
  BY DEF Unread, Outcomes, Unlisted, NoCommit, Commits
<1>2. 0 \in 0..MaxMeanwhile
  BY Bounds
<1> QED BY <1>1, <1>2 DEF Idle, Readings, ReadingPlaces

LEMMA OutcomeType ==
  ASSUME NEW n
  PROVE  OutcomeOf(n) \in Outcomes
  BY DEF OutcomeOf, ClassifyCheckRuns, Outcomes, Determined

LEMMA EarnedIsBoolean ==
  ASSUME NEW now, NEW prs, NEW outcomes, NEW repo, NEW loop, NEW environment
  PROVE  EarnedNow(now, prs, outcomes, repo, loop, policy, environment) \in BOOLEAN
  BY DEF EarnedNow, ClassGate, ClassEarned

LEMMA PushedType ==
  ASSUME TypeOK, NEW commit \in Commits, branch.tip < MaxCommits
  PROVE  Pushed(commit) \in [tip : 0..MaxCommits, commits : [Shas -> Commits]]
<1>1. branch.tip \in Nat /\ MaxCommits \in Nat /\ branch.commits \in [Shas -> Commits]
  BY Bounds DEF TypeOK
<1>2. branch.tip + 1 \in 0..MaxCommits
  BY <1>1
<1>3. [branch.commits EXCEPT ![branch.tip + 1] = commit] \in [Shas -> Commits]
  BY <1>1
<1> QED BY <1>2, <1>3 DEF Pushed

\* What the reading holds.
LEMMA ReadingIs ==
  ASSUME reading \in Readings
  PROVE  /\ reading.at \in ReadingPlaces /\ reading.now \in Moments
         /\ reading.prs \subseteq GithubPrs /\ reading.page \subseteq Shas
         /\ reading.commits \in [Shas -> Commits] /\ reading.todo \subseteq Numbers
         /\ reading.outcomes \in [Numbers -> Outcomes] /\ reading.whole \in BOOLEAN
         /\ reading.granted \in BOOLEAN /\ reading.meanwhile \in 0..MaxMeanwhile
  BY DEF Readings

LEMMA GatheredType ==
  ASSUME TypeOK, Fetch \/ FetchCommits \/ FetchChecks \/ Answer
  PROVE  reading' \in Readings
<1>1. reading \in Readings /\ clock \in Moments
  BY DEF TypeOK
<1>2. CASE Fetch
  <2>1. PICK env \in [Listed -> Models] :
          /\ \A n \in Listed : env[n] \in pulls[n].labels
          /\ Read([reading EXCEPT !.at = "commits", !.prs = {ToPr(n, env[n]) : n \in Listed}])
    BY <1>2 DEF Fetch
  <2>2. {ToPr(n, env[n]) : n \in Listed} \subseteq GithubPrs
    <3>1. ASSUME NEW n \in Listed PROVE ToPr(n, env[n]) \in GithubPrs
      <4>1. n \in Numbers /\ pulls[n] \in Pulls /\ env[n] \in Models
        BY DEF Listed, Labelled, TypeOK
      <4> QED BY <4>1 DEF ToPr, GithubPrs, Pulls
    <3> QED BY <3>1
  <2>3. reading' = [reading EXCEPT !.at = "commits", !.prs = {ToPr(n, env[n]) : n \in Listed}]
    BY <2>1 DEF Read
  <2> QED BY <1>1, <2>2, <2>3 DEF Readings, ReadingPlaces
<1>3. CASE FetchCommits
  <2> DEFINE numbers == {pr.number : pr \in RecentlyMerged}
  <2> DEFINE page == {i \in 1..branch.tip : branch.tip - i < CommitPage}
  <2>1. reading' = [reading EXCEPT
          !.at = IF numbers = {} THEN "answer" ELSE "checks", !.todo = numbers,
          !.page = page, !.commits = branch.commits]
    BY <1>3 DEF FetchCommits, Read
  <2>2. numbers \subseteq Numbers
    BY <1>1, ReadingIs DEF RecentlyMerged, GithubPrs
  <2>3. page \subseteq Shas /\ branch.commits \in [Shas -> Commits]
    <3>1. branch.tip \in 0..MaxCommits /\ branch.commits \in [Shas -> Commits]
      BY DEF TypeOK
    <3> QED BY <3>1, Bounds DEF Shas
  <2> HIDE DEF numbers, page
  <2> QED BY <1>1, <2>1, <2>2, <2>3 DEF Readings, ReadingPlaces
<1>4. CASE FetchChecks
  <2>1. PICK n \in reading.todo :
          reading' = [reading EXCEPT !.at = IF reading.todo = {n} THEN "answer" ELSE "checks",
                        !.todo = @ \ {n}, !.outcomes[n] = OutcomeOf(n)]
    BY <1>4 DEF FetchChecks, Read
  <2>2. OutcomeOf(n) \in Outcomes /\ n \in Numbers
    BY <1>1, ReadingIs, OutcomeType
  <2> QED BY <1>1, <2>1, <2>2 DEF Readings, ReadingPlaces
<1>5. CASE Answer
  <2> DEFINE granted == EarnedNow(reading.now, reading.prs, ByKey(reading.outcomes),
                                  Repo, Loop, policy, model)
  <2>1. reading' = [Idle(reading.now) EXCEPT !.at = "answered", !.whole = reading.whole,
                      !.granted = granted]
    BY <1>5 DEF Answer, Read
  <2>2. granted \in BOOLEAN /\ Idle(reading.now) \in Readings /\ reading.whole \in BOOLEAN
    BY <1>1, ReadingIs, IdleType, EarnedIsBoolean
  <2> HIDE DEF granted
  <2> QED BY <2>1, <2>2 DEF Readings, ReadingPlaces
<1> QED BY <1>2, <1>3, <1>4, <1>5

-----------------------------------------------------------------------------
(* The world: what it takes back, and what it leaves of a reading.         *)

\* A decided pull request stays as it is, but for the labels of the model in
\* force; the branch grows at its tip; a defect is forgotten with its checks.
PullKept(n) ==
  /\ pulls[n].labels \subseteq pulls'[n].labels
  /\ pulls'[n].labels \subseteq pulls[n].labels \cup {model}
  /\ pulls[n].state \in {"merged", "closed"} =>
       /\ pulls'[n].state = pulls[n].state /\ pulls'[n].sha = pulls[n].sha
       /\ pulls'[n].opened = pulls[n].opened /\ pulls'[n].merged = pulls[n].merged
CommitKept(i) ==
  /\ branch'.commits[i].refs = branch.commits[i].refs
  /\ branch'.commits[i].revert = branch.commits[i].revert
  /\ "bad" \in branch.commits[i].checks =>
       "bad" \in branch'.commits[i].checks \/ \A d \in known' : d[2] # i
WorldKept ==
  /\ \A n \in Numbers : PullKept(n)
  /\ branch.tip <= branch'.tip
  /\ \A i \in 1..branch.tip : CommitKept(i)
  /\ known' \subseteq known
  /\ model' = model /\ policy' = policy

ReadingKept ==
  /\ reading'.at = reading.at /\ reading'.now = reading.now
  /\ reading'.prs = reading.prs /\ reading'.page = reading.page
  /\ reading'.commits = reading.commits /\ reading'.todo = reading.todo
  /\ reading'.outcomes = reading.outcomes
  /\ reading'.whole = reading.whole /\ reading'.granted = reading.granted

LEMMA BranchIs ==
  ASSUME TypeOK
  PROVE  /\ branch.tip \in Nat /\ branch.tip \in 0..MaxCommits /\ MaxCommits \in Nat
         /\ branch.commits \in [Shas -> Commits]
         /\ 1..branch.tip \subseteq Shas
<1>1. branch.tip \in 0..MaxCommits /\ branch.commits \in [Shas -> Commits]
  BY DEF TypeOK
<1> QED BY <1>1, Bounds DEF Shas

LEMMA MeanwhileKeeps ==
  ASSUME TypeOK, Meanwhile
  PROVE  ReadingKept /\ reading' \in Readings
<1>1. reading \in Readings
  BY DEF TypeOK
<1>2. CASE UNCHANGED reading
  BY <1>1, <1>2 DEF ReadingKept
<1>3. CASE reading.meanwhile < MaxMeanwhile
           /\ reading' = [reading EXCEPT !.meanwhile = reading.meanwhile + 1]
  <2>1. reading.meanwhile + 1 \in 0..MaxMeanwhile
    BY <1>1, <1>3, ReadingIs, Bounds
  <2> QED BY <1>1, <1>3, <2>1 DEF ReadingKept, Readings
<1> QED BY <1>2, <1>3 DEF Meanwhile

\* One pull request changes.
LEMMA PullMoves ==
  ASSUME TypeOK, NEW n \in Numbers, NEW pull \in Pulls, NEW b,
         World([pulls EXCEPT ![n] = pull], b),
         b \in [tip : 0..MaxCommits, commits : [Shas -> Commits]],
         pulls[n].labels \subseteq pull.labels, pull.labels \subseteq pulls[n].labels \cup {model},
         pulls[n].state \in {"merged", "closed"} =>
           /\ pull.state = pulls[n].state /\ pull.sha = pulls[n].sha
           /\ pull.opened = pulls[n].opened /\ pull.merged = pulls[n].merged,
         branch.tip <= b.tip,
         \A i \in 1..branch.tip : b.commits[i] = branch.commits[i],
         moves' \in 0..MaxMoves, known' = known
  PROVE  TypeOK' /\ WorldKept /\ ReadingKept
<1>1. /\ pulls' = [pulls EXCEPT ![n] = pull] /\ branch' = b /\ Meanwhile
      /\ UNCHANGED <<model, policy, clock, faults>>
  BY DEF World, workerVars
<1>2. ReadingKept /\ reading' \in Readings
  BY <1>1, MeanwhileKeeps
<1>3. pulls' \in [Numbers -> Pulls]
  BY <1>1 DEF TypeOK
<1>4. TypeOK'
  BY <1>1, <1>2, <1>3 DEF TypeOK
<1>5. ASSUME NEW k \in Numbers PROVE PullKept(k)
  <2>1. pulls'[k] = IF k = n THEN pull ELSE pulls[k]
    BY <1>1 DEF TypeOK
  <2> QED BY <2>1 DEF PullKept
<1>6. \A i \in 1..branch.tip : CommitKept(i)
  BY <1>1 DEF CommitKept
<1> QED BY <1>1, <1>2, <1>4, <1>5, <1>6 DEF WorldKept

\* Only the branch changes.
LEMMA BranchMoves ==
  ASSUME TypeOK, NEW b, World(pulls, b),
         b \in [tip : 0..MaxCommits, commits : [Shas -> Commits]],
         branch.tip <= b.tip,
         \A i \in 1..branch.tip :
           /\ b.commits[i].refs = branch.commits[i].refs
           /\ b.commits[i].revert = branch.commits[i].revert
           /\ "bad" \in branch.commits[i].checks =>
                "bad" \in b.commits[i].checks \/ \A d \in known' : d[2] # i,
         moves' \in 0..MaxMoves, known' \subseteq known
  PROVE  TypeOK' /\ WorldKept /\ ReadingKept
<1>1. /\ pulls' = pulls /\ branch' = b /\ Meanwhile
      /\ UNCHANGED <<model, policy, clock, faults>>
  BY DEF World, workerVars
<1>2. ReadingKept /\ reading' \in Readings
  BY <1>1, MeanwhileKeeps
<1>3. known' \subseteq Numbers \X Shas
  BY DEF TypeOK
<1>4. TypeOK'
  BY <1>1, <1>2, <1>3 DEF TypeOK
<1>5. \A k \in Numbers : PullKept(k)
  BY <1>1 DEF PullKept
<1>6. \A i \in 1..branch.tip : CommitKept(i)
  BY <1>1 DEF CommitKept
<1> QED BY <1>1, <1>2, <1>4, <1>5, <1>6 DEF WorldKept

LEMMA MoveType ==
  ASSUME TypeOK, UNCHANGED moves \/ Move
  PROVE  moves' \in 0..MaxMoves
<1>1. moves \in 0..MaxMoves
  BY DEF TypeOK
<1> QED BY <1>1, Bounds DEF Move

LEMMA PushKeeps ==
  ASSUME TypeOK, NEW commit \in Commits, branch.tip < MaxCommits
  PROVE  /\ Pushed(commit) \in [tip : 0..MaxCommits, commits : [Shas -> Commits]]
         /\ branch.tip <= Pushed(commit).tip /\ branch.tip + 1 \in 0..MaxCommits
         /\ \A i \in 1..branch.tip : Pushed(commit).commits[i] = branch.commits[i]
<1>1. /\ Pushed(commit).tip = branch.tip + 1
      /\ Pushed(commit).commits = [branch.commits EXCEPT ![branch.tip + 1] = commit]
  BY DEF Pushed
<1> QED BY <1>1, BranchIs, PushedType

LEMMA MergeKeeps ==
  ASSUME TypeOK, NEW n \in Numbers, NEW refs \in SUBSET Numbers, MergeAs(n, refs),
         UNCHANGED moves \/ Move
  PROVE  TypeOK' /\ WorldKept /\ ReadingKept
<1> DEFINE commit == [NoCommit EXCEPT !.refs = refs]
           pull   == [pulls[n] EXCEPT !.state = "merged", !.merged = clock, !.sha = branch.tip + 1]
<1>1. commit \in Commits /\ branch.tip < MaxCommits /\ pulls[n] \in Pulls /\ pulls[n].state = "open"
  BY DEF NoCommit, Commits, MergeAs, TypeOK
<1>2. branch.tip + 1 \in 0..MaxCommits /\ clock \in Moments
  BY <1>1, PushKeeps DEF TypeOK
<1>3. /\ pull \in Pulls /\ pull.labels = pulls[n].labels
  BY <1>1, <1>2 DEF Pulls, PullStates
<1>4. World([pulls EXCEPT ![n] = pull], Pushed(commit)) /\ known' = known
  BY DEF MergeAs
<1> HIDE DEF pull, commit
<1> QED BY <1>1, <1>3, <1>4, PullMoves, PushKeeps, MoveType

LEMMA OutsideKeeps ==
  ASSUME TypeOK, Outside
  PROVE  TypeOK' /\ WorldKept /\ ReadingKept
<1>0. /\ branch \in [tip : 0..MaxCommits, commits : [Shas -> Commits]]
      /\ model \in Models /\ clock \in Moments /\ branch.tip <= branch.tip
  BY BranchIs DEF TypeOK
<1>1. ASSUME NEW n \in Numbers, OpenPull(n) PROVE TypeOK' /\ WorldKept /\ ReadingKept
  <2> DEFINE pull == [pulls[n] EXCEPT !.state = "open", !.opened = clock]
  <2>1. pulls[n] \in Pulls /\ pulls[n].state = "none"
    BY <1>1 DEF OpenPull, TypeOK
  <2>2. pull \in Pulls /\ pull.labels = pulls[n].labels
    BY <1>0, <2>1 DEF Pulls, PullStates
  <2>3. World([pulls EXCEPT ![n] = pull], branch) /\ known' = known /\ moves' = moves
    BY <1>1 DEF OpenPull
  <2> HIDE DEF pull
  <2> QED BY <1>0, <2>1, <2>2, <2>3, PullMoves, MoveType
<1>2. ASSUME NEW n \in Numbers, RecordOutcome(n) \/ RecordAgain(n)
      PROVE  TypeOK' /\ WorldKept /\ ReadingKept
  <2> DEFINE pull == [pulls[n] EXCEPT !.labels = @ \cup {model}]
  <2>1. pulls[n] \in Pulls
    BY DEF TypeOK
  <2>2. /\ pull \in Pulls /\ pull.labels = pulls[n].labels \cup {model}
        /\ pull.state = pulls[n].state /\ pull.sha = pulls[n].sha
        /\ pull.opened = pulls[n].opened /\ pull.merged = pulls[n].merged
    BY <1>0, <2>1 DEF Pulls
  <2>3. World([pulls EXCEPT ![n] = pull], branch) /\ known' = known /\ (UNCHANGED moves \/ Move)
    BY <1>2 DEF RecordOutcome, RecordAgain, Stamp
  <2> HIDE DEF pull
  <2> QED BY <1>0, <2>1, <2>2, <2>3, PullMoves, MoveType
<1>3. ASSUME NEW n \in Numbers, MergePull(n) \/ MergeUntitled(n)
      PROVE  TypeOK' /\ WorldKept /\ ReadingKept
  BY <1>3, MergeKeeps DEF MergePull, MergeUntitled
<1>4. ASSUME NEW n \in Numbers, ClosePull(n) PROVE TypeOK' /\ WorldKept /\ ReadingKept
  <2> DEFINE pull == [pulls[n] EXCEPT !.state = "closed"]
  <2>1. pulls[n] \in Pulls /\ pulls[n].state = "open"
    BY <1>4 DEF ClosePull, TypeOK
  <2>2. pull \in Pulls /\ pull.labels = pulls[n].labels
    BY <1>0, <2>1 DEF Pulls, PullStates
  <2>3. World([pulls EXCEPT ![n] = pull], branch) /\ known' = known /\ moves' = moves
    BY <1>4 DEF ClosePull
  <2> HIDE DEF pull
  <2> QED BY <1>0, <2>1, <2>2, <2>3, PullMoves, MoveType
<1>5. ASSUME NEW n \in Numbers, NEW revert \in BOOLEAN, Mention(n, revert)
      PROVE  TypeOK' /\ WorldKept /\ ReadingKept
  <2>1. CommitsOf(n, revert) \in Commits /\ branch.tip < MaxCommits
    BY <1>5 DEF CommitsOf, Commits, Mention
  <2>2. World(pulls, Pushed(CommitsOf(n, revert))) /\ known' = known /\ Move
    BY <1>5 DEF Mention
  <2>3. /\ Pushed(CommitsOf(n, revert)) \in [tip : 0..MaxCommits, commits : [Shas -> Commits]]
        /\ branch.tip <= Pushed(CommitsOf(n, revert)).tip
        /\ \A i \in 1..branch.tip : Pushed(CommitsOf(n, revert)).commits[i] = branch.commits[i]
    BY <2>1, PushKeeps
  <2> QED BY <2>2, <2>3, BranchMoves, MoveType
<1>6. ASSUME NEW i \in Shas, Report(i) PROVE TypeOK' /\ WorldKept /\ ReadingKept
  <2>1. PICK c \in {"ok", "bad"} \ branch.commits[i].checks :
          World(pulls, [branch EXCEPT !.commits[i].checks = @ \cup {c}])
    BY <1>6 DEF Report
  <2> DEFINE b == [branch EXCEPT !.commits[i].checks = @ \cup {c}]
  <2>2. branch.commits[i] \in Commits
    BY <1>0
  <2>3. /\ b.tip = branch.tip
        /\ b.commits = [branch.commits EXCEPT ![i] =
             [branch.commits[i] EXCEPT !.checks = branch.commits[i].checks \cup {c}]]
        /\ b \in [tip : 0..MaxCommits, commits : [Shas -> Commits]]
    BY <1>0, <2>2 DEF Commits
  <2>4. World(pulls, b) /\ known' = known /\ moves' = moves
    BY <1>6, <2>1 DEF Report
  <2> HIDE DEF b
  <2>5. \A j \in 1..branch.tip :
          /\ b.commits[j].refs = branch.commits[j].refs
          /\ b.commits[j].revert = branch.commits[j].revert
          /\ "bad" \in branch.commits[j].checks => "bad" \in b.commits[j].checks
    BY <2>2, <2>3, BranchIs DEF Commits
  <2> QED BY <1>0, <2>3, <2>4, <2>5, BranchMoves, MoveType
<1>7. ASSUME NEW i \in Shas, Rerun(i) PROVE TypeOK' /\ WorldKept /\ ReadingKept
  <2> DEFINE b == [branch EXCEPT !.commits[i].checks = {}]
  <2>2. branch.commits[i] \in Commits
    BY <1>0
  <2>3. /\ b.tip = branch.tip
        /\ b.commits = [branch.commits EXCEPT ![i] = [branch.commits[i] EXCEPT !.checks = {}]]
        /\ b \in [tip : 0..MaxCommits, commits : [Shas -> Commits]]
    BY <1>0, <2>2 DEF Commits
  <2>4. World(pulls, b) /\ known' = {d \in known : d[2] # i} /\ Move
    BY <1>7 DEF Rerun
  <2> HIDE DEF b
  <2>5. \A j \in 1..branch.tip :
          /\ b.commits[j].refs = branch.commits[j].refs
          /\ b.commits[j].revert = branch.commits[j].revert
          /\ "bad" \in branch.commits[j].checks =>
               "bad" \in b.commits[j].checks \/ \A d \in known' : d[2] # j
    BY <2>2, <2>3, <2>4, BranchIs DEF Commits
  <2> QED BY <1>0, <2>3, <2>4, <2>5, BranchMoves, MoveType
<1>8. CASE Age
  <2>1. ReadingKept /\ reading' \in Readings
    BY <1>8, MeanwhileKeeps DEF Age
  <2>2. UNCHANGED <<pulls, branch, model, policy, faults, moves, known>> /\ clock' \in Moments
    BY <1>8 DEF Age, workerVars, budgetVars
  <2>3. WorldKept
    BY <1>0, <2>2 DEF WorldKept, PullKept, CommitKept
  <2> QED BY <2>1, <2>2, <2>3 DEF TypeOK
<1> QED BY <1>1, <1>2, <1>3, <1>4, <1>5, <1>6, <1>7, <1>8 DEF Outside

\* The gate's own requests leave the world alone.
LEMMA RequestKeeps ==
  ASSUME TypeOK, Fetch \/ FetchCommits \/ FetchChecks \/ Answer \/ ReadFails
  PROVE  TypeOK' /\ UNCHANGED <<pulls, branch, clock, model, policy, known>>
<1>1. UNCHANGED <<pulls, branch, clock, model, policy, known, moves>>
  BY DEF Fetch, FetchCommits, FetchChecks, Answer, ReadFails, Read, githubVars, workerVars
<1>2. reading \in Readings /\ faults \in 0..MaxFaults
  BY DEF TypeOK
<1>3. CASE Fetch \/ FetchCommits \/ FetchChecks \/ Answer
  <2>1. reading' \in Readings /\ faults' = faults
    BY <1>3, GatheredType DEF Fetch, FetchCommits, FetchChecks, Answer
  <2> QED BY <1>1, <2>1 DEF TypeOK
<1>4. CASE ReadFails
  <2>1. faults' \in 0..MaxFaults
    BY <1>2, <1>4, Bounds DEF ReadFails
  <2>2. \/ reading' = [reading EXCEPT !.at = "answered", !.whole = FALSE]
        \/ reading' = [reading EXCEPT !.at = "answer", !.whole = FALSE]
    BY <1>4 DEF ReadFails, Read
  <2>3. reading' \in Readings
    BY <1>2, <2>2 DEF Readings, ReadingPlaces
  <2> QED BY <1>1, <2>1, <2>3 DEF TypeOK
<1> QED BY <1>1, <1>3, <1>4

LEMMA AskType ==
  ASSUME TypeOK, Ask
  PROVE  TypeOK'
<1>1. UNCHANGED <<pulls, branch, clock, model, policy, faults, moves>>
  BY DEF Ask, githubVars, workerVars, budgetVars
<1>2. Idle(clock) \in Readings
  BY IdleType DEF TypeOK
<1>3. \/ reading' = [Idle(clock) EXCEPT !.at = "pulls"]
      \/ reading' = [Idle(clock) EXCEPT !.at = "answered"]
  BY DEF Ask
<1>4. reading' \in Readings
  BY <1>2, <1>3 DEF Readings, ReadingPlaces
<1>5. known' \subseteq Numbers \X Shas
  BY DEF Ask, Defects
<1> QED BY <1>1, <1>4, <1>5 DEF TypeOK

LEMMA RedeployType ==
  ASSUME TypeOK, Redeploy
  PROVE  TypeOK'
<1>1. /\ UNCHANGED <<pulls, branch, clock, faults>> /\ Move
      /\ model' \in Models /\ policy' \in Policies
      /\ reading' = Idle(clock) /\ known' = {}
  BY DEF Redeploy, githubVars
<1>2. Idle(clock) \in Readings
  BY IdleType DEF TypeOK
<1> QED BY <1>1, <1>2, MoveType DEF TypeOK

LEMMA InitType ==
  ASSUME Init
  PROVE  TypeOK
<1>1. clock \in Moments /\ reading = Idle(clock) /\ branch = [tip |-> 0, commits |-> Unlisted]
  BY DEF Init
<1>2. Idle(clock) \in Readings
  BY <1>1, IdleType
<1>3. branch \in [tip : 0..MaxCommits, commits : [Shas -> Commits]]
  BY <1>1, Bounds DEF Unlisted, NoCommit, Commits
<1>4. 0 \in 0..MaxFaults /\ 0 \in 0..MaxMoves /\ 0 \in 0..MaxCommits
  BY Bounds
<1>5. pulls \in [Numbers -> Pulls]
  <2>1. (CHOOSE t \in Moments : TRUE) \in Moments
    BY MomentsAre
  <2> QED BY <1>4, <2>1 DEF Init, Pulls, PullStates
<1> QED BY <1>1, <1>2, <1>3, <1>4, <1>5 DEF Init, TypeOK

LEMMA NextType ==
  ASSUME TypeOK, [Next]_vars
  PROVE  TypeOK'
<1>1. CASE UNCHANGED vars
  BY <1>1 DEF TypeOK, vars, githubVars, workerVars, budgetVars
<1> QED BY <1>1, AskType, RequestKeeps, OutsideKeeps, RedeployType DEF Next, AutoMergeEligible

-----------------------------------------------------------------------------
(* What was read stays true of GitHub.                                     *)

LEMMA PullsRead ==
  ASSUME TypeOK, NEW pr \in reading.prs
  PROVE  pr \in GithubPrs /\ pr.number \in Numbers
<1>1. pr \in GithubPrs
  BY ReadingIs DEF TypeOK
<1> QED BY <1>1 DEF GithubPrs

LEMMA FaithfulKept ==
  ASSUME TypeOK, TypeOK', Faithful, WorldKept, ReadingKept
  PROVE  Faithful'
<1>0. /\ reading.page \subseteq 1..branch.tip
      /\ branch.tip \in Nat /\ branch'.tip \in Nat /\ branch.tip <= branch'.tip
      /\ 1..branch.tip \subseteq 1..branch'.tip
  <2>1. branch.tip \in Nat /\ branch'.tip \in Nat
    BY Bounds DEF TypeOK
  <2> QED BY <2>1 DEF Faithful, WorldKept
<1>1. ASSUME NEW pr \in reading.prs
      PROVE  /\ pr.env \in pulls'[pr.number].labels
             /\ pr.state \in {"merged", "closed"} => pulls'[pr.number].state = pr.state
  BY PullsRead DEF Faithful, WorldKept, PullKept
<1>2. \A i \in reading.page : /\ reading.commits[i].refs = branch'.commits[i].refs
                              /\ reading.commits[i].revert = branch'.commits[i].revert
  BY <1>0 DEF Faithful, WorldKept, CommitKept
<1>3. ASSUME NEW n \in Numbers, reading.outcomes[n] \in Determined
      PROVE  \E i \in 1..branch'.tip : n \in branch'.commits[i].refs
  BY <1>0, <1>3 DEF Faithful, WorldKept, CommitKept
<1> QED BY <1>0, <1>1, <1>2, <1>3 DEF Faithful, ReadingKept

\* A fresh reading says nothing.
LEMMA IdleFaithful ==
  ASSUME TypeOK', NEW now, NEW place,
         reading' = [Idle(now) EXCEPT !.at = place] \/ reading' = Idle(now)
  PROVE  Faithful'
<1>1. /\ reading'.prs = {} /\ reading'.page = {}
      /\ reading'.outcomes = Unread
  BY DEF Idle
<1>2. \A n \in Numbers : reading'.outcomes[n] \notin Determined
  BY <1>1 DEF Unread, Determined
<1> QED BY <1>1, <1>2 DEF Faithful

LEMMA FetchFaithful ==
  ASSUME TypeOK, TypeOK', Faithful, Fetch
  PROVE  Faithful'
<1>1. PICK env \in [Listed -> Models] :
        /\ \A n \in Listed : env[n] \in pulls[n].labels
        /\ Read([reading EXCEPT !.at = "commits", !.prs = {ToPr(n, env[n]) : n \in Listed}])
  BY DEF Fetch
<1>2. /\ reading'.prs = {ToPr(n, env[n]) : n \in Listed}
      /\ reading'.page = reading.page /\ reading'.commits = reading.commits
      /\ reading'.outcomes = reading.outcomes
  BY <1>1, ReadingIs DEF Read, TypeOK, Readings
<1>3. pulls' = pulls /\ branch' = branch
  BY RequestKeeps
<1>4. \A pr \in reading'.prs : \E n \in Listed : pr = ToPr(n, env[n])
  BY <1>2
<1>5. \A n \in Listed : /\ ToPr(n, env[n]).number = n /\ ToPr(n, env[n]).env = env[n]
                        /\ ToPr(n, env[n]).state = pulls[n].state
  BY DEF ToPr
<1> QED BY <1>1, <1>2, <1>3, <1>4, <1>5 DEF Faithful

LEMMA FetchCommitsFaithful ==
  ASSUME TypeOK, TypeOK', Faithful, FetchCommits
  PROVE  Faithful'
<1>1. /\ reading'.prs = reading.prs /\ reading'.outcomes = reading.outcomes
      /\ reading'.page = {i \in 1..branch.tip : branch.tip - i < CommitPage}
      /\ reading'.commits = branch.commits
  BY DEF FetchCommits, Read, TypeOK, Readings
<1>2. pulls' = pulls /\ branch' = branch
  BY RequestKeeps
<1> QED BY <1>1, <1>2 DEF Faithful

\* An outcome is determined only by commits that mention the pull request.
LEMMA OutcomeOnRecord ==
  ASSUME TypeOK, Faithful, NEW n \in Numbers, OutcomeOf(n) \in Determined
  PROVE  \E i \in 1..branch.tip : n \in branch.commits[i].refs
<1> DEFINE sha == MergeSha(reading.page, reading.commits, n)
<1>1. CASE n \in Reverted(reading.page, reading.commits)
  BY <1>1 DEF Reverted, Faithful
<1>2. CASE n \notin Reverted(reading.page, reading.commits) /\ sha # {}
  BY <1>2 DEF MergeSha, Faithful
<1>3. CASE n \notin Reverted(reading.page, reading.commits) /\ sha = {}
  BY <1>3 DEF OutcomeOf, Determined
<1> QED BY <1>1, <1>2, <1>3

LEMMA FetchChecksFaithful ==
  ASSUME TypeOK, TypeOK', Faithful, FetchChecks
  PROVE  Faithful'
<1>1. PICK n \in reading.todo :
        reading' = [reading EXCEPT !.at = IF reading.todo = {n} THEN "answer" ELSE "checks",
                      !.todo = @ \ {n}, !.outcomes[n] = OutcomeOf(n)]
  BY DEF FetchChecks, Read
<1>2. /\ reading'.prs = reading.prs /\ reading'.page = reading.page
      /\ reading'.commits = reading.commits
      /\ reading'.outcomes = [reading.outcomes EXCEPT ![n] = OutcomeOf(n)]
      /\ n \in Numbers /\ reading.outcomes \in [Numbers -> Outcomes]
  BY <1>1, ReadingIs DEF TypeOK, Readings
<1>3. pulls' = pulls /\ branch' = branch
  BY RequestKeeps
<1>4. \A k \in Numbers : reading'.outcomes[k] \in Determined =>
        \E i \in 1..branch.tip : k \in branch.commits[i].refs
  BY <1>2, OutcomeOnRecord DEF Faithful
<1> QED BY <1>2, <1>3, <1>4 DEF Faithful

LEMMA AnswerFaithful ==
  ASSUME TypeOK, TypeOK', Faithful, Answer \/ ReadFails
  PROVE  Faithful'
<1>1. CASE Answer
  <2>1. /\ reading'.prs = {} /\ reading'.page = {} /\ reading'.outcomes = Unread
    BY <1>1 DEF Answer, Read, Idle
  <2>2. \A n \in Numbers : reading'.outcomes[n] \notin Determined
    BY <2>1 DEF Unread, Determined
  <2> QED BY <2>1, <2>2 DEF Faithful
<1>2. CASE ReadFails
  <2>1. /\ reading'.prs = reading.prs /\ reading'.page = reading.page
        /\ reading'.commits = reading.commits /\ reading'.outcomes = reading.outcomes
    BY <1>2 DEF ReadFails, Read, TypeOK, Readings
  <2>2. pulls' = pulls /\ branch' = branch
    BY <1>2, RequestKeeps
  <2> QED BY <2>1, <2>2 DEF Faithful
<1> QED BY <1>1, <1>2

LEMMA NextFaithful ==
  ASSUME TypeOK, Faithful, [Next]_vars
  PROVE  Faithful'
<1>1. TypeOK'
  BY NextType
<1>2. CASE Ask \/ Redeploy
  BY <1>1, <1>2, IdleFaithful DEF Ask, Redeploy
<1>3. CASE UNCHANGED vars
  BY <1>3 DEF Faithful, vars, githubVars
<1>4. CASE Outside
  BY <1>1, <1>4, OutsideKeeps, FaithfulKept
<1> QED BY <1>1, <1>2, <1>3, <1>4, FetchFaithful, FetchCommitsFaithful, FetchChecksFaithful,
           AnswerFaithful DEF Next, AutoMergeEligible

-----------------------------------------------------------------------------
(* A grant and the evidence it stands on.                                  *)

LEMMA NumbersFinite ==
  ASSUME NEW S \in SUBSET Numbers
  PROVE  IsFiniteSet(S) /\ Cardinality(S) \in Nat
<1>1. IsFiniteSet(1..MaxPulls)
  BY Bounds, FS_Interval
<1> QED BY <1>1, FS_Subset, FS_CardinalityType DEF Numbers

LEMMA MoreNumbers ==
  ASSUME NEW S \in SUBSET Numbers, NEW T \in SUBSET Numbers, S \subseteq T
  PROVE  Cardinality(S) <= Cardinality(T)
  BY NumbersFinite, FS_Subset

\* The rows that the class is judged by.
Rows ==
  UnderEnvironment(
    InWindow(reading.now, BumpRows(reading.prs, {}, ByKey(reading.outcomes)), Repo, Loop, policy),
    model)
MergedRows     == {r \in Rows : r.state = "merged"}
DeterminedRows == {r \in MergedRows : r.postMerge \in Determined}
DefectRows     == {r \in MergedRows : r.postMerge \in {"broke", "reverted"}}

LEMMA RowOf ==
  ASSUME TypeOK, NEW pr \in reading.prs
  PROVE  LET r == BumpRow(pr, {}, ByKey(reading.outcomes)) IN
         /\ r.number = pr.number /\ r.state = pr.state /\ r.env = pr.env
         /\ r.repo = Repo /\ r.loop = Loop /\ r.merged = pr.merged /\ r.opened = pr.opened
         /\ r.postMerge = reading.outcomes[pr.number]
<1>1. pr \in GithubPrs
  BY PullsRead
<1>2. pr.repo = Repo /\ pr.loop = Loop /\ pr.number \in Numbers
  BY <1>1 DEF GithubPrs
<1>3. ByKey(reading.outcomes)[<<pr.repo, pr.number>>] = reading.outcomes[pr.number]
  BY <1>2 DEF ByKey
<1> QED BY <1>2, <1>3 DEF BumpRow

\* Each row is of one pull request of GitHub, decided as the row says and
\* stamped with the model in force; and no two rows are of the same one.
LEMMA RowsAre ==
  ASSUME TypeOK, Faithful
  PROVE  /\ \A r \in Rows : /\ r.number \in Numbers
                            /\ pulls[r.number].state = r.state /\ model \in pulls[r.number].labels
                            /\ r.state \in {"merged", "closed"}
                            /\ r.postMerge = reading.outcomes[r.number]
         /\ \A q, r \in Rows : q.number = r.number => q = r
<1>1. model # ""
  BY GateAssumption DEF TypeOK
<1>2. ASSUME NEW r \in Rows
      PROVE  \E pr \in reading.prs : /\ r = BumpRow(pr, {}, ByKey(reading.outcomes))
                                     /\ r.env = model /\ r.state \in {"merged", "closed"}
  BY <1>1 DEF Rows, UnderEnvironment, InWindow, BumpRows
<1>3. ASSUME NEW r \in Rows
      PROVE  /\ r.number \in Numbers
             /\ pulls[r.number].state = r.state /\ model \in pulls[r.number].labels
             /\ r.state \in {"merged", "closed"}
             /\ r.postMerge = reading.outcomes[r.number]
  <2>1. PICK pr \in reading.prs : /\ r = BumpRow(pr, {}, ByKey(reading.outcomes))
                                  /\ r.env = model /\ r.state \in {"merged", "closed"}
    BY <1>2
  <2>2. /\ r.number = pr.number /\ r.state = pr.state /\ r.env = pr.env
        /\ r.postMerge = reading.outcomes[pr.number]
    BY <2>1, RowOf
  <2> QED BY <2>1, <2>2, PullsRead DEF Faithful
<1>4. ASSUME NEW q \in Rows, NEW r \in Rows, q.number = r.number
      PROVE  q = r
  <2>1. PICK pq \in reading.prs : q = BumpRow(pq, {}, ByKey(reading.outcomes))
    BY <1>2
  <2>2. PICK pr \in reading.prs : r = BumpRow(pr, {}, ByKey(reading.outcomes))
    BY <1>2
  <2>3. pq = pr
    BY <1>4, <2>1, <2>2, RowOf DEF Faithful
  <2> QED BY <2>1, <2>2, <2>3
<1> QED BY <1>3, <1>4

LEMMA CountRows ==
  ASSUME TypeOK, Faithful, NEW S \in SUBSET Rows, NEW T \in SUBSET Numbers,
         \A r \in S : r.number \in T
  PROVE  IsFiniteSet(S) /\ Cardinality(S) \in Nat /\ Cardinality(S) <= Cardinality(T)
<1> DEFINE f == [r \in S |-> r.number]
<1>1. f \in Injection(S, T)
  <2>1. f \in [S -> T]
    OBVIOUS
  <2>2. \A q, r \in S : f[q] = f[r] => q = r
    BY RowsAre
  <2> QED BY <2>1, <2>2 DEF Injection, IsInjective
<1>2. IsFiniteSet(T)
  BY NumbersFinite
<1> QED BY <1>1, <1>2, FS_Injection, FS_CardinalityType

\* What the policy asks for is there when it says yes.
LEMMA EarnedMeans ==
  ASSUME TypeOK, Faithful,
         EarnedNow(reading.now, reading.prs, ByKey(reading.outcomes), Repo, Loop, policy, model)
  PROVE  /\ Cardinality(Decided) >= policy.minDecided
         /\ Cardinality(Confirmed) >= policy.minDetermined
         /\ policy.maxDefectRate = 0 => DefectRows = {}
<1>1. LET s == Standing(Rows) IN
      /\ s.decided = Cardinality(Rows)
      /\ s.determined = Cardinality(DeterminedRows)
      /\ s.defects = Cardinality(DefectRows)
  BY DEF Standing, MergedRows, DeterminedRows, DefectRows
<1>2. ClassEarned(Standing(Rows), policy)
  BY DEF EarnedNow, ClassGate, Rows
<1>3. /\ Cardinality(Rows) >= policy.minDecided
      /\ Cardinality(DeterminedRows) >= policy.minDetermined
      /\ 100 * Cardinality(DefectRows) <= policy.maxDefectRate * Cardinality(DeterminedRows)
  BY <1>1, <1>2 DEF ClassEarned
<1>4. Cardinality(Rows) \in Nat /\ Cardinality(Rows) <= Cardinality(Decided)
  <2>1. \A r \in Rows : r.number \in Decided
    BY RowsAre DEF Decided
  <2>2. Rows \in SUBSET Rows /\ Decided \in SUBSET Numbers
    BY DEF Decided
  <2> QED BY <2>1, <2>2, CountRows
<1>5. /\ Cardinality(DeterminedRows) \in Nat
      /\ Cardinality(DeterminedRows) <= Cardinality(Confirmed)
  <2>1. ASSUME NEW r \in DeterminedRows PROVE r.number \in Confirmed
    <3>1. /\ r \in Rows /\ r.state = "merged" /\ r.postMerge \in Determined
      BY DEF DeterminedRows, MergedRows
    <3>2. \E i \in 1..branch.tip : r.number \in branch.commits[i].refs
      BY <3>1, RowsAre DEF Faithful
    <3> QED BY <3>1, <3>2, RowsAre DEF Confirmed, RealMerges
  <2>2. DeterminedRows \in SUBSET Rows /\ Confirmed \in SUBSET Numbers
    BY DEF DeterminedRows, MergedRows, Confirmed, RealMerges
  <2> QED BY <2>1, <2>2, CountRows
<1>6. IsFiniteSet(DefectRows) /\ Cardinality(DefectRows) \in Nat
  <2>1. /\ DefectRows \in SUBSET Rows /\ Numbers \in SUBSET Numbers
        /\ \A r \in DefectRows : r.number \in Numbers
    BY RowsAre DEF DefectRows, MergedRows
  <2> QED BY <2>1, CountRows
<1>7. policy.minDecided \in Nat /\ policy.minDetermined \in Nat
  BY PolicyIs DEF TypeOK
<1>8. Cardinality(Decided) \in Nat /\ Cardinality(Confirmed) \in Nat
  BY NumbersFinite DEF Decided, Confirmed, RealMerges
<1>9. ASSUME policy.maxDefectRate = 0 PROVE DefectRows = {}
  <2>1. 100 * Cardinality(DefectRows) <= 0
    <3>1. 100 * Cardinality(DefectRows) <= 0 * Cardinality(DeterminedRows)
      BY <1>3, <1>9
    <3> QED BY <1>5, <3>1
  <2>2. Cardinality(DefectRows) = 0
    BY <1>6, <2>1
  <2> QED BY <1>6, <2>2, FS_EmptySet
<1> QED BY <1>3, <1>4, <1>5, <1>7, <1>8, <1>9

\* What was evidence stays evidence, under the same model.
LEMMA EvidenceKept ==
  ASSUME TypeOK, TypeOK', WorldKept
  PROVE  /\ Cardinality(Decided) \in Nat /\ Cardinality(Decided)' \in Nat
         /\ Cardinality(Confirmed) \in Nat /\ Cardinality(Confirmed)' \in Nat
         /\ Cardinality(Decided) <= Cardinality(Decided)'
         /\ Cardinality(Confirmed) <= Cardinality(Confirmed)'
<1>1. 1..branch.tip \subseteq 1..branch'.tip
  BY Bounds DEF TypeOK, WorldKept
<1>2. Decided \subseteq Decided'
  BY DEF Decided, WorldKept, PullKept
<1>3. Confirmed \subseteq Confirmed'
  <2>1. RealMerges \subseteq RealMerges'
    BY DEF RealMerges, WorldKept, PullKept
  <2> QED BY <1>1, <2>1 DEF Confirmed, WorldKept, CommitKept
<1>4. /\ Decided \in SUBSET Numbers /\ Decided' \in SUBSET Numbers
      /\ Confirmed \in SUBSET Numbers /\ Confirmed' \in SUBSET Numbers
  BY DEF Decided, Confirmed, RealMerges
<1> QED BY <1>2, <1>3, <1>4, NumbersFinite, MoreNumbers

LEMMA NextVouched ==
  ASSUME TypeOK, Faithful, Vouched, [Next]_vars
  PROVE  Vouched'
<1>1. TypeOK'
  BY NextType
<1>2. CASE Ask \/ Redeploy
  <2>1. reading'.granted = FALSE
    <3>1. CASE Ask
      BY <3>1 DEF Ask, Idle
    <3>2. CASE Redeploy
      BY <3>2 DEF Redeploy, Idle
    <3> QED BY <1>2, <3>1, <3>2
  <2> QED BY <2>1 DEF Vouched, Granted
<1>3. CASE UNCHANGED vars
  BY <1>3 DEF Vouched, Granted, At, Decided, Confirmed, RealMerges, vars, githubVars, workerVars
<1>4. CASE Outside
  <2>1. WorldKept /\ ReadingKept
    BY <1>4, OutsideKeeps
  <2>2. Granted' <=> Granted
    BY <2>1 DEF ReadingKept, Granted, At
  <2>3. policy' = policy /\ policy.minDecided \in Nat /\ policy.minDetermined \in Nat
    BY <2>1, PolicyIs DEF WorldKept, TypeOK
  <2>4. reading'.granted => At("answered")'
    BY <2>1 DEF ReadingKept, Vouched, At
  <2> QED BY <1>1, <2>1, <2>2, <2>3, <2>4, EvidenceKept DEF Vouched
<1>5. CASE Answer
  <2> DEFINE granted == EarnedNow(reading.now, reading.prs, ByKey(reading.outcomes),
                                  Repo, Loop, policy, model)
  <2>1. reading'.at = "answered" /\ reading'.granted = granted
    BY <1>5 DEF Answer, Read, Idle
  <2>2. /\ Decided' = Decided /\ Confirmed' = Confirmed /\ policy' = policy
    BY <1>5, RequestKeeps DEF Decided, Confirmed, RealMerges
  <2>3. Granted' => granted
    BY <2>1, Zenon DEF Granted
  <2>4. granted => /\ Cardinality(Decided) >= policy.minDecided
                   /\ Cardinality(Confirmed) >= policy.minDetermined
    BY EarnedMeans
  <2> HIDE DEF granted
  <2> QED BY <2>1, <2>2, <2>3, <2>4 DEF Vouched, At
<1>6. CASE Fetch \/ FetchCommits \/ FetchChecks \/ ReadFails
  <2>1. ~At("answered") /\ reading'.granted = reading.granted
    BY <1>6 DEF Fetch, FetchCommits, FetchChecks, ReadFails, Read, At, TypeOK, Readings
  <2>2. ~reading'.granted
    BY <2>1, Zenon DEF Vouched
  <2> QED BY <2>2 DEF Vouched, Granted
<1> QED BY <1>2, <1>3, <1>4, <1>5, <1>6 DEF Next, AutoMergeEligible

-----------------------------------------------------------------------------
(* A defect on record is followed into the answer.                         *)

LEMMA KnownAre ==
  ASSUME TypeOK, NEW d \in known
  PROVE  d[1] \in Numbers /\ d[2] \in Shas
  BY DEF TypeOK

\* What hides a defect hides it for good: more pull requests and commits only
\* push it further down its page.
LEMMA HiddenKept ==
  ASSUME TypeOK, TypeOK', WorldKept, NEW n \in Numbers, NEW i \in 1..branch.tip,
         pulls[n].state = "merged", Hidden(n, i)
  PROVE  Hidden(n, i)'
<1>1. branch.tip \in Nat /\ branch'.tip \in Nat /\ branch.tip <= branch'.tip /\ CommitPage \in Nat
  BY Bounds DEF TypeOK, WorldKept
<1>2. CommitKept(i) /\ PullKept(n)
  BY DEF WorldKept
<1>3. CASE Cardinality(Newer(n)) >= PullPage
  <2>1. Newer(n) \subseteq Newer(n)' /\ Newer(n) \in SUBSET Numbers /\ Newer(n)' \in SUBSET Numbers
    BY DEF Newer, Labelled, WorldKept, PullKept
  <2>2. /\ Cardinality(Newer(n)) \in Nat /\ Cardinality(Newer(n)') \in Nat
        /\ Cardinality(Newer(n)) <= Cardinality(Newer(n)') /\ PullPage \in Nat
    BY <2>1, NumbersFinite, MoreNumbers, Bounds
  <2>3. Cardinality(Newer(n)') >= PullPage
    BY <1>3, <2>2
  <2> QED BY <2>3 DEF Hidden
<1>4. CASE Off(i)
  BY <1>1, <1>4 DEF Off, Hidden
<1>5. CASE ~branch.commits[i].revert /\ n \notin branch.commits[i].refs
  BY <1>2, <1>5 DEF Hidden, CommitKept
<1>6. CASE ~branch.commits[i].revert /\ Overshadowed(n)
  <2>1. PICK j \in 1..branch.tip : /\ j > pulls[n].sha /\ ~branch.commits[j].revert
                                  /\ n \in branch.commits[j].refs
    BY <1>6 DEF Overshadowed
  <2>2. CommitKept(j) /\ j \in 1..branch'.tip /\ pulls'[n].sha = pulls[n].sha
    BY <1>1, <1>2 DEF WorldKept, PullKept
  <2>3. Overshadowed(n)'
    BY <2>1, <2>2 DEF Overshadowed, CommitKept
  <2> QED BY <1>2, <1>6, <2>3 DEF Hidden, CommitKept
<1> QED BY <1>3, <1>4, <1>5, <1>6 DEF Hidden

LEMMA OnRecordKept ==
  ASSUME TypeOK, TypeOK', WorldKept, ReadingKept, NEW d \in known', OnRecord(d[1], d[2])
  PROVE  OnRecord(d[1], d[2])'
<1> DEFINE n == d[1]
           i == d[2]
<1>1. d \in known /\ n \in Numbers /\ i \in Shas /\ PullKept(n)
  BY KnownAre DEF WorldKept
<1>2. /\ pulls'[n].state = "merged" /\ pulls'[n].labels = {model}
      /\ pulls'[n].merged = pulls[n].merged /\ pulls'[n].sha = pulls[n].sha
  BY <1>1 DEF PullKept, OnRecord
<1>3. i \in 1..branch.tip /\ CommitKept(i) /\ i \in 1..branch'.tip
  <2>1. branch.tip \in Nat /\ branch'.tip \in Nat /\ branch.tip <= branch'.tip
    BY Bounds DEF TypeOK, WorldKept
  <2>2. i \in 1..branch.tip
    BY DEF OnRecord, Evidence
  <2> QED BY <2>1, <2>2 DEF WorldKept
<1>4. (i \in Evidence(n))'
  BY <1>2, <1>3 DEF OnRecord, Evidence, CommitKept
<1>5. Within(pulls[n].merged, reading.now, policy.windowDays)'
  BY <1>2 DEF OnRecord, Within, ReadingKept, WorldKept
<1> QED BY <1>2, <1>4, <1>5 DEF OnRecord, WorldKept

LEMMA OnItsWayKept ==
  ASSUME WorldKept, ReadingKept, NEW n \in Numbers, NEW i,
         pulls[n].state = "merged", OnItsWay(n, i)
  PROVE  OnItsWay(n, i)'
<1>1. PullKept(n) /\ model' = model
  BY DEF WorldKept
<1>2. ToPr(n, model)' = ToPr(n, model)
  BY <1>1 DEF ToPr, PullKept
<1>3. /\ reading'.at = reading.at /\ reading'.prs = reading.prs /\ reading'.page = reading.page
      /\ reading'.whole = reading.whole /\ reading'.todo = reading.todo
      /\ reading'.outcomes = reading.outcomes
  BY DEF ReadingKept
<1> QED BY <1>2, <1>3 DEF OnItsWay, At

\* Only the checks of merges are ever reported.
LEMMA RevertsUnread ==
  ASSUME TypeOK, [Next]_vars,
         \A i \in Shas : branch.commits[i].revert => branch.commits[i].checks = {}
  PROVE  \A i \in Shas : branch'.commits[i].revert => branch'.commits[i].checks = {}
<1>0. branch.commits \in [Shas -> Commits] /\ branch.tip \in Nat
      /\ branch \in [tip : 0..MaxCommits, commits : [Shas -> Commits]]
  BY BranchIs DEF TypeOK
<1>1. ASSUME branch' = branch
      PROVE  \A i \in Shas : branch'.commits[i].revert => branch'.commits[i].checks = {}
  BY <1>1
<1>2. ASSUME NEW commit, branch' = Pushed(commit), commit.checks = {}
      PROVE  \A i \in Shas : branch'.commits[i].revert => branch'.commits[i].checks = {}
  <2>1. branch'.commits = [branch.commits EXCEPT ![branch.tip + 1] = commit]
    BY <1>2 DEF Pushed
  <2> QED BY <1>0, <1>2, <2>1
<1>3. ASSUME NEW n \in Numbers, MergePull(n) \/ MergeUntitled(n)
      PROVE  \A i \in Shas : branch'.commits[i].revert => branch'.commits[i].checks = {}
  <2>1. PICK refs : branch' = Pushed([NoCommit EXCEPT !.refs = refs])
    BY <1>3 DEF MergePull, MergeUntitled, MergeAs, World
  <2>2. [NoCommit EXCEPT !.refs = refs].checks = {}
    BY DEF NoCommit
  <2> QED BY <1>2, <2>1, <2>2
<1>4. ASSUME NEW n \in Numbers, NEW revert \in BOOLEAN, Mention(n, revert)
      PROVE  \A i \in Shas : branch'.commits[i].revert => branch'.commits[i].checks = {}
  <2>1. branch' = Pushed(CommitsOf(n, revert)) /\ CommitsOf(n, revert).checks = {}
    BY <1>4 DEF Mention, World, CommitsOf
  <2> QED BY <1>2, <2>1
<1>5. ASSUME NEW i \in Shas, Report(i) \/ Rerun(i), NEW k \in Shas, branch'.commits[k].revert
      PROVE  branch'.commits[k].checks = {}
  <2>1. branch.commits[i] \in Commits /\ branch.commits[k] \in Commits
    BY <1>0
  <2>2. CASE Report(i)
    <3>1. PICK c \in {"ok", "bad"} \ branch.commits[i].checks :
            branch' = [branch EXCEPT !.commits[i].checks = @ \cup {c}]
      BY <2>2 DEF Report, World
    <3>2. ~branch.commits[i].revert
      BY <2>2 DEF Report
    <3>3. branch'.commits[k] =
            IF k = i THEN [branch.commits[i] EXCEPT !.checks = branch.commits[i].checks \cup {c}]
                     ELSE branch.commits[k]
      BY <1>0, <2>1, <3>1
    <3>4. CASE k = i
      BY <1>5, <2>1, <3>2, <3>3, <3>4 DEF Commits
    <3>5. CASE k # i
      BY <1>5, <3>3, <3>5
    <3> QED BY <3>4, <3>5
  <2>3. CASE Rerun(i)
    <3>1. branch' = [branch EXCEPT !.commits[i].checks = {}]
      BY <2>3 DEF Rerun, World
    <3>2. branch'.commits[k] =
            IF k = i THEN [branch.commits[i] EXCEPT !.checks = {}] ELSE branch.commits[k]
      BY <1>0, <2>1, <3>1
    <3> QED BY <1>5, <2>1, <3>2 DEF Commits
  <2> QED BY <1>5, <2>2, <2>3
<1>6. CASE Ask \/ Redeploy \/ Age \/ UNCHANGED vars
  BY <1>1, <1>6 DEF Ask, Redeploy, Age, vars, githubVars
<1>7. CASE Fetch \/ FetchCommits \/ FetchChecks \/ Answer \/ ReadFails
  BY <1>1, <1>7, RequestKeeps
<1>8. ASSUME NEW n \in Numbers, OpenPull(n) \/ RecordOutcome(n) \/ RecordAgain(n) \/ ClosePull(n)
      PROVE  branch' = branch
  BY <1>8 DEF OpenPull, RecordOutcome, RecordAgain, ClosePull, Stamp, World
<1> QED BY <1>1, <1>3, <1>4, <1>5, <1>6, <1>7, <1>8 DEF Next, AutoMergeEligible, Outside

\* The gate reads off a defect that is neither hidden nor cut short what it is.
LEMMA DefectRead ==
  ASSUME TypeOK, Faithful, NEW n \in Numbers, NEW i \in reading.page,
         \A k \in Shas : branch.commits[k].revert => branch.commits[k].checks = {},
         OnRecord(n, i), ~Hidden(n, i)
  PROVE  OutcomeOf(n) \in {"broke", "reverted"}
<1> DEFINE page    == reading.page
           commits == reading.commits
           sha     == MergeSha(page, commits, n)
<1>1. /\ i \in Shas /\ i \in 1..branch.tip /\ page \subseteq 1..branch.tip /\ branch.tip \in Nat
      /\ \A k \in page : /\ commits[k].refs = branch.commits[k].refs
                         /\ commits[k].revert = branch.commits[k].revert
  BY BranchIs DEF Faithful
<1>2. CASE n \in Reverted(page, commits)
  BY <1>2 DEF OutcomeOf
<1>3. CASE n \notin Reverted(page, commits)
  <2>1. ~(branch.commits[i].revert /\ n \in branch.commits[i].refs)
    BY <1>1, <1>3 DEF Reverted
  <2>2. i = pulls[n].sha /\ "bad" \in branch.commits[i].checks
    BY <2>1 DEF OnRecord, Evidence
  <2>3. ~branch.commits[i].revert
    BY <1>1, <2>2
  <2>4. n \in branch.commits[i].refs /\ ~Overshadowed(n)
    BY <2>3 DEF Hidden
  <2>5. ASSUME NEW j \in page, ~commits[j].revert, n \in commits[j].refs
        PROVE  j <= i
    BY <1>1, <2>2, <2>4, <2>5 DEF Overshadowed
  <2>6. i \in sha
    BY <1>1, <2>3, <2>4, <2>5 DEF MergeSha
  <2>7. "bad" \in UNION {branch.commits[k].checks : k \in sha}
    BY <2>2, <2>6
  <2>8. OutcomeOf(n) = ClassifyCheckRuns(UNION {branch.commits[k].checks : k \in sha})
    BY <1>3, <2>6 DEF OutcomeOf
  <2> HIDE DEF sha
  <2> QED BY <2>7, <2>8 DEF ClassifyCheckRuns
<1> QED BY <1>2, <1>3

\* A request leaves what hides a defect, and what puts it on record, alone.
LEMMA RequestHides ==
  ASSUME TypeOK, Fetch \/ FetchCommits \/ FetchChecks \/ Answer \/ ReadFails,
         reading'.now = reading.now, NEW n, NEW i
  PROVE  Hidden(n, i)' = Hidden(n, i) /\ OnRecord(n, i)' = OnRecord(n, i)
<1>1. UNCHANGED <<pulls, branch, clock, model, policy, known>>
  BY RequestKeeps
<1> QED BY <1>1 DEF Hidden, Off, Overshadowed, Newer, Labelled, OnRecord, Evidence

LEMMA AskFollowed ==
  ASSUME TypeOK, Followed, Ask \/ Redeploy
  PROVE  Followed'
<1>1. \A i \in Shas : branch'.commits[i].revert => branch'.commits[i].checks = {}
  BY RevertsUnread DEF Followed, Next, AutoMergeEligible
<1>2. /\ reading'.at \in {"idle", "pulls", "answered"} /\ reading'.now = clock
      /\ reading'.granted = FALSE
  <2>1. CASE Ask
    BY <2>1 DEF Ask, Idle
  <2>2. CASE Redeploy
    BY <2>2 DEF Redeploy, Idle
  <2> QED BY <2>1, <2>2
<1>3. pulls' = pulls /\ branch' = branch
  BY DEF Ask, Redeploy, githubVars
<1>4. ASSUME NEW d \in known'
      PROVE  /\ pulls'[d[1]].state = "merged" /\ d[2] \in 1..branch'.tip
             /\ OnRecord(d[1], d[2])' /\ OnItsWay(d[1], d[2])'
  <2>1. d \in Defects /\ model' = model /\ policy' = policy
    BY <1>4 DEF Ask, Redeploy, workerVars
  <2>2. /\ pulls[d[1]].state = "merged" /\ pulls[d[1]].labels = {model}
        /\ Within(pulls[d[1]].merged, clock, policy.windowDays) /\ d[2] \in Evidence(d[1])
    BY <2>1 DEF Defects
  <2>3. OnRecord(d[1], d[2])'
    BY <1>2, <1>3, <2>1, <2>2 DEF OnRecord, Evidence, Within
  <2>4. d[2] \in 1..branch'.tip
    BY <1>3, <2>2 DEF Evidence
  <2>5. OnItsWay(d[1], d[2])'
    BY <1>2 DEF OnItsWay, At
  <2> QED BY <1>3, <2>2, <2>3, <2>4, <2>5
<1>5. DefectMissedForCause'
  BY <1>2 DEF DefectMissedForCause, Granted
<1>6. ~(At("answer"))'
  BY <1>2 DEF At
<1> QED BY <1>1, <1>4, <1>5, <1>6 DEF Followed

\* What all of the gate's requests have in common.
LEMMA RequestFollowed ==
  ASSUME TypeOK, Followed, Fetch \/ FetchCommits \/ FetchChecks \/ ReadFails,
         reading'.now = reading.now, reading'.granted = FALSE,
         (At("answer") /\ reading.whole => reading.todo = {})',
         \A d \in known : /\ d[1] \in Numbers /\ ~Hidden(d[1], d[2]) /\ OnRecord(d[1], d[2])
                          /\ OnItsWay(d[1], d[2])
                          => OnItsWay(d[1], d[2])'
  PROVE  Followed'
<1>1. UNCHANGED <<pulls, branch, known>>
  BY RequestKeeps
<1>2. DefectMissedForCause'
  BY DEF DefectMissedForCause, Granted
<1>3. reading.at \in {"pulls", "commits", "checks"}
  BY DEF Fetch, FetchCommits, FetchChecks, ReadFails, At
<1>4. ASSUME NEW d \in known
      PROVE  (Hidden(d[1], d[2]) \/ (OnRecord(d[1], d[2]) /\ OnItsWay(d[1], d[2])))'
  <2>1. \/ Hidden(d[1], d[2])
        \/ ~Hidden(d[1], d[2]) /\ OnRecord(d[1], d[2]) /\ OnItsWay(d[1], d[2])
    BY <1>3 DEF Followed
  <2> QED BY <2>1, KnownAre, RequestHides
<1> QED BY <1>1, <1>2, <1>4 DEF Followed

LEMMA FetchFollowed ==
  ASSUME TypeOK, Vouched, Followed, Fetch
  PROVE  Followed'
<1>1. PICK env \in [Listed -> Models] :
        /\ \A n \in Listed : env[n] \in pulls[n].labels
        /\ Read([reading EXCEPT !.at = "commits", !.prs = {ToPr(n, env[n]) : n \in Listed}])
  BY DEF Fetch
<1>2. /\ reading'.at = "commits" /\ reading'.now = reading.now
      /\ reading'.granted = reading.granted
      /\ reading'.prs = {ToPr(n, env[n]) : n \in Listed}
  BY <1>1 DEF Read, TypeOK, Readings
<1>3. reading.granted = FALSE
  <2>1. ~At("answered") /\ reading.granted \in BOOLEAN
    BY ReadingIs DEF Fetch, At, TypeOK
  <2> QED BY <2>1 DEF Vouched
<1>4. ASSUME NEW d \in known, d[1] \in Numbers, ~Hidden(d[1], d[2]), OnRecord(d[1], d[2])
      PROVE  OnItsWay(d[1], d[2])'
  <2> DEFINE n == d[1]
  <2>1. pulls[n].labels = {model} /\ model' = model
    BY <1>4, RequestKeeps DEF OnRecord
  <2>2. n \in Listed
    <3>1. Newer(n) \in SUBSET Numbers
      BY DEF Newer, Labelled
    <3>2. Cardinality(Newer(n)) \in Nat /\ PullPage \in Nat
      BY <3>1, NumbersFinite, Bounds
    <3> QED BY <1>4, <2>1, <3>2 DEF Hidden, Listed, Labelled
  <2>3. env[n] = model
    BY <1>1, <2>1, <2>2
  <2>4. ToPr(n, model) \in reading'.prs
    BY <1>2, <2>2, <2>3
  <2>5. ToPr(n, model)' = ToPr(n, model)
    BY RequestKeeps DEF ToPr
  <2> QED BY <1>2, <2>4, <2>5 DEF OnItsWay, At
<1> QED BY <1>2, <1>3, <1>4, RequestFollowed DEF At

LEMMA FetchCommitsFollowed ==
  ASSUME TypeOK, Vouched, Followed, FetchCommits
  PROVE  Followed'
<1> DEFINE numbers == {pr.number : pr \in RecentlyMerged}
<1>1. /\ reading'.at = IF numbers = {} THEN "answer" ELSE "checks"
      /\ reading'.now = reading.now /\ reading'.granted = reading.granted
      /\ reading'.prs = reading.prs /\ reading'.todo = numbers
      /\ reading'.page = {i \in 1..branch.tip : branch.tip - i < CommitPage}
      /\ At("commits")
  BY DEF FetchCommits, Read, TypeOK, Readings
<1>2. reading.granted = FALSE
  <2>1. ~At("answered") /\ reading.granted \in BOOLEAN
    BY <1>1, ReadingIs DEF At, TypeOK
  <2> QED BY <2>1 DEF Vouched
<1>3. ASSUME NEW d \in known, d[1] \in Numbers, ~Hidden(d[1], d[2]), OnRecord(d[1], d[2]),
             OnItsWay(d[1], d[2])
      PROVE  OnItsWay(d[1], d[2])'
  <2> DEFINE n == d[1]
             i == d[2]
  <2>1. ToPr(n, model) \in reading.prs
    BY <1>1, <1>3 DEF OnItsWay, At
  <2>2. ToPr(n, model) \in RecentlyMerged
    BY <1>3, <2>1 DEF RecentlyMerged, ToPr, OnRecord
  <2>3. n \in numbers
    <3>1. ToPr(n, model).number = n
      BY DEF ToPr
    <3> QED BY <2>2, <3>1
  <2>4. i \in reading'.page
    <3>1. i \in 1..branch.tip /\ branch.tip \in Nat /\ CommitPage \in Nat
      BY <1>3, BranchIs, Bounds DEF OnRecord, Evidence
    <3>2. branch.tip - i < CommitPage
      BY <1>3, <3>1 DEF Hidden, Off
    <3> QED BY <1>1, <3>1, <3>2
  <2>5. ToPr(n, model)' = ToPr(n, model)
    BY RequestKeeps DEF ToPr
  <2> HIDE DEF numbers
  <2> QED BY <1>1, <2>1, <2>3, <2>4, <2>5 DEF OnItsWay
<1>4. (At("answer") /\ reading.whole => reading.todo = {})'
  BY <1>1 DEF At
<1> HIDE DEF numbers
<1> QED BY <1>1, <1>2, <1>3, <1>4, RequestFollowed

LEMMA FetchChecksFollowed ==
  ASSUME TypeOK, Faithful, Vouched, Followed, FetchChecks
  PROVE  Followed'
<1>1. PICK m \in reading.todo :
        /\ At("checks")
        /\ reading' = [reading EXCEPT !.at = IF reading.todo = {m} THEN "answer" ELSE "checks",
                         !.todo = @ \ {m}, !.outcomes[m] = OutcomeOf(m)]
  BY DEF FetchChecks, Read
<1>2. /\ reading'.at = IF reading.todo = {m} THEN "answer" ELSE "checks"
      /\ reading'.now = reading.now /\ reading'.granted = reading.granted
      /\ reading'.prs = reading.prs /\ reading'.page = reading.page
      /\ reading'.todo = reading.todo \ {m} /\ reading'.whole = reading.whole
      /\ reading'.outcomes = [reading.outcomes EXCEPT ![m] = OutcomeOf(m)]
      /\ reading.outcomes \in [Numbers -> Outcomes] /\ m \in Numbers
  BY <1>1, ReadingIs DEF TypeOK, Readings
<1>3. reading.granted = FALSE
  <2>1. ~At("answered") /\ reading.granted \in BOOLEAN
    BY <1>1, ReadingIs DEF At, TypeOK
  <2> QED BY <2>1 DEF Vouched
<1>4. ASSUME NEW d \in known, d[1] \in Numbers, ~Hidden(d[1], d[2]), OnRecord(d[1], d[2]),
             OnItsWay(d[1], d[2])
      PROVE  OnItsWay(d[1], d[2])'
  <2> DEFINE n == d[1]
             i == d[2]
  <2>1. ToPr(n, model) \in reading.prs /\ i \in reading.page
    BY <1>1, <1>4 DEF OnItsWay, At
  <2>2. ToPr(n, model)' = ToPr(n, model)
    BY RequestKeeps DEF ToPr
  <2>3. ASSUME reading.whole
        PROVE  n \in reading'.todo \/ reading'.outcomes[n] \in {"broke", "reverted"}
    <3>1. n \in reading.todo \/ reading.outcomes[n] \in {"broke", "reverted"}
      BY <1>1, <1>4, <2>3 DEF OnItsWay, At
    <3>2. OutcomeOf(n) \in {"broke", "reverted"}
      BY <1>4, <2>1, DefectRead DEF Followed
    <3>3. CASE n = m
      BY <1>2, <3>2, <3>3
    <3>4. CASE n # m
      BY <1>2, <1>4, <3>1, <3>4
    <3> QED BY <3>3, <3>4
  <2> QED BY <1>2, <2>1, <2>2, <2>3 DEF OnItsWay, At
<1>5. (At("answer") /\ reading.whole => reading.todo = {})'
  BY <1>2 DEF At
<1> QED BY <1>2, <1>3, <1>4, <1>5, RequestFollowed

LEMMA ReadFailsFollowed ==
  ASSUME TypeOK, Vouched, Followed, ReadFails
  PROVE  Followed'
<1>1. \/ At("pulls") /\ reading' = [reading EXCEPT !.at = "answered", !.whole = FALSE]
      \/ /\ reading.at \in {"commits", "checks"}
         /\ reading' = [reading EXCEPT !.at = "answer", !.whole = FALSE]
  BY DEF ReadFails, Read
<1>2. /\ reading'.now = reading.now /\ reading'.granted = reading.granted
      /\ reading'.whole = FALSE /\ reading'.prs = reading.prs
      /\ \/ reading'.at = "answered"
         \/ reading'.at = "answer" /\ reading.at \in {"commits", "checks"}
      /\ reading.at \in {"pulls", "commits", "checks"}
  BY <1>1 DEF TypeOK, Readings, At
<1>3. reading.granted = FALSE
  <2>1. ~At("answered") /\ reading.granted \in BOOLEAN
    BY <1>2, ReadingIs DEF At, TypeOK
  <2> QED BY <2>1 DEF Vouched
<1>4. ASSUME NEW d \in known, OnItsWay(d[1], d[2])
      PROVE  OnItsWay(d[1], d[2])'
  <2>1. ToPr(d[1], model)' = ToPr(d[1], model)
    BY RequestKeeps DEF ToPr
  <2> QED BY <1>2, <1>4, <2>1 DEF OnItsWay, At
<1> QED BY <1>2, <1>3, <1>4, RequestFollowed

\* A defect that got into the answer is a row of it.
LEMMA DefectAnswered ==
  ASSUME TypeOK, NEW n \in Numbers, NEW i, OnRecord(n, i), ToPr(n, model) \in reading.prs,
         reading.outcomes[n] \in {"broke", "reverted"}
  PROVE  DefectRows # {}
<1> DEFINE pr == ToPr(n, model)
           row == BumpRow(pr, {}, ByKey(reading.outcomes))
<1>1. /\ pr.number = n /\ pr.state = pulls[n].state /\ pr.env = model
      /\ pr.merged = pulls[n].merged /\ pr.opened = pulls[n].opened
  BY DEF ToPr
<1>2. /\ row.number = n /\ row.state = "merged" /\ row.env = model
      /\ row.repo = Repo /\ row.loop = Loop
      /\ row.merged = pulls[n].merged /\ row.postMerge = reading.outcomes[n]
  BY <1>1, RowOf DEF OnRecord
<1>3. row \in BumpRows(reading.prs, {}, ByKey(reading.outcomes))
  BY DEF BumpRows
<1>4. Within(DecidedAt(row), reading.now, policy.windowDays)
  BY <1>2 DEF OnRecord, Within, DecidedAt
<1> HIDE DEF row
<1>5. row \in Rows
  BY <1>2, <1>3, <1>4 DEF Rows, UnderEnvironment, InWindow
<1> QED BY <1>2, <1>5 DEF DefectRows, MergedRows

LEMMA AnswerFollowed ==
  ASSUME TypeOK, Faithful, Followed, Answer
  PROVE  Followed'
<1> DEFINE granted == EarnedNow(reading.now, reading.prs, ByKey(reading.outcomes),
                                Repo, Loop, policy, model)
<1>1. /\ At("answer") /\ reading'.at = "answered" /\ reading'.now = reading.now
      /\ reading'.whole = reading.whole /\ reading'.granted = granted
  BY DEF Answer, Read, Idle
<1>2. UNCHANGED <<pulls, branch, policy, known>>
  BY RequestKeeps
<1>3. ASSUME granted, policy.maxDefectRate = 0, reading.whole, NEW d \in known
      PROVE  Hidden(d[1], d[2])
  <2> SUFFICES ASSUME ~Hidden(d[1], d[2]) PROVE FALSE
    OBVIOUS
  <2>1. OnRecord(d[1], d[2]) /\ OnItsWay(d[1], d[2]) /\ reading.todo = {}
    BY <1>1, <1>3 DEF Followed, At
  <2>2. ToPr(d[1], model) \in reading.prs /\ reading.outcomes[d[1]] \in {"broke", "reverted"}
    BY <1>1, <1>3, <2>1 DEF OnItsWay, At
  <2>3. DefectRows # {}
    BY <2>1, <2>2, KnownAre, DefectAnswered
  <2> QED BY <1>3, <2>3, EarnedMeans
<1> HIDE DEF granted
<1>4. DefectMissedForCause'
  <2> SUFFICES ASSUME Granted', policy.maxDefectRate = 0, reading.whole, NEW d \in known
               PROVE  Hidden(d[1], d[2])'
    BY <1>1, <1>2 DEF DefectMissedForCause
  <2>1. granted
    BY <1>1, Zenon DEF Granted
  <2> QED BY <1>1, <1>3, <2>1, RequestHides
<1> QED BY <1>1, <1>2, <1>4 DEF Followed, At

LEMMA OutsideFollowed ==
  ASSUME TypeOK, Followed, Outside
  PROVE  Followed'
<1>1. TypeOK' /\ WorldKept /\ ReadingKept
  BY OutsideKeeps
<1>2. \A i \in Shas : branch'.commits[i].revert => branch'.commits[i].checks = {}
  BY RevertsUnread DEF Followed, Next
<1>3. ASSUME NEW d \in known'
      PROVE  /\ d \in known /\ d[1] \in Numbers
             /\ pulls[d[1]].state = "merged" /\ d[2] \in 1..branch.tip
  BY <1>1, KnownAre DEF WorldKept, Followed
<1>4. ASSUME NEW d \in known'
      PROVE  pulls'[d[1]].state = "merged" /\ d[2] \in 1..branch'.tip
  <2>1. branch.tip \in Nat /\ branch'.tip \in Nat /\ branch.tip <= branch'.tip
    BY <1>1, Bounds DEF TypeOK, WorldKept
  <2>2. 1..branch.tip \subseteq 1..branch'.tip
    BY <2>1
  <2> QED BY <1>1, <1>3, <2>2 DEF WorldKept, PullKept
<1>5. /\ reading'.at = reading.at /\ reading'.whole = reading.whole /\ reading'.todo = reading.todo
      /\ (At("answered") <=> At("answered")') /\ reading'.granted = reading.granted
      /\ policy' = policy
  BY <1>1 DEF ReadingKept, WorldKept, At
<1>6. ASSUME reading.at \in {"pulls", "commits", "checks", "answer"}, NEW d \in known'
      PROVE  (Hidden(d[1], d[2]) \/ (OnRecord(d[1], d[2]) /\ OnItsWay(d[1], d[2])))'
  <2>1. Hidden(d[1], d[2]) \/ (OnRecord(d[1], d[2]) /\ OnItsWay(d[1], d[2]))
    BY <1>3, <1>6 DEF Followed
  <2> QED BY <1>1, <1>3, <2>1, HiddenKept, OnRecordKept, OnItsWayKept
<1>7. DefectMissedForCause'
  <2> SUFFICES ASSUME Granted', policy.maxDefectRate = 0, reading.whole, NEW d \in known'
               PROVE  Hidden(d[1], d[2])'
    BY <1>5 DEF DefectMissedForCause
  <2>1. Granted
    BY <1>5 DEF Granted
  <2>2. Hidden(d[1], d[2])
    BY <1>3, <2>1 DEF Followed, DefectMissedForCause
  <2> QED BY <1>1, <1>3, <2>2, HiddenKept
<1> QED BY <1>2, <1>4, <1>5, <1>6, <1>7 DEF Followed, At

LEMMA NextFollowed ==
  ASSUME TypeOK, Faithful, Vouched, Followed, [Next]_vars
  PROVE  Followed'
<1>1. CASE UNCHANGED vars
  <2>1. UNCHANGED <<pulls, branch, model, policy, reading, known>>
    BY <1>1 DEF vars, githubVars, workerVars
  <2>2. \A n, i : /\ Hidden(n, i)' = Hidden(n, i) /\ OnRecord(n, i)' = OnRecord(n, i)
                  /\ OnItsWay(n, i)' = OnItsWay(n, i)
    BY <2>1 DEF Hidden, Off, Overshadowed, Newer, Labelled, OnRecord, Evidence, OnItsWay, At, ToPr
  <2>3. DefectMissedForCause' = DefectMissedForCause
    BY <2>1, <2>2 DEF DefectMissedForCause, Granted, At
  <2> QED BY <2>1, <2>2, <2>3 DEF Followed, At
<1> QED BY <1>1, AskFollowed, FetchFollowed, FetchCommitsFollowed, FetchChecksFollowed,
           ReadFailsFollowed, AnswerFollowed, OutsideFollowed DEF Next, AutoMergeEligible

-----------------------------------------------------------------------------
(* The theorems.                                                           *)

LEMMA InitInductive ==
  ASSUME Init
  PROVE  GateInductive
<1>1. TypeOK
  BY InitType
<1>2. /\ reading.at = "idle" /\ reading.prs = {} /\ reading.page = {} /\ reading.granted = FALSE
      /\ reading.outcomes = Unread /\ known = {} /\ branch.commits = Unlisted
  BY DEF Init, Idle
<1>3. /\ \A n \in Numbers : reading.outcomes[n] \notin Determined
      /\ \A i \in Shas : branch.commits[i].checks = {}
  BY <1>2 DEF Unread, Determined, Unlisted, NoCommit
<1>4. Faithful
  BY <1>2, <1>3 DEF Faithful
<1>5. Vouched
  BY <1>2 DEF Vouched, Granted
<1>6. Followed
  BY <1>2, <1>3 DEF Followed, At, DefectMissedForCause, Granted
<1> QED BY <1>1, <1>4, <1>5, <1>6 DEF GateInductive

\* Whatever people, checks and the gate's own requests do to one another, what
\* the gate has read stays true of GitHub, a grant keeps the evidence it was
\* given on, and a defect on record is on its way into the answer
\* (workflow/activities.py, auto_merge_eligible; dashboard/github_source.py).
THEOREM GateInductiveHolds == Spec => []GateInductive
<1>1. Init => GateInductive
  BY InitInductive
<1>2. GateInductive /\ [Next]_vars => GateInductive'
  BY NextType, NextFaithful, NextVouched, NextFollowed DEF GateInductive
<1> QED BY <1>1, <1>2, PTL DEF Spec

\* Pull requests, commits and the reading keep their types.
THEOREM GateTypes == Spec => []TypeOK
<1>1. GateInductive => TypeOK
  BY DEF GateInductive
<1> QED BY <1>1, GateInductiveHolds, PTL

\* A grant rests on at least the policy's number of decided pull requests under
\* the model in force: a model swap resets trust (auto_merge_eligible filters by
\* environment, policy/autonomy.py class_earned counts).
THEOREM SwapResetsTrust == Spec => []TrustResets
<1>1. GateInductive => TrustResets
  BY DEF GateInductive, Vouched, Decided, TrustResets
<1> QED BY <1>1, GateInductiveHolds, PTL

\* The battery's record of unconfirmed merges is granted by whoever asks for one
\* confirmed merge or none.
LEMMA SilentAsksForTwo ==
  ASSUME policy \in Policies, Probed, GateEscapes(policy) = {}
  PROVE  policy.minDetermined >= 2
<1>1. /\ policy.minRate \in 0..100 /\ policy.minDetermined \in Nat /\ policy.minDecided \in Nat
      /\ policy.maxDefectRate \in 0..100
  BY PolicyIs
<1> DEFINE record == KnownBad["unconfirmed_merges"]
<1>2. /\ "unconfirmed_merges" \in DOMAIN KnownBad
      /\ record.decided = 20 /\ record.merged = 20 /\ record.determined = 1 /\ record.defects = 0
  BY DEF KnownBad, GateScenario
<1>3. ~ClassEarned(record, policy)
  BY <1>2 DEF GateEscapes
<1> HIDE DEF record
<1> QED BY <1>1, <1>2, <1>3 DEF ClassEarned, Probed

\* Where the self-test is silent and can probe the policy, a grant never rests
\* on a single merge, nor on a single one that the branch confirms
\* (gate_probe.py, KNOWN_BAD and gate_escapes).
THEOREM SilenceVouches == Spec => []SilentGateVouches
<1>1. ASSUME GateInductive PROVE SilentGateVouches
  <2> SUFFICES ASSUME Granted, Probed, GateEscapes(policy) = {}
               PROVE  Cardinality(RealMerges) >= 2 /\ Cardinality(Confirmed) >= 2
    BY DEF SilentGateVouches
  <2>1. TypeOK /\ Cardinality(Confirmed) >= policy.minDetermined
    BY <1>1 DEF GateInductive, Vouched
  <2>2. policy.minDetermined >= 2 /\ policy.minDetermined \in Nat
    BY <2>1, SilentAsksForTwo, PolicyIs DEF TypeOK
  <2>3. RealMerges \in SUBSET Numbers /\ Confirmed \in SUBSET Numbers /\ Confirmed \subseteq RealMerges
    BY DEF RealMerges, Confirmed
  <2>4. /\ Cardinality(Confirmed) \in Nat /\ Cardinality(RealMerges) \in Nat
        /\ Cardinality(Confirmed) <= Cardinality(RealMerges)
    BY <2>3, NumbersFinite, MoreNumbers
  <2> QED BY <2>1, <2>2, <2>4
<1> QED BY <1>1, GateInductiveHolds, PTL

\* A zero-tolerance gate that read everything grants over a defect only if the
\* pull request or the commit fell off its page, a later mention passed for the
\* merge, or the merge does not mention its pull request
\* (dashboard/github_source.py, fetch_outcomes and _merge_index).
THEOREM DefectsMissedForCause == Spec => []DefectMissedForCause
<1>1. GateInductive => DefectMissedForCause
  BY DEF GateInductive, Followed
<1> QED BY <1>1, GateInductiveHolds, PTL
=============================================================================
