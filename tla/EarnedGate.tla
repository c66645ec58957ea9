------------------------------ MODULE EarnedGate ------------------------------
(***************************************************************************)
(* The acting gate, auto_merge_eligible (workflow/activities.py): request  *)
(* by request it reads back what became of a class's pull requests, while  *)
(* they are opened, recorded, merged, closed and reverted and their checks *)
(* report, and answers whether the class has earned its next merge.        *)
(*                                                                         *)
(* One class is followed; ReadModel filters all others out.                *)
(***************************************************************************)
EXTENDS ReadModel

CONSTANTS
  Repo, Loop,   (* the class                                               *)
  Models,       (* the judge models a worker may run with                  *)
  Policies,     (* the policies a worker may run with                      *)
  MaxPulls,     (* bound: pull requests of the class                       *)
  MaxCommits,   (* bound: commits on the default branch                    *)
  PullPage,     (* how many pull requests the one listing returns          *)
  CommitPage,   (* how many commits the one listing returns                *)
  Moments,      (* bound: the days at which anything happens               *)
  MaxMeanwhile, (* bound: what changes while the gate is reading           *)
  MaxFaults,    (* bound: requests that fail                               *)
  MaxMoves      (* bound: reverts, mentions, re-runs, stamps, redeploys    *)

Numbers == 1..MaxPulls
Shas    == 1..MaxCommits

ASSUME GateAssumption ==
  /\ MaxPulls \in Nat /\ MaxCommits \in Nat
  /\ PullPage \in Nat \ {0} /\ CommitPage \in Nat \ {0}
  /\ Moments \subseteq Nat /\ Moments # {}
  /\ MaxMeanwhile \in Nat /\ MaxFaults \in Nat /\ MaxMoves \in Nat
  /\ Policies \subseteq AutonomyPolicies({Repo})
  /\ "" \notin Models

VARIABLES
  pulls,    (* the pull requests of the class, as they are on GitHub       *)
  branch,   (* the default branch: its tip, and its commits oldest first   *)
  model, policy,  (* what the worker is configured with                    *)
  clock,    (* the day                                                     *)
  reading,  (* the gate being asked                                        *)
  faults, moves,
  known     (* history: the defects on record when it was asked            *)

githubVars == <<pulls, branch, clock>>
workerVars == <<model, policy>>
budgetVars == <<faults, moves>>
vars == <<githubVars, workerVars, reading, budgetVars, known>>

-----------------------------------------------------------------------------
(* GitHub.  labels: the environments a pull request is stamped with, none  *)
(* before its outcome is recorded; sha: the commit that merged it.         *)

PullStates == {"none", "open", "merged", "closed"}
Pulls == [state : PullStates, labels : SUBSET Models,
          opened : Moments, merged : Moments \cup {NoTime}, sha : 0..MaxCommits]
Commits == [refs : SUBSET Numbers, revert : BOOLEAN, checks : SUBSET {"ok", "bad"}]
Proposed == "1.0.1"
NoCommit == [refs |-> {}, revert |-> FALSE, checks |-> {}]

CommitsOf(n, revert) == [refs |-> {n}, revert |-> revert, checks |-> {}]
Pushed(commit) ==
  [tip |-> branch.tip + 1, commits |-> [branch.commits EXCEPT ![branch.tip + 1] = commit]]

-----------------------------------------------------------------------------
(* The reading.                                                            *)

GithubPrs == [repo : {Repo}, number : Numbers, loop : {Loop}, env : Models,
              to : {Proposed}, verdict : {"none"},
              state : PullStates, opened : Moments, merged : Moments \cup {NoTime}]
ToPr(n, env) ==
  [repo |-> Repo, number |-> n, loop |-> Loop, env |-> env, to |-> Proposed,
   verdict |-> "none", state |-> pulls[n].state, opened |-> pulls[n].opened,
   merged |-> pulls[n].merged]

ReadingPlaces == {"idle", "pulls", "commits", "checks", "answer", "answered"}
Readings == [at : ReadingPlaces, now : Moments, prs : SUBSET GithubPrs,
             page : SUBSET Shas, commits : [Shas -> Commits], todo : SUBSET Numbers,
             outcomes : [Numbers -> Outcomes], whole : BOOLEAN, granted : BOOLEAN,
             meanwhile : 0..MaxMeanwhile]
Unread   == [n \in Numbers |-> "none"]
Unlisted == [i \in Shas |-> NoCommit]
Idle(now) == [at |-> "idle", now |-> now, prs |-> {}, page |-> {}, commits |-> Unlisted,
              todo |-> {}, outcomes |-> Unread, whole |-> TRUE, granted |-> FALSE,
              meanwhile |-> 0]

Init ==
  /\ pulls = [n \in Numbers |-> [state |-> "none", labels |-> {},
                opened |-> CHOOSE t \in Moments : TRUE, merged |-> NoTime, sha |-> 0]]
  /\ branch = [tip |-> 0, commits |-> Unlisted]
  /\ clock \in {t \in Moments : \A u \in Moments : t <= u}
  /\ model \in Models /\ policy \in Policies
  /\ reading = Idle(clock)
  /\ faults = 0 /\ moves = 0 /\ known = {}

\* The labelled pull requests created last.
Labelled == {n \in Numbers : pulls[n].labels # {}}
Newer(n) == {k \in Labelled : k > n}
Listed == {n \in Labelled : Cardinality(Newer(n)) < PullPage}

\* The defects on record of the class in the environment: a pull request and
\* the commit that shows it, its merge whose checks went bad or a revert.
Evidence(n) ==
  {i \in 1..branch.tip :
     \/ branch.commits[i].revert /\ n \in branch.commits[i].refs
     \/ i = pulls[n].sha /\ "bad" \in branch.commits[i].checks}
Defects ==
  {d \in Numbers \X Shas :
     /\ pulls[d[1]].state = "merged" /\ pulls[d[1]].labels = {model}
     /\ Within(pulls[d[1]].merged, clock, policy.windowDays)
     /\ d[2] \in Evidence(d[1])}

At(place) == reading.at = place
Read(r) == reading' = r /\ UNCHANGED <<githubVars, workerVars, moves, known>>

\* The bump of a new proposal asks; for a repository that no steward has
\* opted in the answer is no.
Ask ==
  /\ reading.at \in {"idle", "answered"}
  /\ reading' = [Idle(clock) EXCEPT
       !.at = IF Repo \in policy.allowlisted THEN "pulls" ELSE "answered"]
  /\ known' = Defects
  /\ UNCHANGED <<githubVars, workerVars, budgetVars>>

\* fetch.  A pull request with two environment labels shows either.
Fetch ==
  /\ At("pulls")
  /\ \E env \in [Listed -> Models] :
       /\ \A n \in Listed : env[n] \in pulls[n].labels
       /\ Read([reading EXCEPT !.at = "commits", !.prs = {ToPr(n, env[n]) : n \in Listed}])
  /\ UNCHANGED faults

\* fetch_outcomes: those merged in the window, if any, and a page of commits.
RecentlyMerged ==
  {pr \in reading.prs : /\ pr.state = "merged"
                        /\ Within(pr.merged, reading.now, policy.windowDays)}
FetchCommits ==
  /\ At("commits")
  /\ LET numbers == {pr.number : pr \in RecentlyMerged}
     IN Read([reading EXCEPT
          !.at = IF numbers = {} THEN "answer" ELSE "checks", !.todo = numbers,
          !.page = {i \in 1..branch.tip : branch.tip - i < CommitPage},
          !.commits = branch.commits])
  /\ UNCHANGED faults

\* The next pull request, newest first: reverted, or what the checks of its
\* merge commit say now, if the page has that commit.
OutcomeOf(n) ==
  LET sha == MergeSha(reading.page, reading.commits, n)
  IN CASE n \in Reverted(reading.page, reading.commits) -> "reverted"
       [] n \notin Reverted(reading.page, reading.commits) /\ sha = {} -> "unknown"
       [] OTHER -> ClassifyCheckRuns(UNION {branch.commits[i].checks : i \in sha})
FetchChecks ==
  /\ At("checks")
  /\ \E n \in reading.todo :
       /\ \A k \in reading.todo : k <= n
       /\ Read([reading EXCEPT !.at = IF reading.todo = {n} THEN "answer" ELSE "checks",
            !.todo = @ \ {n}, !.outcomes[n] = OutcomeOf(n)])
  /\ UNCHANGED faults

\* A request fails: without pull requests the answer is no, without some
\* outcomes it rests on the others.
ReadFails ==
  /\ faults < MaxFaults /\ faults' = faults + 1
  /\ \/ At("pulls") /\ Read([reading EXCEPT !.at = "answered", !.whole = FALSE])
     \/ reading.at \in {"commits", "checks"}
        /\ Read([reading EXCEPT !.at = "answer", !.whole = FALSE])

ByKey(outcomes) == [key \in {Repo} \X Numbers |-> outcomes[key[2]]]
Answer ==
  /\ At("answer")
  /\ Read([Idle(reading.now) EXCEPT !.at = "answered", !.whole = reading.whole,
       !.granted = EarnedNow(reading.now, reading.prs, ByKey(reading.outcomes),
                             Repo, Loop, policy, model)])
  /\ UNCHANGED faults

AutoMergeEligible == Ask \/ Fetch \/ FetchCommits \/ FetchChecks \/ Answer

-----------------------------------------------------------------------------
(* What becomes of pull requests.                                          *)

\* What may change while the gate is reading is bounded.
Meanwhile ==
  IF At("idle") \/ At("answered") THEN UNCHANGED reading
  ELSE reading.meanwhile < MaxMeanwhile /\ reading' = [reading EXCEPT !.meanwhile = @ + 1]

World(p, b) ==
  /\ pulls' = p /\ branch' = b
  /\ Meanwhile
  /\ UNCHANGED <<workerVars, clock, faults>>

OpenPull(n) ==
  /\ pulls[n].state = "none" /\ \A k \in 1..(n - 1) : pulls[k].state # "none"
  /\ World([pulls EXCEPT ![n].state = "open", ![n].opened = clock], branch)
  /\ UNCHANGED <<moves, known>>

\* record_outcome adds the label of the model it runs with; again if an
\* attempt died after it.
Stamp(n) == World([pulls EXCEPT ![n].labels = @ \cup {model}], branch)
RecordOutcome(n) ==
  /\ pulls[n].state # "none" /\ pulls[n].labels = {}
  /\ Stamp(n) /\ UNCHANGED <<moves, known>>

\* Squashed under its title, whose tail names the pull request.
MergeAs(n, refs) ==
  /\ pulls[n].state = "open" /\ branch.tip < MaxCommits
  /\ World([pulls EXCEPT ![n].state = "merged", ![n].merged = clock, ![n].sha = branch.tip + 1],
           Pushed([NoCommit EXCEPT !.refs = refs]))
  /\ UNCHANGED known
MergePull(n) == MergeAs(n, {n}) /\ UNCHANGED moves

ClosePull(n) ==
  /\ pulls[n].state = "open"
  /\ World([pulls EXCEPT ![n].state = "closed"], branch)
  /\ UNCHANGED <<moves, known>>

\* A check run of a commit ends; nobody reads those of a revert.
Report(i) ==
  /\ i <= branch.tip /\ ~branch.commits[i].revert
  /\ \E c \in {"ok", "bad"} \ branch.commits[i].checks :
       World(pulls, [branch EXCEPT !.commits[i].checks = @ \cup {c}])
  /\ UNCHANGED <<moves, known>>

Age ==
  /\ clock' \in {t \in Moments : t > clock}
  /\ Meanwhile
  /\ UNCHANGED <<pulls, branch, workerVars, budgetVars, known>>

Move == moves < MaxMoves /\ moves' = moves + 1

\* A person merges under another title.
MergeUntitled(n) == Move /\ MergeAs(n, {})

\* A commit that reverts the pull request, or only mentions it.
Mention(n, revert) ==
  /\ Move /\ pulls[n].state = "merged" /\ branch.tip < MaxCommits
  /\ World(pulls, Pushed(CommitsOf(n, revert))) /\ UNCHANGED known

Rerun(i) ==
  /\ Move /\ branch.commits[i].checks # {}
  /\ known' = {d \in known : d[2] # i}
  /\ World(pulls, [branch EXCEPT !.commits[i].checks = {}])

RecordAgain(n) == Move /\ pulls[n].labels # {} /\ Stamp(n) /\ UNCHANGED known

\* Another model or policy: the worker starts anew, and so does an attempt
\* under way.
Redeploy ==
  /\ Move
  /\ \E m \in Models, p \in Policies :
       /\ <<m, p>> # <<model, policy>>
       /\ model' = m /\ policy' = p
  /\ reading' = Idle(clock) /\ known' = {}
  /\ UNCHANGED <<githubVars, faults>>

Outside ==
  \/ \E n \in Numbers : \/ OpenPull(n) \/ RecordOutcome(n) \/ RecordAgain(n)
                        \/ MergePull(n) \/ MergeUntitled(n) \/ ClosePull(n)
                        \/ \E revert \in BOOLEAN : Mention(n, revert)
  \/ \E i \in Shas : Report(i) \/ Rerun(i)
  \/ Age

Next == AutoMergeEligible \/ ReadFails \/ Outside \/ Redeploy

Spec == Init /\ [][Next]_vars

-----------------------------------------------------------------------------
(* Properties.                                                             *)

\* Types.
TypeOK ==
  /\ pulls \in [Numbers -> Pulls]
  /\ branch \in [tip : 0..MaxCommits, commits : [Shas -> Commits]]
  /\ model \in Models /\ policy \in Policies /\ clock \in Moments
  /\ reading \in Readings
  /\ faults \in 0..MaxFaults /\ moves \in 0..MaxMoves
  /\ known \subseteq Numbers \X Shas

Granted == At("answered") /\ reading.granted

\* A zero-tolerance gate grants over a defect that was on record when it was
\* asked only for a cause: the reading was cut short, the pull request or the
\* commits fell off their page, a later commit mentions it and passes for its
\* merge, the merge does not mention it, or its checks were run again.
Off(i) == branch.tip - i >= CommitPage
Overshadowed(n) ==
  \E i \in 1..branch.tip : /\ i > pulls[n].sha /\ ~branch.commits[i].revert
                          /\ n \in branch.commits[i].refs
Hidden(n, i) ==
  \/ Cardinality(Newer(n)) >= PullPage
  \/ Off(i)
  \/ /\ ~branch.commits[i].revert
     /\ Overshadowed(n) \/ n \notin branch.commits[i].refs
DefectMissedForCause ==
  Granted /\ policy.maxDefectRate = 0 /\ reading.whole =>
    \A d \in known : Hidden(d[1], d[2])

\* A model swap resets trust: however labels are stamped late or twice, a grant
\* has the policy's number of decided pull requests under the model in force.
TrustResets ==
  Granted => Cardinality({n \in Numbers : /\ pulls[n].state \in {"merged", "closed"}
                                          /\ model \in pulls[n].labels}) >= policy.minDecided

\* What a silent self-test vouches for: under a policy that it can probe (no
\* knob tightened past its records), a grant never rests on one decision, on a
\* rejected half or on one confirmed merge.
Probed == policy.minDecided <= 20 /\ policy.minDetermined <= 10
RealMerges ==
  {n \in Numbers : pulls[n].state = "merged" /\ model \in pulls[n].labels}
Confirmed == {n \in RealMerges : \E i \in 1..branch.tip : n \in branch.commits[i].refs}
SilentGateVouches ==
  Granted /\ Probed /\ GateEscapes(policy) = {} =>
    Cardinality(RealMerges) >= 2 /\ Cardinality(Confirmed) >= 2

-----------------------------------------------------------------------------
(* What the code's own comments say of it.                                 *)

\* workflow/activities.py, auto_merge_eligible: "any read failure degrades to
\* False (hold), never an auto-merge".
FailedReadHolds == Granted => reading.whole
=============================================================================
