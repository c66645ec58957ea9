-------------------------------- MODULE ScanLoop --------------------------------
(***************************************************************************)
(* The scan loop of one repository (workflow/scan_workflow.py), a one-shot *)
(* scan beside it (trigger.py), what brings a dead loop back (starter.py,  *)
(* watchdog.py), the bumps they dispatch and the pull requests that        *)
(* reconcile closes behind the bumps' backs.                               *)
(*                                                                         *)
(* A bump is a package and a target version: its branch and its workflow   *)
(* id are functions of the two (policy/naming.py).  What one bump does in  *)
(* between is the subject of BumpWorkflow; here each is the summary of it: *)
(* it opens, waits, then merges, closes or records, and may give up.       *)
(***************************************************************************)
EXTENDS Naturals, FiniteSets

CONSTANTS
  Packages,     (* the direct dependencies of the repository               *)
  MaxVersion,   (* bound: versions 1..MaxVersion are published             *)
  MaxAttempts,  (* attempts of one activity (TOOL_RETRY)                   *)
  MaxFaults,    (* bound: faults in one behaviour                          *)
  MaxMoves      (* bound: moves of people, publishers and the operator     *)

ASSUME LoopAssumption ==
  /\ MaxVersion \in Nat \ {0}
  /\ MaxAttempts \in Nat \ {0}
  /\ MaxFaults \in Nat /\ MaxMoves \in Nat

VARIABLES
  installed,    (* the version each package has on the default branch      *)
  signal,       (* the version the loop's policy picks upstream            *)
  bump,         (* the execution under each bump's workflow id             *)
  pull,         (* the latest pull request of each bump's branch           *)
  by,           (* who settled it                                          *)
  cutFrom,      (* what was installed when the branch was cut, 0: no branch*)
  scan,         (* the two scans of the repository                         *)
  faults, moves,
  opened,       (* history: pull requests opened for each bump             *)
  selected      (* history: the newest version selected of each package    *)

forgeVars   == <<installed, pull, by, cutFrom, opened>>
budgetVars  == <<faults, moves>>
vars == <<forgeVars, signal, bump, scan, budgetVars, selected>>

Versions == 1..MaxVersion
Bumps    == Packages \X (Versions \ {1})   \* 1 is what everything starts from
Scans    == {"loop", "now"}

BumpStages == {"none", "opening", "waiting", "merging", "closing", "recording",
               "completed", "failed"}
Over       == {"completed", "failed"}

\* The activities of a tick, then: asleep until continue-as-new, returned,
\* failed, or never started.
Activities == {"scan", "dispatch", "list", "derive", "close", "delete", "selftest"}
ScanPlaces == Activities \cup {"asleep", "done", "dead", "off"}

\* Where a scan is; the bumps it has still to dispatch, has listed or has to
\* close; the one whose branch is next; the attempts that failed.
ScanStates == [at : ScanPlaces, work : SUBSET Bumps, closing : SUBSET Bumps,
               tries : 0..(MaxAttempts - 1)]

\* Every variable holds what the code's types let it hold.
TypeOK ==
  /\ installed \in [Packages -> Versions]
  /\ signal \in [Packages -> Versions]
  /\ bump \in [Bumps -> BumpStages]
  /\ pull \in [Bumps -> {"none", "open", "merged", "closed"}]
  /\ by \in [Bumps -> {"nobody", "bump", "reconcile", "human"}]
  /\ cutFrom \in [Bumps -> 0..MaxVersion]
  /\ scan \in [Scans -> ScanStates]
  /\ faults \in 0..MaxFaults /\ moves \in 0..MaxMoves
  /\ opened \in [Bumps -> Nat]
  /\ selected \in [Packages -> 0..MaxVersion]

-----------------------------------------------------------------------------
\* The loop's work: a target newer than what is installed (Candidate).
Candidates == {b \in Bumps : b[2] = signal[b[1]] /\ b[2] > installed[b[1]]}

Open == {b \in Bumps : pull[b] = "open"}

\* Mutant: a pull request for the current target is closed as well.
OvertakenOrCurrent(prs, candidates) ==
  {b \in prs : \E c \in candidates : c[1] = b[1] /\ b[2] <= c[2]}

\* reconciliations: the pull requests a candidate of their package overtook.
Overtaken(prs, candidates) ==
  {b \in prs : \E c \in candidates : c[1] = b[1] /\ b[2] < c[2]}

At(place) == [at |-> place, work |-> {}, closing |-> {}, tries |-> 0]

Init ==
  /\ installed = [p \in Packages |-> 1]
  /\ signal \in [Packages -> Versions]
  /\ bump = [b \in Bumps |-> "none"]
  /\ pull = [b \in Bumps |-> "none"]
  /\ by = [b \in Bumps |-> "nobody"]
  /\ cutFrom = [b \in Bumps |-> 0]
  /\ scan = [s \in Scans |-> At("off")]
  /\ faults = 0 /\ moves = 0
  /\ opened = [b \in Bumps |-> 0]
  /\ selected = [p \in Packages |-> 0]

-----------------------------------------------------------------------------
(* The tick: scan, dispatch, reconcile, self-test.  An activity that fails *)
(* starts over, reconcile from its listing; out of attempts, the scan dies.*)

\* The next activity, with all its attempts.
Goto(s, place) == scan' = [scan EXCEPT ![s] = At(place)]

\* The running activity goes on.
Within(s, place, work, closing) ==
  scan' = [scan EXCEPT ![s].at = place, ![s].work = work, ![s].closing = closing]

\* An activity per candidate, then reconcile.
DispatchNext(s, left) ==
  scan' = [scan EXCEPT ![s] = [At(IF left = {} THEN "list" ELSE "dispatch")
                                 EXCEPT !.work = left]]

\* The next pull request to close, or else on to the self-test.
CloseNext(s, left) ==
  IF left = {} THEN Goto(s, "selftest") ELSE Within(s, "close", left, {})

NoteSelected ==
  selected' = [p \in Packages |->
    IF <<p, signal[p]>> \in Candidates /\ signal[p] > selected[p]
    THEN signal[p] ELSE selected[p]]

ScanCandidates(s) ==
  /\ scan[s].at = "scan"
  /\ DispatchNext(s, Candidates) /\ NoteSelected
  /\ UNCHANGED <<forgeVars, signal, bump, budgetVars>>

\* Mutant: the id may be used again once its workflow is over.
StartBumpAllowDuplicate(b) ==
  bump' = [bump EXCEPT ![b] = IF @ \in {"none"} \cup Over THEN "opening" ELSE @]

\* start_workflow under REJECT_DUPLICATE: an id that was ever used is refused,
\* which dispatch_bump takes for success.
StartBump(b) == bump' = [bump EXCEPT ![b] = IF @ = "none" THEN "opening" ELSE @]

DispatchBump(s) ==
  /\ scan[s].at = "dispatch"
  /\ \E b \in scan[s].work : StartBump(b) /\ DispatchNext(s, scan[s].work \ {b})
  /\ UNCHANGED <<forgeVars, signal, budgetVars, selected>>

\* reconcile_open_prs, one activity up to the self-test.
ListOpenPullRequests(s) ==
  /\ scan[s].at = "list" /\ Within(s, "derive", Open, {})
  /\ UNCHANGED <<forgeVars, signal, bump, budgetVars, selected>>

DeriveClosures(s) ==
  /\ scan[s].at = "derive"
  /\ CloseNext(s, Overtaken(scan[s].work, Candidates)) /\ NoteSelected
  /\ UNCHANGED <<forgeVars, signal, bump, budgetVars>>

SettlePull(b, state, who) ==
  /\ pull' = [pull EXCEPT ![b] = IF @ = "open" THEN state ELSE @]
  /\ by' = [by EXCEPT ![b] = IF pull[b] = "open" THEN who ELSE @]

\* Closing is two requests: the pull request, then its branch.
PatchClosed(b) == SettlePull(b, "closed", "reconcile") /\ UNCHANGED cutFrom

\* Deleting a head branch closes a pull request open on it.
DeleteBranch(b, who) ==
  /\ SettlePull(b, "closed", who)
  /\ cutFrom' = [cutFrom EXCEPT ![b] = 0]

CloseOvertaken(s) ==
  /\ scan[s].at = "close"
  /\ \E b \in scan[s].work :
       /\ PatchClosed(b)
       /\ Within(s, "delete", scan[s].work \ {b}, {b})
  /\ UNCHANGED <<installed, opened, signal, bump, budgetVars, selected>>

DeleteOvertaken(s) ==
  /\ scan[s].at = "delete"
  /\ \E b \in scan[s].closing : DeleteBranch(b, "reconcile")
  /\ CloseNext(s, scan[s].work)
  /\ UNCHANGED <<installed, opened, signal, bump, budgetVars, selected>>

\* Mutant: the loop does not know that it is continuous.
SelfTestReturns(s) ==
  /\ scan[s].at = "selftest" /\ Goto(s, "done")
  /\ UNCHANGED <<forgeVars, signal, bump, budgetVars, selected>>

\* gate_selftest only alarms; then a one-shot returns and the loop sleeps.
SelfTest(s) ==
  /\ scan[s].at = "selftest"
  /\ Goto(s, IF s = "loop" THEN "asleep" ELSE "done")
  /\ UNCHANGED <<forgeVars, signal, bump, budgetVars, selected>>

\* The interval is over: continue-as-new.
ContinueAsNew(s) ==
  /\ scan[s].at = "asleep" /\ Goto(s, "scan")
  /\ UNCHANGED <<forgeVars, signal, bump, budgetVars, selected>>

\* The attempt raises.  What the activity did so far stays done.
FailAttempt(s) ==
  LET again == IF scan[s].at \in {"derive", "close", "delete"} THEN "list"
               ELSE scan[s].at
      left  == IF again = "dispatch" THEN scan[s].work ELSE {} IN
  scan' = [scan EXCEPT ![s] =
             IF scan[s].tries + 1 < MaxAttempts
             THEN [at |-> again, work |-> left, closing |-> {},
                   tries |-> scan[s].tries + 1]
             ELSE At("dead")]

Fault == faults < MaxFaults /\ faults' = faults + 1 /\ UNCHANGED moves

\* A request of the scan is lost, or denied, which is not retried ...
ScanLost(s) ==
  /\ Fault /\ scan[s].at \in Activities
  /\ FailAttempt(s) \/ Goto(s, "dead")
  /\ UNCHANGED <<forgeVars, signal, bump, selected>>

\* ... or done, and its answer lost.
ScanUnheard(s) ==
  /\ Fault
  /\ \/ /\ scan[s].at = "dispatch"
        /\ \E b \in scan[s].work : StartBump(b)
        /\ UNCHANGED <<pull, by, cutFrom>>
     \/ /\ scan[s].at = "close" /\ \E b \in scan[s].work : PatchClosed(b)
        /\ UNCHANGED bump
     \/ /\ scan[s].at = "delete"
        /\ \E b \in scan[s].closing : DeleteBranch(b, "reconcile")
        /\ UNCHANGED bump
  /\ FailAttempt(s)
  /\ UNCHANGED <<installed, opened, signal, selected>>

ScanStep(s) ==
  \/ ScanCandidates(s) \/ DispatchBump(s)
  \/ ListOpenPullRequests(s) \/ DeriveClosures(s)
  \/ CloseOvertaken(s) \/ DeleteOvertaken(s)
  \/ SelfTest(s) \/ ContinueAsNew(s)

-----------------------------------------------------------------------------
(* The bumps.                                                              *)

Advance(b, stage) == bump' = [bump EXCEPT ![b] = stage]

OpenPull(b) ==
  /\ pull' = [pull EXCEPT ![b] = "open"]
  /\ by' = [by EXCEPT ![b] = "nobody"]
  /\ opened' = [opened EXCEPT ![b] = @ + 1]

\* The branch is cut from a fresh clone; setting the version that is already
\* installed leaves nothing to commit, and an existing branch refuses the push.
MayPush(b) == cutFrom[b] = 0 /\ installed[b[1]] # b[2]

CutBranch(b) == cutFrom' = [cutFrom EXCEPT ![b] = installed[b[1]]]

\* open_pull_request: the open one is taken over, or a new one is opened.
BumpOpens(b) ==
  /\ bump[b] = "opening" /\ Advance(b, "waiting")
  /\ \/ pull[b] = "open" /\ UNCHANGED <<pull, by, opened, cutFrom>>
     \/ pull[b] # "open" /\ MayPush(b) /\ CutBranch(b) /\ OpenPull(b)
  /\ UNCHANGED <<installed, signal, scan, budgetVars, selected>>

\* Every attempt is refused.
BumpRefused(b) ==
  /\ bump[b] = "opening" /\ pull[b] # "open" /\ ~MayPush(b)
  /\ Advance(b, "failed")
  /\ UNCHANGED <<forgeVars, signal, scan, budgetVars, selected>>

\* The attempt dies after the push, or after the pull request: it is retried.
BumpOpensUnheard(b) ==
  /\ Fault
  /\ bump[b] = "opening" /\ pull[b] # "open" /\ MayPush(b) /\ CutBranch(b)
  /\ OpenPull(b) \/ UNCHANGED <<pull, by, opened>>
  /\ UNCHANGED <<installed, signal, bump, scan, selected>>

\* The wait is over: CI was green and the gate grants and approves the merge,
\* or CI was red, or the bump is only recorded.
BumpResolves(b) ==
  /\ bump[b] = "waiting"
  /\ \E stage \in {"merging", "closing", "recording"} : Advance(b, stage)
  /\ UNCHANGED <<forgeVars, signal, scan, budgetVars, selected>>

\* A branch whose line changed underneath it conflicts.
Mergeable(b) == pull[b] = "open" /\ cutFrom[b] = installed[b[1]]

Merge(b, who) ==
  /\ SettlePull(b, "merged", who)
  /\ installed' = [installed EXCEPT ![b[1]] = b[2]]
  /\ UNCHANGED <<cutFrom, opened>>

BumpMerges(b) ==
  /\ bump[b] = "merging"
  /\ \/ Mergeable(b) /\ Merge(b, "bump") /\ Advance(b, "recording")
     \/ ~Mergeable(b) /\ Advance(b, "failed") /\ UNCHANGED forgeVars
  /\ UNCHANGED <<signal, scan, budgetVars, selected>>

BumpCloses(b) ==
  /\ bump[b] = "closing" /\ Advance(b, "recording")
  /\ DeleteBranch(b, "bump")
  /\ UNCHANGED <<installed, opened, signal, scan, budgetVars, selected>>

BumpRecords(b) ==
  /\ bump[b] = "recording" /\ Advance(b, "completed")
  /\ UNCHANGED <<forgeVars, signal, scan, budgetVars, selected>>

\* Denied, or out of attempts; a merge may have been done unheard.
BumpGivesUp(b) ==
  /\ Fault
  /\ bump[b] \notin Over \cup {"none"} /\ Advance(b, "failed")
  /\ \/ bump[b] = "merging" /\ Mergeable(b) /\ Merge(b, "bump")
     \/ UNCHANGED forgeVars
  /\ UNCHANGED <<signal, scan, selected>>

BumpStep(b) ==
  \/ BumpOpens(b) \/ BumpRefused(b) \/ BumpResolves(b)
  \/ BumpMerges(b) \/ BumpCloses(b) \/ BumpRecords(b)

-----------------------------------------------------------------------------
(* Starter, watchdog, trigger, and the world.                              *)

\* Mutant: only an id that was never used is started.
ReviveRejectDuplicate ==
  /\ scan["loop"].at = "off" /\ Goto("loop", "scan")
  /\ UNCHANGED <<forgeVars, signal, bump, budgetVars, selected>>

\* starter and watchdog, ALLOW_DUPLICATE_FAILED_ONLY: a running loop is left
\* alone, one that never ran or has failed is started.
Revive ==
  /\ scan["loop"].at \in {"off", "dead"} /\ Goto("loop", "scan")
  /\ UNCHANGED <<forgeVars, signal, bump, budgetVars, selected>>

Move == moves < MaxMoves /\ moves' = moves + 1 /\ UNCHANGED faults

\* trigger, ALLOW_DUPLICATE: a one-shot still in flight is left to finish.
Trigger ==
  /\ Move
  /\ scan["now"].at \notin Activities /\ Goto("now", "scan")
  /\ UNCHANGED <<forgeVars, signal, bump, selected>>

\* The operator ends the loop.
Terminate ==
  /\ Move
  /\ scan["loop"].at \in Activities \cup {"asleep"} /\ Goto("loop", "dead")
  /\ UNCHANGED <<forgeVars, signal, bump, selected>>

\* A release or an advisory moves the target up; a yank or a withdrawn
\* advisory moves it down.
SignalMoves ==
  /\ Move
  /\ \E p \in Packages, v \in Versions :
       v # signal[p] /\ signal' = [signal EXCEPT ![p] = v]
  /\ UNCHANGED <<forgeVars, bump, scan, selected>>

HumanMerges ==
  /\ Move
  /\ \E b \in Bumps : Mergeable(b) /\ Merge(b, "human")
  /\ UNCHANGED <<signal, bump, scan, selected>>

HumanCloses ==
  /\ Move
  /\ \E b \in Open :
       \/ SettlePull(b, "closed", "human") /\ UNCHANGED cutFrom
       \/ DeleteBranch(b, "human")
  /\ UNCHANGED <<installed, opened, signal, bump, scan, selected>>

\* Someone upgrades a dependency on the default branch.
HumanUpgrades ==
  /\ Move
  /\ \E p \in Packages, v \in Versions :
       v > installed[p] /\ installed' = [installed EXCEPT ![p] = v]
  /\ UNCHANGED <<pull, by, cutFrom, opened, signal, bump, scan, selected>>

World == SignalMoves \/ HumanMerges \/ HumanCloses \/ HumanUpgrades

Next ==
  \/ \E s \in Scans : ScanStep(s) \/ ScanLost(s) \/ ScanUnheard(s)
  \/ \E b \in Bumps : BumpStep(b) \/ BumpOpensUnheard(b) \/ BumpGivesUp(b)
  \/ Revive \/ Trigger \/ Terminate \/ World

\* The worker serves every scan and every bump; the watchdog runs on a
\* schedule of its own.
Fairness ==
  /\ \A s \in Scans : WF_vars(ScanStep(s))
  /\ \A b \in Bumps : WF_vars(BumpStep(b))
  /\ WF_vars(Revive)

Spec == Init /\ [][Next]_vars /\ Fairness

-----------------------------------------------------------------------------
\* What any step does with the bumps that are over.
LeavesOver ==
  \A b \in Bumps : bump[b] \in Over => bump'[b] = bump[b] /\ opened'[b] = opened[b]

\* A bump is proposed by one workflow only: once that is over, however it
\* ended, no later tick, one-shot or revived loop opens it again
\* (dispatch_bump, REJECT_DUPLICATE).
NeverProposedAgain == [][LeavesOver]_vars

\* However stale its listing and its candidates have become, reconcile closes
\* no pull request of the newest version ever selected (reconciliations).
NewestSurvivesReconcile ==
  \A b \in Bumps : by[b] = "reconcile" => b[2] < selected[b[1]]

\* Those reconcile is about to close, and deletes the branches of.
Doomed(s) == scan[s].closing \cup (IF scan[s].at \in {"close", "delete"}
                                    THEN scan[s].work ELSE {})

\* The inductive invariant: whatever reconcile has closed or is about to close
\* was overtaken by a version selected before (reconcile_open_prs).
ReconcileInductive ==
  /\ TypeOK
  /\ NewestSurvivesReconcile
  /\ \A s \in Scans : \A b \in Doomed(s) : b[2] < selected[b[1]]

\* A target that stays a candidate gets its bump, whatever fails, as long as
\* the watchdog brings the loop back (ScanWorkflow, watchdog.py).
CandidateIsTaken ==
  \A b \in Bumps : b \in Candidates ~> bump[b] # "none" \/ b \notin Candidates

\* An overtaken pull request does not stay open (reconcile_open_prs), not even
\* one that a retried bump opens again behind reconcile's back.
OvertakenIsClosed ==
  \A b \in Bumps : b \in Overtaken(Open, Candidates)
                      ~> b \notin Overtaken(Open, Candidates)

-----------------------------------------------------------------------------
(* What the code's own comments say of it.                                 *)

\* domain/candidate.py: "a candidate can never go backward".
NeverGoesBackward ==
  [][\A b \in Bumps : pull[b] = "open" /\ by'[b] = "bump" =>
       installed'[b[1]] >= installed[b[1]]]_vars
=============================================================================
