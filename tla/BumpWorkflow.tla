----------------------------- MODULE BumpWorkflow -----------------------------
(***************************************************************************)
(* One durable bump: workflow/bump_workflow.py driving the pure machine of *)
(* BumpMachine through the activities of workflow/activities.py against    *)
(* the forge.  An activity is a sequence of calls; the attempt can die at  *)
(* any of them, and Temporal then starts the whole activity again, at most *)
(* MaxAttempts times (TOOL_RETRY).                                         *)
(*                                                                         *)
(* A fault hits one call:                                                  *)
(*   lost     the call has no effect (a 5xx, a timeout on the way out, a   *)
(*            rate limit, a worker that dies before it)                    *)
(*   unheard  a write is done but the attempt dies before it knows (a lost *)
(*            response, a worker that dies after it)                       *)
(*   late     the attempt times out while the write is on its way: it      *)
(*            reaches the forge at any later time                          *)
(*   denied   a permission fault (401, 403, no token), non-retryable       *)
(*                                                                         *)
(* The CI reading is arbitrary here; module CiWait says where it is from.  *)
(***************************************************************************)
EXTENDS Naturals, Sequences, FiniteSets, Forge

CONSTANTS
  MaxAttempts,  (* attempts of one activity (TOOL_RETRY)                   *)
  Deadline,     (* CI polls that fit in the wait (CI_WAIT_DEADLINE)        *)
  FaultKinds,   (* the faults that can happen                              *)
  MaxFaults,    (* bound: faults in one behaviour                          *)
  MaxMoves      (* bound: moves of people and of the operator              *)

ASSUME BoundsAssumption ==
  /\ MaxAttempts \in Nat \ {0}
  /\ Deadline \in Nat
  /\ MaxFaults \in Nat
  /\ MaxMoves \in Nat
  /\ FaultKinds \subseteq {"lost", "unheard", "late", "denied"}

VARIABLES
  phase,        (* the workflow execution's status                         *)
  transition,   (* the last transition: the state and the effect to run    *)
  call,         (* the next call of the running activity                   *)
  tries,        (* attempts of the running activity that have failed       *)
  elapsed,      (* poll intervals of the CI wait that have gone by         *)
  eligible,     (* the class-level grant, read once before anything else   *)
  closeOnRed,   (* pinned by the dispatch                                  *)
  item,         (* what kind of work item the bump carries                 *)
  model,        (* the judge model the worker is configured with           *)
  inflight,     (* late writes that have not reached the forge             *)
  faults, moves,
  approved,     (* history: the gate review said clean                     *)
  greenRead,    (* history: commits whose CI froot read as passed          *)
  scars         (* history: which call was hit by which fault              *)

driverVars  == <<phase, transition, call, tries>>
pinnedVars  == <<closeOnRed, item>>
historyVars == <<approved, greenRead, scars>>
budgetVars  == <<faults, moves>>
vars == <<driverVars, elapsed, eligible, pinnedVars, model, inflight,
          budgetVars, historyVars, forgeVars>>

Phases == {"running", "completed", "failed"}
Items  == {"bump", "removal"}

\* Calls that only read or compute, beside those that change the forge.
ReadCalls == {"auto_merge_eligible", "judge", "find_open", "find_conflicting",
              "check_ci", "find_note", "edit_note", "gate_review"}
Calls     == WriteOps \cup ReadCalls \cup {"sleep", "none"}

State   == transition.next
Running == phase = "running"

\* The pull request the current state carries, once it carries an outcome.
NoPr == [number |-> 0, sha |-> 0]
ActingPr == IF "outcome" \in DOMAIN State THEN State.outcome.pr ELSE NoPr

\* Mutant: the gate review is skipped.
FirstCallUnreviewed(effect) ==
  CASE effect = "judge_changelog"    -> "judge"
    [] effect = "open_pull_request"  -> "find_open"
    [] effect = "await_ci"           -> "check_ci"
    [] effect = "close_pull_request" -> "find_note"
    [] effect \in {"review_bump", "merge_pull_request"} -> "merge"
    [] effect = "record_outcome"     -> "add_labels"

\* _execute: the activity an effect is interpreted into, by its first call.
FirstCall(effect) ==
  CASE effect = "judge_changelog"    -> "judge"
    [] effect = "open_pull_request"  -> "find_open"
    [] effect = "await_ci"           -> "check_ci"
    [] effect = "close_pull_request" -> "find_note"
    [] effect = "review_bump"        -> "gate_review"
    [] effect = "merge_pull_request" -> "merge"
    [] effect = "record_outcome"     -> "add_labels"

-----------------------------------------------------------------------------
Init ==
  /\ ForgeInit
  /\ phase = "running"
  /\ transition = Start
  /\ call = "auto_merge_eligible"
  /\ tries = 0 /\ elapsed = 0
  /\ eligible = FALSE
  /\ closeOnRed \in BOOLEAN /\ item \in Items
  /\ model \in Models
  /\ inflight = {}
  /\ faults = 0 /\ moves = 0
  /\ approved = FALSE /\ greenRead = {} /\ scars = {}

\* run: hand the machine the event an activity returned and go on with the
\* effect it answers.  A rejected or non-linear transition fails the workflow,
\* and so does running out of effects anywhere but in Recorded.
PhaseAfter(t) ==
  IF t.kind = "rejected" \/ Len(t.effects) > 1 THEN "failed"
  ELSE IF t.effects # <<>> THEN "running"
  ELSE IF t.next.kind = "recorded" THEN "completed" ELSE "failed"

Feed(event) ==
  LET t == Advance(State, event, closeOnRed, eligible) IN
  /\ transition' = t
  /\ phase' = PhaseAfter(t)
  /\ call' = IF PhaseAfter(t) = "running" THEN FirstCall(t.effects[1])
             ELSE "none"
  /\ tries' = 0

\* The activity goes on with another call.
Continue(next) == call' = next /\ UNCHANGED <<phase, transition, tries>>

\* The attempt raises: the activity starts over, or, with its attempts used
\* up, fails the workflow.
FailAttempt ==
  /\ UNCHANGED transition
  /\ \/ /\ tries + 1 < MaxAttempts
        /\ tries' = tries + 1
        /\ call' = IF call = "auto_merge_eligible" THEN call
                   ELSE FirstCall(transition.effects[1])
        /\ UNCHANGED phase
     \/ /\ tries + 1 >= MaxAttempts
        /\ phase' = "failed"
        /\ call' = "none"
        /\ UNCHANGED tries

At(c) == phase = "running" /\ call = c

\* What no driver step touches.
Untouched == UNCHANGED <<pinnedVars, model, inflight, budgetVars, scars>>

-----------------------------------------------------------------------------
(* The calls that read or compute.                                         *)

\* auto_merge_eligible: whatever the class's history says; any read failure
\* and any repo a steward has not allowlisted is FALSE.
AutoMergeEligible ==
  /\ At("auto_merge_eligible")
  /\ eligible' \in BOOLEAN
  /\ call' = FirstCall(transition.effects[1]) /\ tries' = 0
  /\ UNCHANGED <<phase, transition, elapsed, forgeVars, approved,
                 greenRead>>
  /\ Untouched

\* judge_changelog: a removal was vetoed at scan time and is clean here; for
\* a bump, a missing changelog or a model error degrades to unknown.
JudgeChangelog ==
  /\ At("judge")
  /\ \E v \in IF item = "removal" THEN {"clean"} ELSE Verdicts :
       Feed([kind |-> "changelog_judged", verdict |-> v])
  /\ UNCHANGED <<elapsed, eligible, forgeVars, approved, greenRead>>
  /\ Untouched

\* The bump's pull request exists: the activity returns its handle.
Ready(pr) == Feed([kind |-> "pull_request_ready", pr |-> pr])

\* Mutant: no look for the pull request an earlier attempt opened.
FindOpenPullRequestBlind ==
  /\ At("find_open") /\ Continue("push")
  /\ UNCHANGED <<elapsed, eligible, forgeVars, approved, greenRead>>
  /\ Untouched

FindOpenPullRequest ==
  /\ At("find_open")
  /\ \/ \E n \in OpenPulls : Ready(PullRequestRef(n))
     \/ OpenPulls = {} /\ Continue("push")
  /\ UNCHANGED <<elapsed, eligible, forgeVars, approved, greenRead>>
  /\ Untouched

\* After the 422: someone opened the pull request first, or the branch is gone.
FindConflicting ==
  /\ At("find_conflicting")
  /\ \/ \E n \in OpenPulls : Ready(PullRequestRef(n))
     \/ OpenPulls = {} /\ FailAttempt
  /\ UNCHANGED <<elapsed, eligible, forgeVars, approved, greenRead>>
  /\ Untouched

\* check_ci and _await_ci: a terminal reading ends the wait; a pending one
\* ends it only when the deadline has passed, and sleeps otherwise.  A slow
\* reading, or a worker that is down, takes time of the wait too.
CheckCi ==
  /\ At("check_ci")
  /\ \E status \in CIStatus \ {"timed_out"} :
       /\ greenRead' = IF status = "passed" THEN greenRead \cup {State.pr.sha}
                       ELSE greenRead
       /\ elapsed' \in elapsed..Deadline
       /\ \/ /\ status # "pending"
             /\ Feed([kind |-> "ci_resolved", status |-> status])
          \/ /\ status = "pending" /\ elapsed' >= Deadline
             /\ Feed([kind |-> "ci_resolved", status |-> "timed_out"])
          \/ /\ status = "pending" /\ elapsed' < Deadline
             /\ call' = "sleep" /\ tries' = 0
             /\ UNCHANGED <<phase, transition>>
  /\ UNCHANGED <<eligible, forgeVars, approved>>
  /\ Untouched

\* The durable timer; a worker that was down may find several intervals gone.
Sleep ==
  /\ At("sleep")
  /\ elapsed' \in (elapsed + 1)..Deadline
  /\ Continue("check_ci")
  /\ UNCHANGED <<eligible, forgeVars, approved, greenRead>>
  /\ Untouched

\* Mutant: always a new comment.
FindNoteBlind ==
  /\ At("find_note") /\ Continue("post_note")
  /\ UNCHANGED <<elapsed, eligible, forgeVars, approved, greenRead>>
  /\ Untouched

\* upsert_issue_comment: edit the marked comment if there is one.
FindNote ==
  /\ At("find_note")
  /\ Continue(IF pulls[ActingPr.number].notes > 0 THEN "edit_note"
              ELSE "post_note")
  /\ UNCHANGED <<elapsed, eligible, forgeVars, approved, greenRead>>
  /\ Untouched

EditNote ==
  /\ At("edit_note")
  /\ Continue("patch_closed")
  /\ UNCHANGED <<elapsed, eligible, forgeVars, approved, greenRead>>
  /\ Untouched

\* gate_review: fail-closed, anything that could not be reviewed is unknown.
GateReview ==
  /\ At("gate_review")
  /\ \E v \in Verdicts :
       /\ Feed([kind |-> "gate_reviewed", verdict |-> v])
       /\ approved' = (v = "clean")
  /\ UNCHANGED <<elapsed, eligible, forgeVars, greenRead>>
  /\ Untouched

-----------------------------------------------------------------------------
(* The calls that write.                                                   *)
Write(op) == [op |-> op, pr |-> ActingPr, env |-> model]

Sent(op) == At(op) /\ Accepts(Write(op)) /\ Perform(Write(op))

Refused(op) == At(op) /\ ~Accepts(Write(op)) /\ UNCHANGED forgeVars

\* push_branch: edit a fresh clone, commit and push.  With the change already
\* on the default branch there is nothing to commit, which raises.
PushBranch ==
  /\ \/ Sent("push") /\ ~BaseHasBump /\ Continue("post_pr")
     \/ At("push") /\ BaseHasBump /\ UNCHANGED forgeVars /\ FailAttempt
     \/ Refused("push") /\ ~BaseHasBump /\ FailAttempt
  /\ UNCHANGED <<elapsed, eligible, approved, greenRead>>
  /\ Untouched

OpenPullRequest ==
  /\ \/ Sent("post_pr") /\ Ready([number |-> Len(pulls) + 1, sha |-> ref])
     \/ Refused("post_pr") /\ Continue("find_conflicting")
  /\ UNCHANGED <<elapsed, eligible, approved, greenRead>>
  /\ Untouched

\* close_pull_request: note, close, delete the branch (a missing branch is
\* tolerated), each in its own request.
PostNote == Sent("post_note") /\ Continue("patch_closed")

PatchClosed == Sent("patch_closed") /\ Continue("delete_ref")

\* Mutants: the branch is kept; a branch already gone is an error.
DeleteRefKept ==
  /\ At("delete_ref") /\ UNCHANGED forgeVars
  /\ Feed([kind |-> "pull_request_closed"])

DeleteRefStrict ==
  \/ At("delete_ref") /\ ref = 0 /\ FailAttempt /\ UNCHANGED forgeVars
  \/ ref # 0 /\ Sent("delete_ref") /\ Feed([kind |-> "pull_request_closed"])

DeleteRef == Sent("delete_ref") /\ Feed([kind |-> "pull_request_closed"])

ClosePullRequest ==
  /\ PostNote \/ PatchClosed \/ DeleteRef
  /\ UNCHANGED <<elapsed, eligible, approved, greenRead>>
  /\ Untouched

\* Mutant: a refused merge is taken for one that was already done.
MergePullRequestSwallowed ==
  /\ \/ Sent("merge") \/ Refused("merge")
  /\ Feed([kind |-> "pull_request_merged"])
  /\ UNCHANGED <<elapsed, eligible, approved, greenRead>>
  /\ Untouched

\* merge_pull_request: a refusal is raised, never read as a success.
MergePullRequest ==
  /\ \/ Sent("merge") /\ Feed([kind |-> "pull_request_merged"])
     \/ Refused("merge") /\ FailAttempt
  /\ UNCHANGED <<elapsed, eligible, approved, greenRead>>
  /\ Untouched

\* record_outcome: the labels, the environment one from the model configured
\* now; the log line follows in the same attempt.
RecordOutcome ==
  /\ Sent("add_labels") /\ Feed([kind |-> "outcome_recorded"])
  /\ UNCHANGED <<elapsed, eligible, approved, greenRead>>
  /\ Untouched

Step ==
  \/ AutoMergeEligible \/ JudgeChangelog
  \/ FindOpenPullRequest \/ PushBranch \/ OpenPullRequest \/ FindConflicting
  \/ CheckCi \/ Sleep
  \/ FindNote \/ EditNote \/ ClosePullRequest
  \/ GateReview \/ MergePullRequest
  \/ RecordOutcome

-----------------------------------------------------------------------------
(* Faults, late arrivals, people and the operator.                         *)
Hit(kind) ==
  /\ Running /\ call \notin {"sleep", "none"}
  /\ kind \in FaultKinds /\ faults < MaxFaults
  /\ faults' = faults + 1
  /\ scars' = scars \cup {<<call, kind>>}
  /\ UNCHANGED <<elapsed, eligible, pinnedVars, model, moves, approved, greenRead>>

Lost == Hit("lost") /\ FailAttempt /\ UNCHANGED <<inflight, forgeVars>>

\* A push leaves the worker only if there was something to commit.
Leaves(op) == At(op) /\ (op = "push" => ~BaseHasBump)

Unheard ==
  /\ Hit("unheard") /\ UNCHANGED inflight
  /\ \E op \in WriteOps : Leaves(op) /\ Sent(op)
  /\ FailAttempt

Late ==
  /\ Hit("late") /\ UNCHANGED forgeVars
  /\ \E op \in WriteOps : Leaves(op) /\ inflight' = inflight \cup {Write(op)}
  /\ FailAttempt

\* Only the forge denies: a model or a history read that fails degrades.
Denied ==
  /\ Hit("denied") /\ call \notin {"auto_merge_eligible", "judge", "gate_review"}
  /\ phase' = "failed" /\ call' = "none"
  /\ UNCHANGED <<transition, tries, inflight, forgeVars>>

Land ==
  /\ \E w \in inflight :
       /\ inflight' = inflight \ {w}
       /\ IF Accepts(w) THEN Perform(w) ELSE UNCHANGED forgeVars
  /\ UNCHANGED <<driverVars, elapsed, eligible, pinnedVars, model, budgetVars,
                 historyVars>>

HumanMove ==
  /\ moves < MaxMoves /\ moves' = moves + 1
  /\ Human
  /\ UNCHANGED <<driverVars, elapsed, eligible, pinnedVars, model, inflight,
                 faults, historyVars>>

\* The worker is redeployed with another judge model.
ChangeModel ==
  /\ moves < MaxMoves /\ moves' = moves + 1
  /\ model' \in Models \ {model}
  /\ UNCHANGED <<driverVars, elapsed, eligible, pinnedVars, inflight, faults,
                 historyVars, forgeVars>>

Next == Step \/ Lost \/ Unheard \/ Late \/ Denied \/ Land \/ HumanMove \/ ChangeModel

\* The worker serves its task queue; nothing is promised of faults or people.
Fairness == WF_vars(Step)

Spec == Init /\ [][Next]_vars /\ Fairness

-----------------------------------------------------------------------------
\* Every variable holds what the code's types let it hold.
TypeOK ==
  /\ ForgeTypeOK
  /\ phase \in Phases
  /\ transition \in Transitions
  /\ call \in Calls
  /\ tries \in 0..(MaxAttempts - 1)
  /\ elapsed \in 0..Deadline
  /\ eligible \in BOOLEAN
  /\ closeOnRed \in BOOLEAN /\ item \in Items
  /\ model \in Models
  /\ inflight \subseteq Writes
  /\ faults \in 0..MaxFaults /\ moves \in 0..MaxMoves
  /\ approved \in BOOLEAN /\ greenRead \subseteq Nat
  /\ scars \subseteq Calls \X FaultKinds

-----------------------------------------------------------------------------
(* What froot has done and learnt, as BumpPromise sees it.                 *)
Deed == IF SettledByFroot("merged") # {} THEN "merged"
        ELSE IF SettledByFroot("closed") # {} THEN "closed" ELSE "none"

Acting == "outcome" \in DOMAIN State

Stage ==
  CASE phase = "failed"                      -> "gave_up"
    [] phase = "completed"                   -> "recorded"
    [] Running /\ Acting                     -> "resolved"
    [] Running /\ State.kind = "awaiting_ci" -> "proposed"
    [] OTHER                                 -> "deciding"

Verdict == IF Acting THEN State.outcome.verdict
           ELSE IF "verdict" \in DOMAIN State THEN State.verdict ELSE "unknown"

Evidence ==
  {fact \in {"close_on_red", "earned", "clean", "green", "red", "approved"} :
     CASE fact = "close_on_red" -> closeOnRed
       [] fact = "earned"       -> eligible
       [] fact = "clean"        -> Verdict = "clean"
       [] fact = "green"        -> Acting /\ State.outcome.ci = "passed"
       [] fact = "red"          -> Acting /\ State.outcome.ci = "failed"
       [] fact = "approved"     -> approved}

Promise == INSTANCE BumpPromise
             WITH stage <- Stage, evidence <- Evidence, deed <- Deed

\* Through every fault, retry and outside move the workflow keeps the promise:
\* it merges only with all four legs, closes only red with close-on-red on,
\* records an approved bump only after its merge, and always comes to an end
\* (bump_workflow.py run and _await_ci).
KeepsPromise == Promise!Spec

\* What froot merges is a commit whose CI it read as passed: a head that moved
\* between the reading, the review and the merge is refused
\* (merge_pull_request passes the head it was told about).
MergesOnlyWhatCIPassed ==
  \A n \in SettledByFroot("merged") : pulls[n].head \in greenRead

\* A retried close edits its note in place: no pull request carries two
\* (close_pull_request, upsert_issue_comment).
NoteOnce == \A n \in DOMAIN pulls : pulls[n].notes <= 1

\* A bump that reports success has left its mark: the outcome is on the pull
\* request, and an approved one is merged by froot and by nobody else.
CompletedIsDone ==
  phase = "completed" =>
    /\ pulls[ActingPr.number].labels # {}
    /\ approved => ActingPr.number \in SettledByFroot("merged")

\* Close-on-red leaves neither an open pull request nor a branch a later push
\* would collide with (close_pull_request deletes the head ref).
LeavesNothingRed ==
  phase = "completed" /\ closeOnRed /\ State.outcome.ci = "failed" =>
    OpenPulls = {} /\ ref = 0

\* The calls of the activity each state's effect is interpreted into.
CallsOf(kind) ==
  CASE kind = "discovered"     -> {"auto_merge_eligible", "judge"}
    [] kind = "judged"         -> {"find_open", "push", "post_pr", "find_conflicting"}
    [] kind = "awaiting_ci"    -> {"check_ci", "sleep"}
    [] kind = "closing"        -> {"find_note", "edit_note", "post_note",
                                   "patch_closed", "delete_ref"}
    [] kind = "gate_reviewing" -> {"gate_review"}
    [] kind = "merging"        -> {"merge"}
    [] kind = "recorded"       -> {"add_labels"}

\* The driver never hands the machine an event its state rejects, so no bump
\* fails on its own transition (bump_workflow.py run and _execute).
MachineNeverRejects == transition.kind # "rejected"

\* While it runs, the workflow is inside the activity of its state's only
\* effect: driver and machine stay in step through every retry.
InStep ==
  /\ MachineNeverRejects
  /\ Running => /\ transition.effects = <<EffectOf(State.kind)>>
                /\ call \in CallsOf(State.kind)

\* A green reading vouches for the head every merge names, the one the state
\* will ask for and those already on their way.
GreenVouches ==
  /\ State.kind \in {"gate_reviewing", "merging"} =>
       State.outcome.pr.sha \in greenRead
  /\ \A w \in inflight : w.op = "merge" => w.pr.sha \in greenRead

\* The inductive invariant: a step from any state of it, reachable or not,
\* keeps the driver in step, the merges vouched for and the merged commits
\* green (bump_workflow.py run, merge_pull_request).
MergeInductive == TypeOK /\ InStep /\ GreenVouches /\ MergesOnlyWhatCIPassed

\* Faults at these calls leave the branch behind without a pull request ...
BranchLeftBehind ==
  {<<"push", "unheard">>, <<"push", "late">>, <<"post_pr", "lost">>,
   <<"post_pr", "late">>}

\* ... and so does a person who settles a pull request the workflow has not
\* heard of yet: the branch stays, or the change is on the default branch.
SettledUnseen == \E n \in DOMAIN pulls : pulls[n].by = "human"

\* Why a bump may fail: a denied permission; more trouble than attempts;
\* while opening, a branch left behind or a pull request settled unseen; a
\* pull request settled, moved or blocked before the merge.  No fault anywhere else,
\* and nothing people do elsewhere, ends a bump (TOOL_RETRY, push_branch,
\* find_open_pull_request, merge_pull_request).
FailsOnlyForCause ==
  phase = "failed" =>
    \/ \E c \in Calls : <<c, "denied">> \in scars
    \/ faults + moves >= MaxAttempts
    \/ /\ State.kind = "judged"
       /\ SettledUnseen \/ scars \cap BranchLeftBehind # {}
    \/ State.kind = "merging" /\ ~Accepts(Write("merge"))

-----------------------------------------------------------------------------
(* What the code's own comments say of it.                                 *)

\* workflow/constants.py on TOOL_RETRY: "Six attempts ... ride out a transient
\* blip".  With nobody interfering, fewer faults than attempts fail no bump.
RidesOutBlip == moves = 0 /\ faults < MaxAttempts => phase # "failed"
=============================================================================
