# froot, in TLA+

froot runs durable maintenance loops on Temporal. Three of them propose: they
scan a repository for dependency bumps (and removals, dead files, dead
exports), open one pull request per finding, wait for the repository's own CI,
and then record the outcome, close the pull request when it is red, or, for a
class of work that has earned it, review and merge it. Four of them advise:
they review the heads of open pull requests and keep one comment on each up to
date. A dashboard reads it all back from GitHub and Temporal. This directory
specifies that behaviour, model-checks it with TLC and proves part of it with
TLAPS. All paths below are relative to `src/src/froot/`.

## The system

| component | state it keeps | operations | hard because | correct when |
|---|---|---|---|---|
| bump machine (`policy/state_machine.py`) | none: pure, state in, transition out | `start`, `advance` | every later decision rests on it | acts only on the evidence each act needs |
| bump workflow (`workflow/bump_workflow.py`) | the current transition, in Temporal's history | `run`, `_execute`, `_await_ci` | every activity is retried from its first call; timers; crashes | ends, keeps in step with the machine, does what its outcome says |
| activities (`workflow/activities.py`) | none between attempts | several requests each | an attempt can die between two requests, or after one it did not hear about | a retry neither repeats nor contradicts what was done |
| forge (`adapters/github.py`) | GitHub's: branch, pull requests, comments, labels | reads and writes | people change it at the same time | merges what was checked, one note, no leftovers |
| CI oracle (`ci_status`, `domain/ci.py`) | GitHub's: check runs and statuses | paginated read, mapping, poll | CI moves between two pages and between two polls | green is complete, the wait ends |
| scan loop (`workflow/scan_workflow.py`, `dispatch_bump`, `reconcile_open_prs`, `policy/reconcile.py`) | Temporal's workflow ids | scan, dispatch, reconcile, self-test, continue-as-new | runs beside the bumps it started and beside one-shot scans | one bump per identity, only superseded pull requests closed |
| selection, versions, OSV (`policy/candidates.py`, `domain/version.py`, `adapters/osv.py`) | none | ranges of a record, targets of a package | ordering, spans, prereleases, partial answers | the lowest version that clears what it names |
| naming (`policy/naming.py`) | none | slugs, branches, ids, prefixes | one name begins another | a candidate has a bump of its own |
| autonomy gate (`auto_merge_eligible`, `policy/autonomy.py`, `gate_probe.py`, `dashboard/github_source.py`) | GitHub's history | the record of a class, its standing, the self-test | read request by request while it changes, from capped pages | a grant rests on a record under the model in force |
| advisory reviews (`workflow/*review_workflow.py`) | one marked comment per pull request | list, dispatch, analyse, adjudicate, post | reviews of two heads race; late writes | the comment is true of the head it names |
| read model (`dashboard/read_model.py`, `github_source.py`, `temporal_source.py`, `server.py`) | none: every page is read anew | fetch, list, assemble | two sources at two moments, either failing; joins by number, id and prefix | what it tells of a thing is that thing's, and was so |
| starter, trigger, watchdog (`starter.py`, `trigger.py`, `watchdog.py`) | Temporal's workflow ids | start, trigger, revive | id reuse policies | a dead loop comes back, a live one is left alone |
| determinism analysis, scanners (`policy/determinism.py`, ...) | none | reading of source text | the text | their result is an input here |
| rendering, settings, package managers, model and document adapters | - | I/O, layout, parsing | - | their answers are inputs here |

A scan dispatches one bump workflow per candidate under an id derived from the
bump; the bump calls the forge through its activities and is answered by CI;
reconcile closes pull requests of the same branch prefix whose target a newer
one superseded; the gate reads the labels that finished bumps left behind and
answers the next bump's question whether its class has earned the merge; the
dashboard computes the same standing another way and joins the pull requests
with the executions. The advisory loops share nothing with these but the forge
and the supervisor.

## Modules

### One bump

* `BumpMachine` is the pure machine: the seven states, the events, the effects
  (named by kind; each argument is also in the state the effect is emitted
  with) and `Advance`. The work item is left out, since no transition changes
  it or looks at it.
* `Forge` is GitHub as the adapter uses it, for the one head branch a bump
  owns: `commits`, `ref` (the head commit, 0 without a branch), `blocked` (a
  conflict or a protection rule bars the merge) and `pulls`.
  `Accepts` and `Perform` say what a write is answered and does; `Human` is
  what people do. The remote is external: what it answers is taken from how
  the adapter relies on it (422 on a second open pull request, 405 and 409 on
  a merge, 404 on a missing branch, a refused push of a diverging branch).
* `BumpWorkflow` extends both with the driver and the activities, one action
  per request, so that an attempt can die between any two. `transition` is the
  variable of the same name in `run`; `call` is the next request of the
  running activity; `tries` the attempts that failed. `Feed` is one turn of
  the `while` loop, `FailAttempt` is `TOOL_RETRY`. History variables
  (`approved`, `greenRead`, `scars`) record what the properties speak about
  and guard nothing.
* `BumpPromise` is what a bump promises whatever happens: it proposes once,
  merges only on four facts (earned, clean, green, approved), closes only on
  two, records an approved bump only once it is merged, and comes to an end.
  `BumpWorkflow!KeepsPromise` is the refinement, under `Stage`, `Evidence` and
  `Deed`.
* `CiWait` opens up the one step `CheckCi` of `BumpWorkflow`: the pages, the
  combined status, the mapping, the poll and the deadline, beside a CI that
  registers, runs, re-runs and reports. `BumpWorkflow` takes any reading CI
  can give; `CiWait` says what a reading is worth.

Faults hit one request at a time. *lost*: it had no effect. *unheard*: it was
done and the attempt died before knowing. *late*: the attempt timed out
(`ACTIVITY_TIMEOUT`, `CI_CHECK_TIMEOUT`) while the write was on its way, and
it lands at any later time. *denied*: 401, 403 without a rate-limit marker, or
no token, which `_raise_for_status` and `_token` make non-retryable. A failed
`git push` is a plain error and so is retried; a model or history read that
fails degrades to `unknown` or to `FALSE` inside its activity and so is not a
fault, only an answer.

### Where bumps come from

* `ScanLoop` is one repository: the continuous scan and the one-shot `-now`
  scan, each stepping through `scan_candidates`, `dispatch_bump` per candidate,
  `reconcile_open_prs` (list, derive, then PATCH and DELETE per closure),
  `gate_selftest` and continue-as-new; the starter or watchdog that starts a
  dead loop (`Revive`), the trigger, the operator. A bump is its package and
  target, since its branch and its workflow id are functions of the two; its
  life is a summary of `BumpWorkflow` (open, wait, then merge, close or
  record). `signal` is the version the loop's policy would pick upstream, which
  moves up and down; `installed` is the default branch. A failed activity starts
  over, so reconcile starts over from its listing. `opened` and `selected` are
  history.
* `Selection` is the pure choice of targets: versions as a table from their
  text to what it parses to (a text outside it does not parse, as for
  `Version.parse`), the precedence of prereleases, what `osv.py` makes of the
  events of an affected range, `SelectPatchCandidates` and
  `SelectSecurityCandidates` with `ClearingVersion`. `Candidate` refuses a
  target that is not stable and newer (`IsCandidate`): selecting one raises.
* `Names` is `policy/naming.py`: a text is a sequence of words and marks, so
  that slugs are made, joined, prefixed and parsed as in the code. A capital is
  a mark before its word, which a slug drops, so that names that differ in case
  only share a slug. A target is kept as it is written in a branch and in an id,
  which slugs it: for three numbers between two dots these are the same.
* `Proposals` composes the two over several repositories and loops, one tick at
  a time: checkout, registry or OSV batch, one request per record (either can
  fail, and the tick goes on with what it has), selection, dispatch under the
  bump's id, reconcile by parsing branch names. Advisories are disclosed and
  pull requests merged between any two steps. Overlapping ticks and the two
  requests of a close are left to `ScanLoop`.

### Whether a class may merge

* `Autonomy` is `class_earned`, `pr_autonomy` and the battery of known-bad
  records of `gate_probe.py`. Rates are per cent, by cross-multiplication.
* `ReadModel` is what froot reads back: `classify_check_runs`, the index of
  merges and reverts over a page of commits, rows, the standing of a class by
  both of its computations (`EarnedNow` of the acting gate, `ClassGates` of the
  dashboard).
* `EarnedGate` is `auto_merge_eligible` as it runs: pull requests, commits, and
  then the checks of each merge, a request each, while pull requests are
  opened, stamped, merged, closed, reverted and mentioned, checks report and
  are run again, and the worker is redeployed with another model or policy.
  `known` is history: the defects that were on record when the gate was asked.

### Advice, and the page

* `AdvisoryReview` is the four reviewers, one followed at a time on one pull
  request: the root loop (tick, list, dispatch per head, continue-as-new,
  revival), and per head the course of activities of its kind, with what its
  scanner leaves in doubt, what a judge may answer about it, and what of that
  becomes a finding, ending in `should_post` and the upsert of the marked
  comment. Its four `Synthesize...` operators are the four
  `synthesize_*_findings`. The scanners read text; what they find in a tree is
  an arbitrary set of sites. `disturbed` is history.
* `Starter` says which roots there are (`plans`, with the dispositions of
  `loops/registry.py`) and which of them a start starts.
* `Dashboard` is `assemble`: root rows, bump rows, tracks, verification,
  reliability, class gates, probes, advisory views, failures and flapping. Lists
  are sets here, since their order is layout.
* `Panel` is a request for the page: GitHub repository by repository beside
  Temporal kind by kind, then the outcomes of the merges, while bumps end,
  people decide, and roots turn, die and are revived, with a source failing
  part of the way or a result that does not decode. Of a repository one page of
  its newest pull requests is read (`PerPage`, 100 in the code), of a kind so
  many executions (`MaxPerType`, 500); which ones is open, since froot asks
  Temporal for no order. The list of a kind is one step: 500 executions come in
  one request of the client, and the results that are read one by one after it
  are those of executions that completed, which do not change.

`MCBumpWorkflow`, `MCProposals`, `MCEarnedGate` and `MCPanel` hold the instances
of the runs that need more than model values, and assert of their names and
records what theorems suppose: `MCPanel` that two roots have two ids and that
names tell (`RootsApart`, `NamesTell`), `MCProposals` that the ids of bumps are
apart and that records have one fix (`IdsApart`, `OneFix`). The proofs are in
`BumpWorkflow_proofs` (with those of `BumpMachine`, of `Forge` and of the
promise), `CiWait_proofs`, `ScanLoop_proofs`, `AdvisoryReview_proofs`,
`EarnedGate_proofs`, `Proposals_proofs` and `Panel_proofs`; the last two extend
`Names_proofs`, the lemmas on joined names.

Operators marked "Mutant" are deliberate bugs; none is used by a specification.
Each property of a passing run is listed in `PROJECT.json` with the mutant that
breaks it.

## Runs

| run | instance | shows |
|---|---|---|
| `bump_faults` | 3 attempts, 2 faults (lost, unheard, denied), 1 move of a person | promise kept, one note, nothing red left, failures only for a cause, the invariant of the proofs |
| `bump_late` | 2 models, 3 attempts, 1 late write, 2 moves of people or the operator | a retry interleaved with its predecessor and with people still keeps the promise |
| `ci_wait` | 3 checks, 1 context, pages of 2, 2 poll intervals, 2 failed reads, 1 re-run | what green and red are worth; the wait ends |
| `scan` | 1 package, 3 versions, 2 attempts, 2 faults, 1 move | reconcile spares the newest proposal, a bump that is over stays over, lasting candidates get their bump, overtaken pull requests are closed |
| `proposals` | 1 repository, 2 loops, packages `foo` and `@foo/bar`, 3 vulnerabilities, 1 fault, 1 merge | the lowest version that clears, a bump of its own for each candidate, reconcile by name, what is disclosed is proposed |
| `gate` | 2 models, a strict and a loose policy, 2 pull requests, 3 commits, pages of 2, 1 change during a reading, 1 fault, 1 move | what a grant is worth |
| `advisory` | 4 reviewers, 1 site, 2 heads, 2 attempts, 1 fault, 1 move | what the comment may say, and that a head that stays is reviewed |
| `panel` | `acme/web` and `acme/web-app`, 2 bumps, 4 reviews of which 1 ends, 5 events of roots that all run or never ran, pages of 1, lists of 3, 1 change during a reading, 1 fault after at most 1 execution | what a page may say of each thing, what it may leave out, and that it judges a class as the acting gate does |

Why these bounds are enough for the cases meant:

* *Attempts and faults.* Two faults fail the retry of a failed attempt, and
  three attempts let a third succeed; more attempts only repeat the same
  request. Where attempts are two, one fault is survived and two are not.
* *Moves.* Two moves of people let them settle a pull request and delete its
  branch, or push twice, around a late write. One move elsewhere is a release
  that overtakes an open pull request, a one-shot scan, a termination, a
  deleted comment or a redeployment.
* *Pages.* Three checks on pages of two put one on either side of a boundary
  with one unregistered; three commits on pages of two let the merge fall off
  the page; two pull requests on a page of two do not fall off, and
  `DefectMissedForCause` names that case for larger instances.
* *Limits of the page.* Two pull requests of a repository on a page of one let
  the older drop off. Four reviews do not fit a list of three, nor does a root
  that turns, dies and is started: its newest execution may drop out, or in five
  events one of its two deaths. Without its cause each of `MissingForCause`,
  `LivenessWasSo` and `FlapsForCause` is violated in the instance, but for the
  list of bumps: two fit it, and that case is left to the proofs, which hold for
  any `PerPage` and `MaxPerType`.
* *Versions and packages.* Three versions give a package two bumps, one to
  overtake the other. `foo` and `@foo/bar` have slugs one of which begins the
  other. Of the three vulnerabilities two are a fix apart for one package, one
  names two packages and one has a prerelease for a fix.
* *Repositories.* The name of one begins the name of the other, each may have a
  pull request 1, and one class is bumped by a planted canary. Of the roots two
  move, one of each disposition; a root that runs dies, is started and dies
  again in three events, and five leave it turns before and a start after. Capitals of an owner are dropped by its slug.
* *Gate.* The strict policy is one under which the self-test is silent, the
  loose one is one it alarms about; swapping the two models is a symmetry.
  Two days and a window of one put a pull request in or out of the window.

`CHECK_DEADLOCK FALSE` in the runs of a bump, of a wait and of the reviews: a
bump that has completed or failed stops, a wait that has returned does, and so
does a one-shot or terminated review loop with no moves left. All other runs
check for deadlock.

`FailsOnlyForCause` lists every way in which a bump can fail; `scars` makes it
exact. `NoteOnce` is not checked under late writes and `LeavesNothingRed` is
not either: a late comment doubles the note (below) and a late push can bring
a deleted branch back. `LatestVerdictStands` is about reviews that do not
overlap: two that do, finish in any order, and the older may have the last word
(`NeverAheadOfItsTree` and `ClearIsEarned` hold of it all the same).
`LowestThatClears` is about records whose spans of one version have one fix
(`OneFix`). `CandidateHasItsBump` is about packages whose names, joined with
those of loop and repository, differ (`IdsApart`), `ToldOfTheirOwn` about
repositories that are not called like a loop or like another one with a pull
request after it (`NamesTell`). The instances assert all three of themselves.
`HeadIsReviewed` allows a review to have failed: `REJECT_DUPLICATE` never tries
its head again.

A property that a theorem proves for every instance is not also run, unless it
says something a reader looks for in the run: the type invariants of
`BumpWorkflow`, `CiWait`, `ScanLoop` and `AdvisoryReview`, `MachineNeverRejects`
(both part of `MergeInductive`, which is run), the invariants of the other
proofs and `LoopRidesOut` are left to the proofs. The inductive invariants of
`AdvisoryReview` are defined in the module, those of the other proofs beside
the proofs.

### Runs that end in a violation

Each checks one sentence of the code's own documentation; `PROJECT.json`
quotes it under `findings`.

| run | sentence | what happens instead |
|---|---|---|
| `bump_blip` | six attempts ride out a transient blip | one lost request between push and pull request: every retry's push is refused, the bump fails |
| `scan_backward` | a candidate can never go backward | the default branch moves past the target between selection and edit; the pull request is a downgrade, and a granted bump merges it |
| `gate_partial` | any read failure degrades to hold | the checks of one merge cannot be read; the outcomes read before it are judged without it, and its defect does not count |
| `security_prerelease` | a fix that is no stable semver gives no target | a prerelease parses, `Candidate` refuses it, and the scan of the repository fails |

### Read off the models

These have no run: the code behaves so, and the properties say no more than is
true beside it.

* A merge whose answer is lost is refused on retry; the merged bump fails and
  carries no label, so its class never counts it.
* The environment label is that of the worker when the outcome is recorded, and
  both if an attempt dies after the label and the worker changes.
* A poll between the end of one check and the registration of the next reads
  green; a first poll before CI has registered reads a repository with CI as
  one without.
* A package whose pull request's target is reached by other means drops out of
  the candidates reconcile works from, and its pull request stays open.
* A reconcile that dies between PATCH and DELETE lists only open pull requests
  when it starts over: the branch stays.
* Close-on-red deletes whatever the branch has become since the reading; a late
  close note is posted twice; an attempt that dies after opening a pull request
  opens a second if a person closes the first before the retry looks.
* The justification of a security bump names every advisory that has a fix,
  also one whose fix the target does not reach by a span of its own
  (`candidates.py:96`); `LowestThatClears` speaks of those it clears.
* `server.py:80` says that an empty environment "simply matches no stamped PR";
  the read model filters nothing then.
* `activities.py:597` says that gate and panel "can never disagree". They do
  for a class with a decided canary, which the gate counts and the panel leaves
  out, and when the reading of another repository's outcomes fails; hence the
  premise of `PanelAndGateAgree`.
* `github_source.py:3` says that the list of issues "returns every proposed
  bump", `:330` "Read every froot PR" and `read_model.py:102` that a root's row
  "counts every terminal failure ... in the window". The code reads one page of
  100 labelled issues per repository and at most 500 executions of a type, and
  says nothing of what is past them. An advisory root continues as new every five
  minutes, 288 times a day for each repository: its type is past 500 in less
  than two days of one repository, while Temporal keeps some seven. From then on
  the page may show a live root dead or as never run, miss that it flaps, and
  miss failures and reviews. `MissingForCause`, `FlapsForCause` and
  `LivenessWasSo` name these causes and are true beside them.
* The batch of OSV is read without its `next_page_token` (`osv.py:120`): past the
  length of one answer vulnerabilities are left out, and nothing says so.
* Of reviews that overlap, the one that ends last writes the comment, also if its
  head is the older; a bump judged by one model and recorded under another
  carries the label of the second.
* A review execution that completed and whose result does not decode is counted
  as clean (`_advisory_record`).
* The failure of a bump whose loop is no longer in `FROOT_LOOPS` shows on the
  dependency-patch tab, and so would that of an owner named like a loop.
  `acme/web` with pull request 12 and a repository `acme/web-12` begin alike.
* Two bumps have one id if the parts join alike: `acme/web` with `app-ui`,
  `acme/web-app` with `ui`.

## Fairness

* `BumpWorkflow`: weak fairness of `Step`, the driver's own steps; `CiWait`: of
  `Wait`. The worker serves its task queue and every attempt is bounded by a
  start-to-close timeout; a bump ends because attempts and poll intervals run
  out. Nothing is assumed of CI, faults, late writes, people or the operator.
* `ScanLoop`: weak fairness of each scan's own steps, of each bump's, and of
  `Revive`: the watchdog is a scheduled job that looks again and again.
* `AdvisoryReview`: weak fairness of the loop's steps, of each review's and of
  `Revive`, for the same reasons.
* `Proposals`: each loop of each repository is a workflow of its own with its
  own timer, while one tick is followed at a time; so `StartTick` is strongly
  fair per loop and repository, and the tick under way weakly.
* `EarnedGate` and `Panel` are about what one reading says: safety only, no
  fairness.

## Proofs

All proofs are for every value of the constants under the assumptions the
modules name (attempts, heads, versions and pages positive, bounds natural,
faults and reviewers of the kinds there are, and what `Proposals` says below):
any number of attempts, faults, moves, models, packages, versions, checks,
pages, heads and sites.

| module | theorem | statement |
|---|---|---|
| `BumpWorkflow_proofs` | `MergeStandsOnFourLegs` | of the machine alone: the merging state is reached only through all four legs |
| | `MergeInductiveHolds`, `TypeCorrect`, `DriverInStep`, `MergesAreGreen` | `[]` of the invariant, the types, `MachineNeverRejects`, `MergesOnlyWhatCIPassed` |
| | `PromiseInductiveHolds`, `KeepsPromiseSafely` | `[]` of the invariant; `Promise!Init` and `[][Promise!Next]` under the refinement mapping |
| | `OutcomeInductiveHolds`, `SuccessIsDone`, `FailureHasCause` | `[]` of the invariant, `CompletedIsDone`, `FailsOnlyForCause` |
| | `NotesOnce`, `NothingRedLeft` | without late writes: `[]` of `NoteOnce`, `LeavesNothingRed` |
| `CiWait_proofs` | `ReadingInductiveHolds`, `WaitTypeCorrect`, `GreenCountsEveryPage`, `ReadingsStand`, `TimeoutsHaveWaited` | `[]` of the invariant, the types and the run's three invariants |
| `ScanLoop_proofs` | `ReconcileInductiveHolds`, `ScanTypeCorrect`, `NewestSurvives`, `DispatchOnce` | `[]` of the invariant, the types, `NewestSurvivesReconcile`; `NeverProposedAgain` |
| `AdvisoryReview_proofs` | `ReviewInductiveHolds`, `ReviewTypeCorrect`, `NeverAhead`, `Quiet`, `ClearEarned`, `ReviewedOnce`, `RidesOut` | `[]` of the invariant, the types and three of the run's invariants; `NeverReviewedAgain`, `LoopRidesOut` |
| | `VerdictInductiveHolds`, `VerdictOfTheLatest` | `[]` of the invariant of reviews that do not overlap, and `LatestVerdictStands` |
| `EarnedGate_proofs` | `GateInductiveHolds`, `GateTypes`, `SwapResetsTrust`, `SilenceVouches`, `DefectsMissedForCause` | `[]` of the invariant, the types and the run's three invariants |
| `Proposals_proofs` | `ProposalsInductiveHolds`, `ProposalTypes`, `NewestIsKept` | `[]` of the invariant, the types; `ReconcileKeepsNewest` |
| | `TargetIsLowest` | if `OneFix`: `[]` of `LowestThatClears` |
| | `NamesAreTheirOwn` | if `IdsApart`: `CandidateHasItsBump` |
| `Panel_proofs` | `PanelInductiveHolds`, `PanelTypes`, `RowsOfTheirOwn`, `PageMissesForCause`, `PageAndGateSayTheSame`, `EachIsCountedOnce` | `[]` of the invariant, the types, `RowsAreTheirOwn`, `MissingForCause`, `PanelAndGateAgree`, `CountedOnce` |
| | `LivenessShownWasSo`, `FlapsOnlyForCause` | if `RootsApart`: `[]` of `LivenessWasSo`, `FlapsForCause` |
| | `TellsOfTheirOwn` | if `NamesTell`: `[]` of `ToldOfTheirOwn` |

`Names_proofs` has lemmas only.

**Merges.** `MergesOnlyWhatCIPassed` is not inductive: nothing in it says why a
merge on its way names a green commit. `MergeInductive` adds `InStep` (while it
runs, the driver is inside the activity of its state's only effect, so a merge
is sent only from the merging state) and `GreenVouches` (the head that the gate
and merging states carry, and the head of every merge in flight, was read
green). `AnswerMoves` shows an answered state moves to a state with its one
effect; `FeedInStep`, `FailAttemptInStep` and `ContinueInStep` lift that to the
driver; `PerformKeeps` shows no write, whenever it lands, merges anything not
vouched for, since an accepted merge found the very head it insisted on; each
action then falls to one of these.

**The promise.** A refinement step must show that the four facts stand when a
merge *lands*, which may be long after it was sent. `Backed` says so of every
write on its way and of every deed done: behind a merge stand `MergeFacts`,
behind a close `CloseFacts`, the two exclude each other, and an approved bump
leaves the merging state only merged. `AnswerGoes` says where each answer takes
the machine. Steps that establish nothing fall to `QuietStep` (whatever they do
to the pull requests is covered, `DeedsMove`); the five that establish a fact
have a lemma each (`EligibleStep`, `JudgeStep`, `ReadyStep`, `ReadingStep`,
`ReviewStep`), and so has the record (`RecordStep`). The liveness half of
`KeepsPromise`, that the bump comes to an end, is checked by TLC.

**How a bump ends.** `FailsOnlyForCause` is a count: an attempt fails because
the environment did something, so as many failed attempts need as many faults
and moves. By itself it says nothing until the end. `OutcomeInductive` says it
of every state: each failed attempt of the running activity is charged to a
fault or a move (`Charged`), one in advance where the refusal is on its way
(`Owed`: the branch was deleted between push and pull request), and where
attempts fail for free the refusal is one that no retry gets over and none of
the listed causes goes away again (`Excused`). That a push or a pull request is
refused for no other reason needs `BranchInStep`, the branch and the open pull
requests as the next call relies on them; and that a merge is refused for none
but the head or a bar needs `Known`, which relates heads to commits. `Done` is
what makes `CompletedIsDone` inductive. What no step takes back is said once
(`ForgeMoves`: pull requests stay, with their labels and the way they were
settled, and a block is lifted only by a push) and lifted to every write and
move of people; each action then has a lemma of its own.

`NoteOnce` and `LeavesNothingRed` have `"late" \notin FaultKinds` for a
hypothesis, since a write that lands after its attempt timed out breaks both:
the run of late writes leaves them out for the same reason. Their invariant
`Prompt` adds that nothing is on its way, that the note is not there when it is
about to be posted, and that what close-on-red records is gone.

**Readings.** `ReadingInductive` adds to the three properties of `CiWait` that
what is unread and what is seen account for all there was when the attempt began
(`AllAccountedFor`), and that a conclusion once seen stands unless re-run
(`SeenStands`). `StatusSays` says what the mapping makes of a set of rows;
`DecideKeeps` joins the two, and CI's own moves keep them (`CiMoves`).

**Reconcile.** `NewestSurvivesReconcile` says that what reconcile closed lies
below the newest version selected of its package. It is not inductive either: a
close is sent steps after it was decided. `ReconcileInductive` adds the same of
what each scan still has in hand to close or whose branch it is about to delete
(`Doomed`). `DeriveClosures` establishes it, because a candidate it compares
with is selected in that very step; selections only grow (`NoteSelectedKeeps`,
`StillJustified`), so it stays true while the scan fails, is retried or dies,
and while the other scan closes on its own. `DispatchOnce` needs only the types:
no step but `StartBump` starts a bump, and that only from `none`.

**Reviews.** A comment is about a tree read at some earlier time by a review
that may since have failed, under a write that may still be on its way.
`ReviewInductive` says in which order heads, readings and findings come about
(`HeadsInOrder`, `ReadInOrder`), that every comment, posted or on its way, says
what the review of its head has settled on and cannot change any more
(`Vouched`), and that nobody is about to write before something was found
(`QuietSoFar`). `ReviewedOnce` and `RidesOut` follow step by step from the
types. `LatestVerdictStands` needs an invariant of its own, since it says nothing
while a review is under way and that is when it could go wrong. While nothing
is `disturbed`, `VerdictInductive` says that the review under way is that of the
newest head dispatched (`OneAtATime`; a dispatch keeps it because the listed
head is never older than one dispatched before, `NewestIsNext`), that there is
one comment and no write on its way, and that from the lookup to the write the
comment found is the comment there (`TargetStands`). `TurnsOutKeeps` says what a
turn of a review must leave; `WritesTheComment` shows that a write leaves the one
comment, heard of or not.

**The gate.** A grant is computed from a reading that is as old as its first
request. `GateInductive` says in which respects GitHub cannot take back what was
read (`Faithful`: a label, a decision, a commit of the branch and its mentions),
so that the evidence counted is still there when the grant is given and remains
so (`Vouched`); counts are compared by inclusion of finite sets. `SilenceVouches`
follows with the battery: a policy that grants one of the known-bad records is
exactly one that asks for less than two. `Followed` traces each defect that was
on record when the gate was asked through the requests (in the page of pull
requests, in the page of commits, in what is still to be read, in the outcomes),
unless it is one of the causes that `DefectMissedForCause` lists (`Hidden`). Two
facts make that inductive: a revert has no checks of its own, and a known defect
stays merged and on the branch.

**Names.** What a name is made of is joined by the mark that may occur in its
parts, so a name is taken apart from the end: of a bump's id what follows the
last hyphen is its target, and the rest is its stem (`BumpIdEnds`). Of two texts
that begin a third one begins the other (`Comparable`), which is what prefixes of
ids rest on (`PrefixOfTail`, `SegmentsApart`). `Join` is a recursive function,
and that it grows by one part at a time (`JoinGrows`) would take induction. It is
had without the induction theorems, whose operator parameter cannot be
instantiated here: a set of numbers that has 0 and with each number the next has
them all (`NatSetInduction`), since of the initial segments that do not fit into
it there would be a least one, finite sets being well founded under inclusion.

**Proposals.** `ReconcileKeepsNewest` rests on taking names apart: a branch is
slugs joined by marks, and `_match_pr` recovers a target from a branch by
prefix. The lemmas on joined texts show that a branch that matches a package's
prefix and leaves a version is one made of that slug. `ProposalsInductive` adds
that every open pull request carries the name of its own bump (`GithubPulls`),
that ticks hold only stable upgrades, and, under `OneFix`, that a security
target is the lowest that clears what it names (`Lowest`). `OneFix` says of the
records that spans of one package holding one version have one fix; without it
`_clearing_version` takes the fix of the span listed first, which need not leave
the others. `SlugAssumption` says that the slugs of packages, owners and repositories are texts:
`Slug` filters a sequence, and what a filter returns for every input takes
induction. `CandidateHasItsBump` has its action checked at the one step that lets
an item go, the dispatch: it starts a bump or finds one of that id. By the types
a bump's id is made of its own parts, and by `IdsApart` those of one id are of one
repository, loop, slug and target (`IdTells`). `IdsApart` is a condition on the names given,
not on ids: without it two packages do share a bump (`naming.py:85`).
`SemverAssumption` is the type of the table of versions.

**The page.** Nothing of the page is stored: every view is computed anew from
what two sources answered, part by part, while the world went on. So
`PanelInductive` says of each part, once it is in, what it still has to do with
the world. Of the world itself, `WorldInductive`: pull requests are numbered per
repository, each numbered bump has one with its own verdict, and the newest
execution of a root runs or failed. Of the parts, `PageTrue`: what was read is
so, but for what was decided since (`Same`). `PageTold`: of a source that
answered without an error, each pull request there was at the request is in or
has a page of newer ones, and a list that is not full has all that had begun at
the request; the executions of the roots are some of those of one moment since
(`Were`), and all of them if the list is not full. `Taken` gives either the whole
list or one that is full (`TakenIs`), and what is newer stays newer (`NewerGrow`). `WorldKeeps` and
`PageKeeps` show that no move of the world takes any of it back; each step of
the request then has a lemma. From the parts the views follow: `RootRowSays`
reads a root's row (its newest execution, `GreatestIs`, tells whether it lives,
and its deaths are counted by a bijection with the failed executions),
`SomeRootRowSays` what is left of it when some are cut away (no more deaths than
there were), and
`JudgedRows`, `StandingIs` and `RowsCount` show that the row of a class and the
gate of that class count images of the same pull requests, none counted twice
and none lost. The tabs together are a sum over loops, and what a fold computes
is had without induction over data: a set of loops for which the sum is not the
size of the union of its disjoint parts has, finite sets being well founded
under inclusion, a least such subset, and there is none (`SumOfParts`). For
`CountedOnce`, `PanelAssumption` says that only bumps are planted
(`canary.py:41`): no removal has the target of one. `RootsApart`, that two roots have two ids, is a hypothesis of the
two theorems on liveness since names may collide (`naming.py:85`): two roots of
one id are one workflow to Temporal, and one's failure is the other's. `ToldOfTheirOwn`
compares what the page derives from an id by prefix with what the id was made
of. A loop with a segment of its own is told by it, and a repository called like
the segment would be mistaken for it; of the repositories whose prefixes fit the
id of a review, the code takes the longest, and since of two prefixes of one id
one begins the other, the longest is the review's own unless the other
repository's name holds the number too. `NamesTell` rules out just these.

Model-checked only: liveness (`WaitEnds`, the end of a bump in `KeepsPromise`,
`CandidateIsTaken`, `OvertakenIsClosed`, `DisclosedIsProposed`,
`HeadIsReviewed`), which with `ENABLED` is out of the prover's reach. Every
other property of a passing run is stated by a theorem, four of them under a
condition on names and one under a condition on records, as said above.

## Bounds

`MaxFaults`, `MaxMoves`, `MaxReruns`, `MaxMerges`, `MaxMeanwhile`,
`MaxRootEvents` and `MaxEnded` (reviews that end) cap what the environment does;
`MaxAttempts`, `Deadline`, the page sizes and `MaxPerType` are the code's own
limits, made small. Commits, heads, pull requests
and bumps are bounded by constants named so. Poll intervals may go by during a
reading or an outage, hence `elapsed` may jump. `Moments` are days. In `Panel`
only one part of the world moves within a behaviour (`focus`): bumps with their
pull requests, roots, or reviews. The page relates none of these to another
beyond what one part shows, and `MaxBefore` says how many executions are read
before an error. In `ScanLoop` the watchdog starts again what failed and, as its
id reuse policy says, never what completed.

## Not modelled

Wording of pull requests, comments, justifications and log lines; assignees
(best effort); reopening a closed pull request of a bump; a merge bar that lifts
by itself (to the bump it is a lost request); GitHub's order of check runs
across pages (any split is allowed). In `ScanLoop`: what a bump does in between
(the subject of `BumpWorkflow`), the note of a closure, the order in which a
tick dispatches (any order is allowed), the pages of the list of open pull
requests and the checkout behind a list of candidates (each is one step), the
`FROOT_RECONCILE` toggle, and loops whose findings carry no version, which
dispatch the same way and are never reconciled. In `EarnedGate`: classes other
than the one followed, which `ReadModel` filters out. In `AdvisoryReview`:
reviewers beside each other, since each has its own marker, ids and root; pull
requests other than the one followed, except that a failed dispatch of one ends
the tick before the turn of another. In `Panel`: telemetry (`clickhouse_source`),
orders, times to merge and rates; issues that a person gave froot's label, which
take up GitHub's page; executions that Temporal no longer keeps; a second advisory
loop, which is read like the first. In `Proposals`: an answer of OSV's batch that
is cut.

The determinism analysis reads syntax trees: its mistakes are in the parser,
and a model of a call graph would not have them. Settings are parsing;
package managers and codemods are subprocesses over a checkout, of which a bump
sees that the edit left something to commit or failed; the model and document
adapters answer with members of a small set; rendering is layout; the judge
evaluation is an offline script without state; worker and Temporal client are
wiring, and what the server gives (retries, timers, id reuse, continue-as-new)
is in the modules that rely on it.

## Plan

1. `EarnedGate` and `BumpWorkflow` composed: what a class's standing is when a
   merge it was granted lands.
2. That the bumps of `ScanLoop` are what `BumpWorkflow` does, as a refinement.
3. Proofs: the refinement of 2, and of 1 that a grant still has its evidence when
   the merge lands.
