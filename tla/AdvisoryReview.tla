----------------------------- MODULE AdvisoryReview -----------------------------
(***************************************************************************)
(* The four advisory reviewers (workflow/*review_workflow.py): a root loop *)
(* per repository lists the open pull requests and dispatches one review   *)
(* per head commit; a review analyzes a checkout, asks the model about     *)
(* what is in doubt, and keeps one marked comment up to date.              *)
(*                                                                         *)
(* One reviewer and one pull request are followed: reviewers share nothing *)
(* but the forge, and other pull requests matter to this one only where a  *)
(* failed dispatch ends the tick before its turn.                          *)
(***************************************************************************)
EXTENDS Naturals, FiniteSets

CONSTANTS
  Family,       (* the reviewers considered                                *)
  Sites,        (* the places of the repository a reviewer looks at        *)
  MaxHead,      (* bound: commits pushed to the pull request               *)
  MaxAttempts,  (* attempts of one activity (TOOL_RETRY)                   *)
  MaxFaults,    (* bound: requests that go wrong                           *)
  MaxMoves      (* bound: moves of people and the operator besides pushes  *)

Reviewers == {"determinism", "a11y", "doc_refs", "doc_coherence"}
Heads     == 1..MaxHead

ASSUME ReviewAssumption ==
  /\ Family \subseteq Reviewers
  /\ MaxHead \in Nat \ {0} /\ MaxAttempts \in Nat \ {0}
  /\ MaxFaults \in Nat /\ MaxMoves \in Nat

VARIABLES
  reviewer,     (* which of the reviewers this is                          *)
  pr,           (* the pull request: open, its head, the tree at the head  *)
  comments,     (* the marked comments on it                               *)
  posted,       (* how many were ever posted, and the id of the latest     *)
  flying,       (* writes of timed-out attempts that are still on the way  *)
  loop,         (* the root workflow                                       *)
  reviews,      (* the review workflow of each head                        *)
  faults, moves,
  disturbed     (* history: two writers overlapped, or a person cut in     *)

forgeVars  == <<comments, posted, flying>>
budgetVars == <<faults, moves>>
vars == <<reviewer, pr, forgeVars, loop, reviews, budgetVars, disturbed>>

-----------------------------------------------------------------------------
(* What is looked at, and what the model answers.                          *)

\* A site is outside the pull request's changes, changed and fine, in doubt,
\* or impure beyond doubt (only determinism has such).
SiteStates == {"untouched", "clean", "suspect", "certain"}
Trees == [Sites -> SiteStates]
Touched(tree) == {s \in Sites : tree[s] # "untouched"}

\* Where a review of each kind begins, and whom it asks about what is in doubt;
\* all of them post in the end.
PrReview             == [first |-> "checkout", asks |-> "adjudicate"]
PrA11yReview         == [first |-> "files", asks |-> "adjudicate"]
PrDocRefsReview      == [first |-> "files", asks |-> "adjudicate"]
PrDocCoherenceReview == [first |-> "checkout", asks |-> "agent"]
Course == CASE reviewer = "determinism"   -> PrReview
            [] reviewer = "a11y"          -> PrA11yReview
            [] reviewer = "doc_refs"      -> PrDocRefsReview
            [] reviewer = "doc_coherence" -> PrDocCoherenceReview

\* What the scan of a checkout leaves in doubt: determinism reads every
\* module, the scans of templates and documents the files listed as changed.
AnalyzePr(tree) == {s \in Sites : tree[s] = "suspect"}
ScanPrA11y(tree, touched) == {s \in touched : tree[s] \in {"suspect", "certain"}}
ScanPrDocRefs(tree, touched) == {s \in touched : tree[s] \in {"suspect", "certain"}}
Suspects(tree, touched) ==
  CASE reviewer = "determinism"   -> AnalyzePr(tree)
    [] reviewer = "a11y"          -> ScanPrA11y(tree, touched)
    [] reviewer = "doc_refs"      -> ScanPrDocRefs(tree, touched)
    [] reviewer = "doc_coherence" -> {}
Hazards(tree) ==
  {s \in Sites : reviewer = "determinism" /\ tree[s] = "certain"}

\* The model on one site: a bucket, whether it says what is wrong, and
\* whether it quotes anything.
Answers(buckets) == [bucket : buckets, what : BOOLEAN, citation : BOOLEAN]
FrontierAssessment == Answers({"yes", "no", "uncertain"})
A11yAssessment     == Answers({"gap", "ok", "judgment"})
DocRefAssessment   == Answers({"broken", "intentional", "judgment"})
DocItemOut         == Answers({"drift", "ok", "judgment"})
Verdicts == CASE reviewer = "determinism"   -> FrontierAssessment
              [] reviewer = "a11y"          -> A11yAssessment
              [] reviewer = "doc_refs"      -> DocRefAssessment
              [] reviewer = "doc_coherence" -> DocItemOut

\* Which answers become findings: cite-or-omit.
SynthesizeFindings(v) == v.bucket = "yes"
SynthesizeA11yFindings(v) ==
  v.bucket = "judgment" \/ (v.bucket = "gap" /\ v.citation)
SynthesizeDocRefFindings(v) ==
  v.bucket = "judgment" \/ (v.bucket = "broken" /\ v.citation)
SynthesizeDocCoherenceFindings(v) ==
  \/ v.bucket = "judgment" /\ (v.what \/ v.citation)
  \/ v.bucket = "drift" /\ v.what /\ v.citation
Synthesize(v) ==
  CASE reviewer = "determinism"   -> SynthesizeFindings(v)
    [] reviewer = "a11y"          -> SynthesizeA11yFindings(v)
    [] reviewer = "doc_refs"      -> SynthesizeDocRefFindings(v)
    [] reviewer = "doc_coherence" -> SynthesizeDocCoherenceFindings(v)

\* Mutants of ShouldPost: a comment whatever there is to say; and no clearing
\* of a comment whose findings are gone.
ShouldPostAlways(found, exists) == TRUE
ShouldPostFindings(found, exists) == found # {}

ShouldPost(found, exists) == found # {} \/ exists

-----------------------------------------------------------------------------
(* The states of a review, a comment and the loop.                         *)

Over   == {"done", "failed"}
Places == {"files", "checkout", "agent", "adjudicate", "exists", "lookup", "write"}

\* touched: the changed files as listed; seen: the head that was checked out;
\* target: the comment to edit, 0 to post one.
ReviewStates ==
  [at : Places \cup Over \cup {"none"}, tries : 0..(MaxAttempts - 1),
   touched : SUBSET Sites, seen : 0..MaxHead, suspects : SUBSET Sites,
   found : SUBSET Sites, completed : BOOLEAN, target : Nat]
NoReview == [at |-> "none", tries |-> 0, touched |-> {}, seen |-> 0,
             suspects |-> {}, found |-> {}, completed |-> TRUE, target |-> 0]

\* The three bodies that render_*_comment gives.
Bodies == {"incomplete", "clear", "findings"}

\* Mutant of Render: a review that could not complete reads as all clear.
RenderBlind(r) == IF r.found = {} THEN "clear" ELSE "findings"

Render(r) == IF ~r.completed THEN "incomplete"
             ELSE IF r.found = {} THEN "clear" ELSE "findings"

Comments == [id : Nat, body : Bodies, head : Heads, seen : Heads]
Written(h, id) == [id |-> id, body |-> Render(reviews[h]), head |-> h,
                   seen |-> reviews[h].seen]

\* _marked_comment_id: the first in the listing; 0 when there is none.
MarkedCommentId ==
  {c.id : c \in {d \in comments : \A e \in comments : d.id <= e.id}}
    \cup (IF comments = {} THEN {0} ELSE {})

LoopStates == [status : {"off", "running", "returned", "failed"},
               at : {"list", "dispatch", "asleep"}, todo : 0..MaxHead,
               tries : 0..(MaxAttempts - 1), continuous : BOOLEAN]
Started(continuous) == [status |-> "running", at |-> "list", todo |-> 0,
                        tries |-> 0, continuous |-> continuous]

UnderWay(h) == reviews[h].at \in Places
Idle == \A h \in Heads : ~UnderWay(h)

Init ==
  /\ reviewer \in Family
  /\ pr \in [open : {TRUE}, head : {1}, tree : Trees]
  /\ comments = {} /\ posted = 0 /\ flying = {}
  /\ loop \in {Started(TRUE), Started(FALSE), [Started(TRUE) EXCEPT !.status = "off"]}
  /\ reviews = [h \in Heads |-> NoReview]
  /\ faults = 0 /\ moves = 0
  /\ disturbed = FALSE

-----------------------------------------------------------------------------
(* The root loop.                                                          *)

LoopRuns(at) == loop.status = "running" /\ loop.at = at

\* The end of a tick, good or bad: a durable loop sleeps and starts over, a
\* one-shot returns, or fails if its tick did.
EndTick(l, ending) ==
  IF l.continuous THEN [l EXCEPT !.at = "asleep", !.todo = 0, !.tries = 0]
  ELSE [l EXCEPT !.status = ending, !.todo = 0, !.tries = 0]

\* list_review_prs: the pull request with the head it has now, if it is open.
ListReviewPrs ==
  /\ LoopRuns("list")
  /\ loop' = IF pr.open THEN [loop EXCEPT !.at = "dispatch", !.todo = pr.head, !.tries = 0]
             ELSE EndTick(loop, "returned")
  /\ UNCHANGED <<reviewer, pr, forgeVars, reviews, budgetVars, disturbed>>

\* Mutant of StartReview: ALLOW_DUPLICATE.
StartReviewAgain(h) == reviews[h].at \notin Places

\* start_workflow under the id of pull request and head, REJECT_DUPLICATE: a
\* head that has, or had, a review is left alone.
StartReview(h) == reviews[h].at = "none"

DispatchPrReview ==
  /\ LoopRuns("dispatch")
  /\ loop' = EndTick(loop, "returned")
  /\ IF StartReview(loop.todo)
     THEN /\ reviews' = [reviews EXCEPT ![loop.todo] = [NoReview EXCEPT !.at = Course.first]]
          /\ disturbed' = (disturbed \/ ~Idle)
     ELSE UNCHANGED <<reviews, disturbed>>
  /\ UNCHANGED <<reviewer, pr, forgeVars, budgetVars>>

\* The timer fires and the workflow continues as new.
ContinueAsNew ==
  /\ LoopRuns("asleep")
  /\ loop' = Started(TRUE)
  /\ UNCHANGED <<reviewer, pr, forgeVars, reviews, budgetVars, disturbed>>

\* An attempt of a listing or a dispatch fails: for this pull request's
\* dispatch or for that of one listed before it.  The last attempt, or one
\* that is not to be retried, fails the tick.
FailTick(retryable) ==
  /\ loop.status = "running" /\ loop.at \in {"list", "dispatch"}
  /\ faults < MaxFaults /\ faults' = faults + 1
  /\ loop' = IF retryable /\ loop.tries + 1 < MaxAttempts
             THEN [loop EXCEPT !.tries = @ + 1]
             ELSE EndTick(loop, "failed")
  /\ UNCHANGED <<reviewer, pr, forgeVars, reviews, moves, disturbed>>

\* Mutant of Revive: REJECT_DUPLICATE.
ReviveRejectDuplicate ==
  /\ loop.status = "off"
  /\ loop' = Started(TRUE)
  /\ UNCHANGED <<reviewer, pr, forgeVars, reviews, budgetVars, disturbed>>

\* The starter or the watchdog starts the loop, ALLOW_DUPLICATE_FAILED_ONLY.
Revive ==
  /\ loop.status \in {"off", "failed"}
  /\ loop' = Started(TRUE)
  /\ UNCHANGED <<reviewer, pr, forgeVars, reviews, budgetVars, disturbed>>

LoopStep == ListReviewPrs \/ DispatchPrReview \/ ContinueAsNew

-----------------------------------------------------------------------------
(* One review.  Every step is one request of an activity; an attempt that  *)
(* fails starts its activity over.                                         *)

At(h, place) == reviews[h].at = place
FirstOf(place) == CASE place \in {"files", "checkout", "agent"} -> Course.first
                    [] place = "adjudicate" -> "adjudicate"
                    [] place \in {"exists", "lookup", "write"} -> "exists"

\* An activity that ends hands its result on; the next starts with no
\* attempt spent.
Become(h, r) == /\ reviews' = [reviews EXCEPT ![h] = r]
                /\ UNCHANGED <<reviewer, pr, loop, budgetVars, disturbed>>

\* list_pull_request_files, list_pull_request_changes: as they are now.
ListFiles(h) ==
  /\ At(h, "files")
  /\ Become(h, [reviews[h] EXCEPT !.at = "checkout", !.touched = Touched(pr.tree)])
  /\ UNCHANGED forgeVars

\* Mutant of Fetched: a checkout kept from the first review.
FetchedOnce(h) == 1

\* What refs/pull/N/head is when it is fetched, whatever head the review is of.
Fetched(h) == pr.head

\* checkout_pull_request and the scan of what it brought.
Analyze(h) ==
  /\ At(h, "checkout") /\ Course.asks = "adjudicate"
  /\ LET suspects == Suspects(pr.tree, reviews[h].touched)
     IN Become(h, [reviews[h] EXCEPT
          !.at = IF suspects = {} THEN "exists" ELSE "adjudicate",
          !.seen = Fetched(h), !.suspects = suspects, !.found = Hazards(pr.tree),
          !.tries = 0])
  /\ UNCHANGED forgeVars

\* adjudicate_*: one verdict per suspect, synthesized into findings.
Adjudicate(h) ==
  /\ At(h, "adjudicate")
  /\ \E verdicts \in [reviews[h].suspects -> Verdicts] :
       Become(h, [reviews[h] EXCEPT !.at = "exists", !.tries = 0,
         !.found = @ \cup {s \in reviews[h].suspects : Synthesize(verdicts[s])}])
  /\ UNCHANGED forgeVars

\* run_doc_coherence_agent: checkout, then the agent, in one activity.
CheckoutForAgent(h) ==
  /\ At(h, "checkout") /\ Course.asks = "agent"
  /\ Become(h, [reviews[h] EXCEPT !.at = "agent", !.seen = Fetched(h)])
  /\ UNCHANGED forgeVars

\* The agent reads anything and reports items of its own, or ends early with
\* none.
RunAgent(h) ==
  /\ At(h, "agent")
  /\ \/ \E reported \in SUBSET Sites : \E items \in [reported -> Verdicts] :
          Become(h, [reviews[h] EXCEPT !.at = "exists", !.tries = 0,
            !.found = {s \in reported : Synthesize(items[s])}, !.completed = TRUE])
     \/ Become(h, [reviews[h] EXCEPT !.at = "exists", !.tries = 0,
          !.found = {}, !.completed = FALSE])
  /\ UNCHANGED forgeVars

\* post_*: find_marked_comment decides whether there is anything to say.
FindMarkedComment(h) ==
  /\ At(h, "exists")
  /\ Become(h, [reviews[h] EXCEPT
       !.at = IF ShouldPost(reviews[h].found, comments # {}) THEN "lookup" ELSE "done"])
  /\ UNCHANGED forgeVars

\* upsert_issue_comment looks the marker up once more, and remembers.
LookUpMarked(h) ==
  /\ At(h, "lookup")
  /\ \E id \in MarkedCommentId :
       Become(h, [reviews[h] EXCEPT !.at = "write", !.target = id])
  /\ UNCHANGED forgeVars

\* What PATCH and POST do on GitHub; a PATCH of a deleted comment is a 404.
Accepts(write) == write.id = 0 \/ \E c \in comments : c.id = write.id
Perform(write) ==
  IF write.id = 0
  THEN comments' = comments \cup {[write EXCEPT !.id = posted + 1]} /\ posted' = posted + 1
  ELSE /\ comments' = {IF c.id = write.id THEN write ELSE c : c \in comments}
       /\ UNCHANGED posted

WriteOf(h) == Written(h, reviews[h].target)

UpsertComment(h) ==
  /\ At(h, "write") /\ Accepts(WriteOf(h))
  /\ Perform(WriteOf(h))
  /\ Become(h, [reviews[h] EXCEPT !.at = "done"])
  /\ UNCHANGED flying

\* A failed attempt: the activity starts over, or the review fails.
AfterFailure(h, retryable) ==
  IF retryable /\ reviews[h].tries + 1 < MaxAttempts
  THEN [reviews[h] EXCEPT !.at = FirstOf(reviews[h].at), !.tries = @ + 1]
  ELSE [reviews[h] EXCEPT !.at = "failed"]
FailReview(h, retryable) ==
  /\ reviews' = [reviews EXCEPT ![h] = AfterFailure(h, retryable)]
  /\ UNCHANGED <<reviewer, pr, loop, moves>>

\* The comment to edit is gone.
UpsertRefused(h) ==
  /\ At(h, "write") /\ ~Accepts(WriteOf(h))
  /\ FailReview(h, TRUE)
  /\ UNCHANGED <<forgeVars, faults, disturbed>>

ReviewStep(h) ==
  \/ ListFiles(h) \/ Analyze(h) \/ Adjudicate(h) \/ CheckoutForAgent(h)
  \/ RunAgent(h) \/ FindMarkedComment(h) \/ LookUpMarked(h)
  \/ UpsertComment(h) \/ UpsertRefused(h)

-----------------------------------------------------------------------------
(* What goes wrong, and the world outside.                                 *)

Hit == faults < MaxFaults /\ faults' = faults + 1

\* A request that has no effect, retried or (denied) not.
ReviewLost(h, retryable) ==
  /\ UnderWay(h) /\ Hit
  /\ FailReview(h, retryable)
  /\ UNCHANGED <<forgeVars, disturbed>>

\* A write that is done, by an attempt that dies before it knows.
ReviewUnheard(h) ==
  /\ At(h, "write") /\ Accepts(WriteOf(h)) /\ Hit
  /\ Perform(WriteOf(h))
  /\ FailReview(h, TRUE)
  /\ UNCHANGED <<flying, disturbed>>

\* An attempt that times out (CI_CHECK_TIMEOUT) with its write on the way.
ReviewLate(h) ==
  /\ At(h, "write") /\ Hit
  /\ flying' = flying \cup {WriteOf(h)}
  /\ FailReview(h, TRUE)
  /\ disturbed' = TRUE
  /\ UNCHANGED <<comments, posted>>

Land ==
  \E write \in flying :
    /\ flying' = flying \ {write}
    /\ IF Accepts(write) THEN Perform(write) ELSE UNCHANGED <<comments, posted>>
    /\ UNCHANGED <<reviewer, pr, loop, reviews, budgetVars, disturbed>>

\* The author pushes: a new head, and any tree.
Push ==
  /\ pr.head < MaxHead
  /\ \E tree \in Trees : pr' = [pr EXCEPT !.head = @ + 1, !.tree = tree]
  /\ UNCHANGED <<reviewer, forgeVars, loop, reviews, budgetVars, disturbed>>

Move == moves < MaxMoves /\ moves' = moves + 1

CloseOrReopen ==
  /\ Move
  /\ pr' = [pr EXCEPT !.open = ~@]
  /\ UNCHANGED <<reviewer, forgeVars, loop, reviews, faults, disturbed>>

DeleteComment ==
  /\ Move
  /\ \E c \in comments : comments' = comments \ {c}
  /\ disturbed' = TRUE
  /\ UNCHANGED <<reviewer, pr, posted, flying, loop, reviews, faults>>

\* The operator terminates the loop.
Terminate ==
  /\ Move
  /\ loop.status = "running"
  /\ loop' = [loop EXCEPT !.status = "failed", !.todo = 0, !.tries = 0]
  /\ UNCHANGED <<reviewer, pr, forgeVars, reviews, faults, disturbed>>

World == Push \/ CloseOrReopen \/ DeleteComment \/ Terminate \/ Land

Fault == \/ \E retryable \in BOOLEAN : FailTick(retryable)
         \/ \E h \in Heads : \/ \E retryable \in BOOLEAN : ReviewLost(h, retryable)
                             \/ ReviewUnheard(h) \/ ReviewLate(h)

Next == \/ LoopStep \/ Revive
        \/ \E h \in Heads : ReviewStep(h)
        \/ Fault \/ World

\* The worker serves its queue and the watchdog looks again and again.
Spec == /\ Init /\ [][Next]_vars
        /\ WF_vars(LoopStep) /\ WF_vars(Revive)
        /\ \A h \in Heads : WF_vars(ReviewStep(h))

-----------------------------------------------------------------------------
(* Properties.                                                             *)

\* Types.
TypeOK ==
  /\ reviewer \in Reviewers
  /\ pr \in [open : BOOLEAN, head : Heads, tree : Trees]
  /\ comments \subseteq Comments /\ posted \in Nat /\ flying \subseteq Comments
  /\ loop \in LoopStates
  /\ reviews \in [Heads -> ReviewStates]
  /\ faults \in 0..MaxFaults /\ moves \in 0..MaxMoves
  /\ disturbed \in BOOLEAN

\* A comment never names a commit newer than the tree it is about: however a
\* review is delayed, what it says of head h it read at h or later.
NeverAheadOfItsTree ==
  \A c \in comments \cup flying : c.seen >= c.head

\* should_post: as long as no review has found anything the pull request is
\* left in silence, whatever is retried, lands late or is deleted.
QuietUntilFound ==
  comments \cup flying # {} => \E h \in Heads : reviews[h].found # {}

\* When reviews do not overlap and nobody cuts in, the comment is one, and is
\* the latest review's verdict: findings that were fixed decay, although
\* attempts die between the write and its answer.
LatestReview(h) ==
  /\ reviews[h].at = "done"
  /\ \A k \in Heads : k > h => reviews[k].at = "none"
LatestVerdictStands ==
  Idle /\ ~disturbed =>
    /\ Cardinality(comments) <= 1
    /\ \A h \in Heads : LatestReview(h) =>
         \/ comments = {} /\ reviews[h].found = {}
         \/ \E c \in comments : c.head = h /\ c.body = Render(reviews[h])

\* An all-clear is backed by an analysis that came to its end: of its head a
\* review completed and found nothing.
ClearIsEarned ==
  \A c \in comments \cup flying : c.body = "clear" =>
    reviews[c.head].completed /\ reviews[c.head].found = {}

\* The inductive invariant behind these: nothing happens to a head before it is
\* pushed or is read before it is reviewed; a review that has not read has found
\* nothing; a comment says what the review of its head has settled on; and
\* nobody is about to write before something was found.
Settled == {"exists", "lookup", "write", "done", "failed"}
HeadsInOrder ==
  /\ LoopRuns("dispatch") => loop.todo \in 1..pr.head
  /\ \A h \in Heads : reviews[h].at # "none" => h <= pr.head
ReadInOrder ==
  \A h \in Heads :
    /\ reviews[h].at \in {"agent", "adjudicate", "exists", "lookup", "write", "done"}
       => reviews[h].seen \in h..pr.head
    /\ reviews[h].at \in {"none", "files", "checkout", "agent"}
       => reviews[h].found = {} /\ reviews[h].completed
Vouched ==
  \A c \in comments \cup flying :
    /\ reviews[c.head].at \in Settled
    /\ c.body = Render(reviews[c.head])
    /\ c.seen = reviews[c.head].seen /\ c.seen >= c.head
QuietSoFar ==
  \/ \E h \in Heads : reviews[h].found # {}
  \/ /\ comments \cup flying = {}
     /\ \A h \in Heads : reviews[h].at \notin {"lookup", "write"}
ReviewInductive == TypeOK /\ HeadsInOrder /\ ReadInOrder /\ Vouched /\ QuietSoFar

\* What LatestVerdictStands needs beside it.  The head about to be dispatched is
\* the newest that ever was.  While nothing is disturbed the review under way is
\* that of the newest head dispatched, there is at most one comment and no write
\* on its way, the comment a review is about to edit is still there, and the
\* comment is the latest review's verdict, once that is done.
NewestIsNext ==
  LoopRuns("dispatch") => \A h \in Heads : h > loop.todo => reviews[h].at = "none"
OneAtATime ==
  \A h, k \in Heads : UnderWay(h) /\ reviews[k].at # "none" => k <= h
OneComment ==
  /\ flying = {}
  /\ \A c, d \in comments : c = d /\ c.id # 0
TargetStands ==
  \A h \in Heads : At(h, "write") => reviews[h].target \in MarkedCommentId
VerdictStands ==
  \A h \in Heads : LatestReview(h) =>
    \/ comments = {} /\ reviews[h].found = {}
    \/ \E c \in comments : c.head = h /\ c.body = Render(reviews[h])
Undisturbed == OneAtATime /\ OneComment /\ TargetStands /\ VerdictStands
VerdictInductive ==
  ReviewInductive /\ NewestIsNext /\ (~disturbed => Undisturbed)

\* dispatch_pr_*review: however often ticks list the same commit, and whatever
\* loop is revived, a review that is over is never run again.
LeavesReviewed == \A h \in Heads : reviews[h].at \in Over => reviews'[h] = reviews[h]
NeverReviewedAgain == [][LeavesReviewed]_vars

\* A durable loop rides out its failed ticks: only the operator ends it.
StaysUp == loop.status = "running" /\ loop.continuous => loop'.status = "running" \/ Terminate
LoopRidesOut == [][StaysUp]_vars

\* A head that stays is reviewed, or its review has used up its attempts,
\* although ticks fail and loops are terminated.
HeadIsReviewed ==
  \A h \in Heads :
    (pr.open /\ pr.head = h) ~> \/ reviews[h].at \in Over \/ pr.head # h \/ ~pr.open
                                \/ loop.status = "returned"
=============================================================================
