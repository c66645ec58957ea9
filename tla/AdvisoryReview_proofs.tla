------------------------- MODULE AdvisoryReview_proofs -------------------------
(***************************************************************************)
(* What a marked comment is worth, for any number of commits, sites,       *)
(* attempts, faults and moves: a step of a review changes one review and   *)
(* the forge, and one lemma says when such a change keeps the invariant    *)
(* (StepKeeps; TurnsOutKeeps for reviews that do not overlap).             *)
(***************************************************************************)
EXTENDS AdvisoryReview, FiniteSetTheorems, TLAPS

ReadPlaces  == {"agent", "adjudicate", "exists", "lookup", "write", "done"}
EarlyPlaces == {"none", "files", "checkout", "agent"}

\* What the new state r of a review under way at head h must respect.
Keeps(h, r) ==
  /\ r \in ReviewStates
  /\ reviews[h].at # "none"
  /\ r.at \in ReadPlaces => r.seen \in h..pr.head
  /\ r.at \in EarlyPlaces => r.found = {} /\ r.completed
  /\ reviews[h].found # {} => r.found # {}
  /\ reviews[h].at \in Settled =>
       r.at \in Settled /\ r.found = reviews[h].found
         /\ r.completed = reviews[h].completed /\ r.seen = reviews[h].seen
  /\ r.at \in {"lookup", "write"} => r.found # {} \/ \E k \in Heads : reviews[k].found # {}

\* What the forge may have gained: a comment of a review that was writing.
Wrote(h) ==
  /\ posted' \in Nat
  /\ \A c \in comments' \cup flying' :
       \/ c \in comments \cup flying
       \/ /\ c \in Comments /\ c.head = h /\ reviews[h].at = "write"
          /\ c.body = Render(reviews[h]) /\ c.seen = reviews[h].seen

Rest == /\ UNCHANGED <<reviewer, pr, loop>>
        /\ faults' \in 0..MaxFaults /\ moves' \in 0..MaxMoves /\ disturbed' \in BOOLEAN

LEMMA Bounds == MaxHead \in Nat \ {0} /\ MaxAttempts \in Nat \ {0}
                  /\ MaxFaults \in Nat /\ MaxMoves \in Nat
  BY ReviewAssumption

LEMMA Body == ASSUME NEW r \in ReviewStates PROVE Render(r) \in Bodies
  BY DEF Render, Bodies, ReviewStates

\* Two states of a review that agree on these are rendered alike.
LEMMA SameBody ==
  ASSUME NEW r, NEW q, r.found = q.found, r.completed = q.completed
  PROVE  Render(r) = Render(q)
  BY DEF Render

LEMMA StepKeeps ==
  ASSUME ReviewInductive, NEW h \in Heads, NEW r, Keeps(h, r), Wrote(h), Rest,
         reviews' = [reviews EXCEPT ![h] = r]
  PROVE  ReviewInductive'
<1>1. /\ reviews \in [Heads -> ReviewStates] /\ r \in ReviewStates
      /\ reviews' \in [Heads -> ReviewStates]
      /\ \A k \in Heads : reviews'[k] = IF k = h THEN r ELSE reviews[k]
  BY DEF ReviewInductive, TypeOK, Keeps
<1>2. comments' \cup flying' \subseteq Comments
  BY DEF ReviewInductive, TypeOK, Wrote
<1>3. TypeOK'
  BY <1>1, <1>2 DEF ReviewInductive, TypeOK, Wrote, Rest
<1>4. HeadsInOrder'
  BY <1>1 DEF ReviewInductive, HeadsInOrder, Rest, Keeps, LoopRuns
<1>5. ReadInOrder'
  BY <1>1 DEF ReviewInductive, ReadInOrder, Rest, Keeps, ReadPlaces, EarlyPlaces
<1>6. ASSUME NEW c \in comments' \cup flying'
      PROVE  /\ reviews'[c.head].at \in Settled
             /\ c.body = Render(reviews'[c.head])
             /\ c.seen = reviews'[c.head].seen /\ c.seen >= c.head
  <2>1. c \in Comments /\ c.head \in Heads /\ c.seen \in Heads
    BY <1>2 DEF Comments
  <2>2. /\ reviews[c.head].at \in Settled /\ c.body = Render(reviews[c.head])
        /\ c.seen = reviews[c.head].seen /\ c.seen >= c.head
    <3>1. CASE c \in comments \cup flying
      BY <3>1 DEF ReviewInductive, Vouched
    <3>2. CASE c.head = h /\ reviews[h].at = "write" /\ c.body = Render(reviews[h])
                 /\ c.seen = reviews[h].seen
      <4>1. reviews[h].seen \in h..pr.head /\ pr.head \in Heads
        BY <3>2 DEF ReviewInductive, ReadInOrder, TypeOK
      <4> QED BY <3>2, <4>1, <2>1 DEF Settled, Heads
    <3> QED BY <3>1, <3>2 DEF Wrote
  <2>3. CASE c.head # h
    BY <2>1, <2>2, <2>3, <1>1
  <2>4. CASE c.head = h
    <3>1. /\ r.at \in Settled /\ r.found = reviews[h].found
          /\ r.completed = reviews[h].completed /\ r.seen = reviews[h].seen
      BY <2>2, <2>4 DEF Keeps
    <3>2. Render(r) = Render(reviews[h])
      BY <3>1, SameBody
    <3> QED BY <3>1, <3>2, <2>2, <2>4, <1>1
  <2> QED BY <2>3, <2>4
<1>7. Vouched'
  <2>1. \A c \in comments' \cup flying' :
          reviews'[c.head].at \in Settled /\ c.body = Render(reviews'[c.head])
            /\ c.seen = reviews'[c.head].seen /\ c.seen >= c.head
    BY <1>6
  <2>2. \A c \in comments' \cup flying' : Render(reviews[c.head])' = Render(reviews'[c.head])
    BY DEF Render
  <2> QED BY <2>1, <2>2 DEF Vouched, Settled
<1>8. QuietSoFar'
  <2>1. CASE \E k \in Heads : reviews[k].found # {}
    BY <2>1, <1>1 DEF Keeps, QuietSoFar
  <2>2. CASE /\ comments \cup flying = {}
             /\ \A k \in Heads : reviews[k].at \notin {"lookup", "write"}
             /\ ~ \E k \in Heads : reviews[k].found # {}
    <3>1. comments' \cup flying' = {}
      BY <2>2 DEF Wrote
    <3>2. r.at \in {"lookup", "write"} => r.found # {}
      BY <2>2 DEF Keeps
    <3> QED BY <3>1, <3>2, <2>2, <1>1 DEF QuietSoFar
  <2> QED BY <2>1, <2>2 DEF ReviewInductive, QuietSoFar
<1> QED BY <1>3, <1>4, <1>5, <1>7, <1>8 DEF ReviewInductive

-----------------------------------------------------------------------------
(* The steps of a review.                                                  *)

LEMMA ForgeKept ==
  ASSUME ReviewInductive, NEW h \in Heads, UNCHANGED forgeVars
  PROVE  Wrote(h)
  BY DEF ReviewInductive, TypeOK, Wrote, forgeVars

LEMMA BudgetKept ==
  ASSUME ReviewInductive, UNCHANGED <<reviewer, pr, loop, budgetVars, disturbed>>
  PROVE  Rest
  BY DEF ReviewInductive, TypeOK, Rest, budgetVars

LEMMA Types ==
  ASSUME ReviewInductive, NEW h \in Heads
  PROVE  /\ reviews[h] \in ReviewStates /\ pr.head \in Heads
         /\ h \in 1..MaxHead /\ 0 \in 0..(MaxAttempts - 1)
         /\ reviewer \in Reviewers /\ comments \subseteq Comments
  BY Bounds DEF ReviewInductive, TypeOK, Heads

LEMMA Courses ==
  ASSUME reviewer \in Reviewers
  PROVE  /\ Course.first \in {"files", "checkout"}
         /\ Course.asks = "agent" => Course.first = "checkout"
  BY DEF Reviewers, Course, PrReview, PrA11yReview, PrDocRefsReview, PrDocCoherenceReview

\* A review under way is of a head that was pushed, and its first steps have
\* found nothing.
LEMMA UnderWayFacts ==
  ASSUME ReviewInductive, NEW h \in Heads
  PROVE  /\ reviews[h].at # "none" => h <= pr.head
         /\ reviews[h].at \in ReadPlaces => reviews[h].seen \in h..pr.head
         /\ reviews[h].at \in EarlyPlaces => reviews[h].found = {} /\ reviews[h].completed
  BY DEF ReviewInductive, HeadsInOrder, ReadInOrder, ReadPlaces, EarlyPlaces

LEMMA ListFilesKeeps ==
  ASSUME ReviewInductive, NEW h \in Heads, ListFiles(h)
  PROVE  ReviewInductive'
<1> DEFINE r == [reviews[h] EXCEPT !.at = "checkout", !.touched = Touched(pr.tree)]
<1>1. Keeps(h, r)
  <2>1. r \in ReviewStates
    BY Types DEF ReviewStates, Places, Touched
  <2> QED BY <2>1, Types, UnderWayFacts
          DEF ListFiles, At, Keeps, ReviewStates, ReadPlaces, EarlyPlaces, Settled
<1>2. Wrote(h) /\ Rest /\ reviews' = [reviews EXCEPT ![h] = r]
  BY ForgeKept, BudgetKept DEF ListFiles, Become
<1> QED BY <1>1, <1>2, StepKeeps

LEMMA AnalyzeKeeps ==
  ASSUME ReviewInductive, NEW h \in Heads, Analyze(h)
  PROVE  ReviewInductive'
<1> DEFINE suspects == Suspects(pr.tree, reviews[h].touched)
           at == IF suspects = {} THEN "exists" ELSE "adjudicate"
           r == [reviews[h] EXCEPT !.at = at, !.seen = Fetched(h), !.suspects = suspects,
                                   !.found = Hazards(pr.tree), !.tries = 0]
<1>1. /\ suspects \subseteq Sites /\ Hazards(pr.tree) \subseteq Sites
      /\ Fetched(h) = pr.head /\ pr.head \in 0..MaxHead
  BY Types DEF Heads, Suspects, AnalyzePr, ScanPrA11y, ScanPrDocRefs, Hazards, Fetched,
               ReviewStates, Reviewers
<1>2. at \in {"exists", "adjudicate"}
  OBVIOUS
<1>3. r \in ReviewStates /\ r.at = at /\ r.seen = pr.head
  <2> HIDE DEF suspects, at
  <2> QED BY <1>1, <1>2, Types DEF ReviewStates, Places
<1>4. reviews[h].at = "checkout" /\ h <= pr.head /\ reviews[h].found = {}
  BY UnderWayFacts DEF Analyze, At, EarlyPlaces
<1>5. Keeps(h, r)
  <2> HIDE DEF r, at
  <2> QED BY <1>2, <1>3, <1>4, Types DEF Keeps, ReadPlaces, EarlyPlaces, Settled, Heads
<1>6. Wrote(h) /\ Rest /\ reviews' = [reviews EXCEPT ![h] = r]
  BY ForgeKept, BudgetKept DEF Analyze, Become
<1> QED BY <1>5, <1>6, StepKeeps

LEMMA AdjudicateKeeps ==
  ASSUME ReviewInductive, NEW h \in Heads, Adjudicate(h)
  PROVE  ReviewInductive'
<1>1. PICK verdicts \in [reviews[h].suspects -> Verdicts] :
        Become(h, [reviews[h] EXCEPT !.at = "exists", !.tries = 0,
          !.found = @ \cup {s \in reviews[h].suspects : Synthesize(verdicts[s])}])
  BY DEF Adjudicate
<1> DEFINE more == {s \in reviews[h].suspects : Synthesize(verdicts[s])}
           r == [reviews[h] EXCEPT !.at = "exists", !.tries = 0, !.found = @ \cup more]
<1>2. more \subseteq Sites
  BY Types DEF ReviewStates
<1>3. r \in ReviewStates /\ r.at = "exists" /\ r.found = reviews[h].found \cup more
        /\ r.seen = reviews[h].seen
  <2> HIDE DEF more
  <2> QED BY <1>2, Types DEF ReviewStates, Places
<1>4. Keeps(h, r)
  <2> HIDE DEF r, more
  <2> QED BY <1>3, UnderWayFacts DEF Adjudicate, At, Keeps, ReadPlaces, EarlyPlaces, Settled
<1>5. Wrote(h) /\ Rest /\ reviews' = [reviews EXCEPT ![h] = r]
  BY <1>1, ForgeKept, BudgetKept DEF Adjudicate, Become
<1> QED BY <1>4, <1>5, StepKeeps

LEMMA CheckoutForAgentKeeps ==
  ASSUME ReviewInductive, NEW h \in Heads, CheckoutForAgent(h)
  PROVE  ReviewInductive'
<1> DEFINE r == [reviews[h] EXCEPT !.at = "agent", !.seen = Fetched(h)]
<1>0. Fetched(h) = pr.head /\ pr.head \in 0..MaxHead
  BY Types DEF Fetched, Heads
<1>1. r \in ReviewStates /\ r.at = "agent" /\ r.seen = pr.head /\ r.found = reviews[h].found
        /\ r.completed = reviews[h].completed
  BY <1>0, Types DEF ReviewStates, Places
<1>2. Keeps(h, r)
  <2> HIDE DEF r
  <2> QED BY <1>0, <1>1, Types, UnderWayFacts
          DEF CheckoutForAgent, At, Keeps, ReadPlaces, EarlyPlaces, Settled
<1>3. Wrote(h) /\ Rest /\ reviews' = [reviews EXCEPT ![h] = r]
  BY ForgeKept, BudgetKept DEF CheckoutForAgent, Become
<1> QED BY <1>2, <1>3, StepKeeps

LEMMA RunAgentKeeps ==
  ASSUME ReviewInductive, NEW h \in Heads, RunAgent(h)
  PROVE  ReviewInductive'
<1>1. PICK found \in SUBSET Sites, completed \in BOOLEAN :
        Become(h, [reviews[h] EXCEPT !.at = "exists", !.tries = 0,
          !.found = found, !.completed = completed])
  BY DEF RunAgent
<1> DEFINE r == [reviews[h] EXCEPT !.at = "exists", !.tries = 0,
                                   !.found = found, !.completed = completed]
<1>2. r \in ReviewStates
  BY Types DEF ReviewStates, Places
<1>3. Keeps(h, r)
  BY <1>2, Types, UnderWayFacts
     DEF RunAgent, At, Keeps, ReviewStates, ReadPlaces, EarlyPlaces, Settled
<1>4. Wrote(h) /\ Rest /\ reviews' = [reviews EXCEPT ![h] = r]
  BY <1>1, ForgeKept, BudgetKept DEF RunAgent, Become
<1> QED BY <1>3, <1>4, StepKeeps

\* What is found is found, and what stands on the pull request was found.
LEMMA FindMarkedCommentKeeps ==
  ASSUME ReviewInductive, NEW h \in Heads, FindMarkedComment(h)
  PROVE  ReviewInductive'
<1> DEFINE at == IF ShouldPost(reviews[h].found, comments # {}) THEN "lookup" ELSE "done"
           r == [reviews[h] EXCEPT !.at = at]
<1>1. at \in {"lookup", "done"}
  OBVIOUS
<1>2. at = "lookup" => reviews[h].found # {} \/ \E k \in Heads : reviews[k].found # {}
  BY DEF ShouldPost, ReviewInductive, QuietSoFar
<1>3. /\ r \in ReviewStates /\ r.at = at /\ r.found = reviews[h].found
      /\ r.seen = reviews[h].seen /\ r.completed = reviews[h].completed
  <2> HIDE DEF at
  <2> QED BY <1>1, Types DEF ReviewStates, Places, Over
<1>4. Keeps(h, r)
  <2> HIDE DEF r, at
  <2> QED BY <1>1, <1>2, <1>3, UnderWayFacts
          DEF FindMarkedComment, At, Keeps, ReadPlaces, EarlyPlaces, Settled
<1>5. Wrote(h) /\ Rest /\ reviews' = [reviews EXCEPT ![h] = r]
  BY ForgeKept, BudgetKept DEF FindMarkedComment, Become
<1> QED BY <1>4, <1>5, StepKeeps

LEMMA LookUpMarkedKeeps ==
  ASSUME ReviewInductive, NEW h \in Heads, LookUpMarked(h)
  PROVE  ReviewInductive'
<1>1. PICK id \in MarkedCommentId :
        Become(h, [reviews[h] EXCEPT !.at = "write", !.target = id])
  BY DEF LookUpMarked
<1> DEFINE r == [reviews[h] EXCEPT !.at = "write", !.target = id]
<1>2. id \in Nat
  BY Types DEF MarkedCommentId, Comments
<1>3. /\ r \in ReviewStates /\ r.at = "write" /\ r.found = reviews[h].found
      /\ r.seen = reviews[h].seen /\ r.completed = reviews[h].completed
  BY <1>2, Types DEF ReviewStates, Places
<1>4. \E k \in Heads : reviews[k].found # {}
  BY DEF ReviewInductive, QuietSoFar, LookUpMarked, At
<1>5. Keeps(h, r)
  <2> HIDE DEF r
  <2> QED BY <1>3, <1>4, UnderWayFacts DEF LookUpMarked, At, Keeps, ReadPlaces, EarlyPlaces, Settled
<1>6. Wrote(h) /\ Rest /\ reviews' = [reviews EXCEPT ![h] = r]
  BY <1>1, ForgeKept, BudgetKept DEF LookUpMarked, Become
<1> QED BY <1>5, <1>6, StepKeeps

\* What a review writes says what the review has settled on.
LEMMA WriteOfFacts ==
  ASSUME ReviewInductive, NEW h \in Heads, reviews[h].at = "write"
  PROVE  LET w == WriteOf(h)
         IN  /\ w \in Comments /\ w.head = h /\ w.id = reviews[h].target
             /\ w.body = Render(reviews[h]) /\ w.seen = reviews[h].seen
<1>1. reviews[h].seen \in Heads
  <2>1. reviews[h].seen \in h..pr.head
    BY UnderWayFacts DEF ReadPlaces
  <2>2. h \in Nat /\ h >= 1 /\ pr.head \in Nat /\ pr.head <= MaxHead /\ MaxHead \in Nat
    BY Types, Bounds DEF Heads
  <2> QED BY <2>1, <2>2 DEF Heads
<1>2. Render(reviews[h]) \in Bodies
  BY Types, Body
<1>3. reviews[h].target \in Nat
  BY Types DEF ReviewStates
<1> QED BY <1>1, <1>2, <1>3 DEF WriteOf, Written, Comments

LEMMA PerformWrites ==
  ASSUME ReviewInductive, NEW h \in Heads, reviews[h].at = "write",
         Perform(WriteOf(h)), UNCHANGED flying
  PROVE  Wrote(h)
<1> DEFINE w == WriteOf(h)
<1>1. /\ w \in Comments /\ w.head = h /\ w.id = reviews[h].target
      /\ w.body = Render(reviews[h]) /\ w.seen = reviews[h].seen
  BY WriteOfFacts
<1>2. posted \in Nat
  BY DEF ReviewInductive, TypeOK
<1>3. CASE w.id = 0
  <2> DEFINE d == [w EXCEPT !.id = posted + 1]
  <2>1. /\ d \in Comments /\ d.head = h /\ d.body = Render(reviews[h])
        /\ d.seen = reviews[h].seen
    <3> HIDE DEF w
    <3> QED BY <1>1, <1>2 DEF Comments
  <2>2. comments' = comments \cup {d} /\ posted' = posted + 1
    BY <1>3 DEF Perform
  <2> HIDE DEF d, w
  <2> QED BY <2>1, <2>2, <1>2 DEF Wrote
<1>4. CASE w.id # 0
  <2>1. /\ comments' = {IF c.id = w.id THEN w ELSE c : c \in comments}
        /\ posted' = posted
    BY <1>4 DEF Perform
  <2>2. comments' \subseteq comments \cup {w}
    <3> HIDE DEF w
    <3> QED BY <2>1
  <2> HIDE DEF w
  <2> QED BY <2>1, <2>2, <1>1, <1>2 DEF Wrote
<1> QED BY <1>3, <1>4

LEMMA UpsertCommentKeeps ==
  ASSUME ReviewInductive, NEW h \in Heads, UpsertComment(h)
  PROVE  ReviewInductive'
<1> DEFINE r == [reviews[h] EXCEPT !.at = "done"]
<1>1. /\ r \in ReviewStates /\ r.at = "done" /\ r.found = reviews[h].found
      /\ r.seen = reviews[h].seen /\ r.completed = reviews[h].completed
  BY Types DEF ReviewStates, Over
<1>2. Keeps(h, r)
  <2> HIDE DEF r
  <2> QED BY <1>1, UnderWayFacts DEF UpsertComment, At, Keeps, ReadPlaces, EarlyPlaces, Settled
<1>3. Wrote(h)
  BY PerformWrites DEF UpsertComment, At
<1>4. Rest /\ reviews' = [reviews EXCEPT ![h] = r]
  BY BudgetKept DEF UpsertComment, Become
<1> QED BY <1>2, <1>3, <1>4, StepKeeps

\* An attempt that fails goes back, or is the last: nothing it had settled on
\* changes.
LEMMA FailureKeeps ==
  ASSUME ReviewInductive, NEW h \in Heads, UnderWay(h), NEW retryable \in BOOLEAN
  PROVE  Keeps(h, AfterFailure(h, retryable))
<1> DEFINE r == AfterFailure(h, retryable)
           at == IF retryable /\ reviews[h].tries + 1 < MaxAttempts
                 THEN FirstOf(reviews[h].at) ELSE "failed"
<1>1. /\ reviews[h].at \in {"files", "checkout", "agent"} =>
           FirstOf(reviews[h].at) \in {"files", "checkout"}
      /\ reviews[h].at = "adjudicate" => FirstOf(reviews[h].at) = "adjudicate"
      /\ reviews[h].at \in {"exists", "lookup", "write"} => FirstOf(reviews[h].at) = "exists"
  BY Courses, Types DEF FirstOf
<1>2. r \in ReviewStates
  <2>1. FirstOf(reviews[h].at) \in Places
    BY <1>1 DEF UnderWay, Places
  <2>2. CASE retryable /\ reviews[h].tries + 1 < MaxAttempts
    <3>1. reviews[h].tries \in Nat /\ reviews[h].tries + 1 \in 0..(MaxAttempts - 1)
      BY <2>2, Types, Bounds DEF ReviewStates
    <3>2. r = [reviews[h] EXCEPT !.at = FirstOf(reviews[h].at), !.tries = @ + 1]
      BY <2>2 DEF AfterFailure
    <3> HIDE DEF r
    <3> QED BY <2>1, <3>1, <3>2, Types DEF ReviewStates
  <2>3. CASE ~(retryable /\ reviews[h].tries + 1 < MaxAttempts)
    <3>1. r = [reviews[h] EXCEPT !.at = "failed"]
      BY <2>3 DEF AfterFailure
    <3> HIDE DEF r
    <3> QED BY <3>1, Types DEF ReviewStates, Over
  <2> QED BY <2>2, <2>3
<1>3. /\ r.at = at /\ r.found = reviews[h].found /\ r.seen = reviews[h].seen
      /\ r.completed = reviews[h].completed
  BY Types DEF AfterFailure, ReviewStates
<1>4. CASE reviews[h].at \in {"files", "checkout", "agent"}
  <2>1. at \in {"files", "checkout", "failed"}
    BY <1>1, <1>4
  <2>2. Keeps(h, r)
    <3> HIDE DEF r, at
    <3> QED BY <2>1, <1>2, <1>3, <1>4, UnderWayFacts DEF Keeps, ReadPlaces, EarlyPlaces, Settled
  <2> QED BY <2>2
<1>5. CASE reviews[h].at = "adjudicate"
  <2>1. at \in {"adjudicate", "failed"}
    BY <1>1, <1>5
  <2>2. Keeps(h, r)
    <3> HIDE DEF r, at
    <3> QED BY <2>1, <1>2, <1>3, <1>5, UnderWayFacts DEF Keeps, ReadPlaces, EarlyPlaces, Settled
  <2> QED BY <2>2
<1>6. CASE reviews[h].at \in {"exists", "lookup", "write"}
  <2>1. at \in {"exists", "failed"}
    BY <1>1, <1>6
  <2>2. Keeps(h, r)
    <3> HIDE DEF r, at
    <3> QED BY <2>1, <1>2, <1>3, <1>6, UnderWayFacts DEF Keeps, ReadPlaces, EarlyPlaces, Settled
  <2> QED BY <2>2
<1> QED BY <1>4, <1>5, <1>6 DEF UnderWay, Places

LEMMA UpsertRefusedKeeps ==
  ASSUME ReviewInductive, NEW h \in Heads, UpsertRefused(h)
  PROVE  ReviewInductive'
<1>1. Keeps(h, AfterFailure(h, TRUE))
  BY FailureKeeps DEF UpsertRefused, At, UnderWay, Places
<1>2. Wrote(h) /\ Rest /\ reviews' = [reviews EXCEPT ![h] = AfterFailure(h, TRUE)]
  BY ForgeKept DEF UpsertRefused, FailReview, Rest, ReviewInductive, TypeOK
<1> QED BY <1>1, <1>2, StepKeeps

LEMMA HitCounts == ASSUME ReviewInductive, Hit PROVE faults' \in 0..MaxFaults
  BY Bounds DEF ReviewInductive, TypeOK, Hit

LEMMA ReviewLostKeeps ==
  ASSUME ReviewInductive, NEW h \in Heads, NEW retryable \in BOOLEAN, ReviewLost(h, retryable)
  PROVE  ReviewInductive'
<1>1. Keeps(h, AfterFailure(h, retryable))
  BY FailureKeeps DEF ReviewLost
<1>2. Wrote(h) /\ Rest /\ reviews' = [reviews EXCEPT ![h] = AfterFailure(h, retryable)]
  BY ForgeKept, HitCounts DEF ReviewLost, FailReview, Rest, ReviewInductive, TypeOK
<1> QED BY <1>1, <1>2, StepKeeps

LEMMA ReviewUnheardKeeps ==
  ASSUME ReviewInductive, NEW h \in Heads, ReviewUnheard(h)
  PROVE  ReviewInductive'
<1>1. Keeps(h, AfterFailure(h, TRUE))
  BY FailureKeeps DEF ReviewUnheard, At, UnderWay, Places
<1>2. Wrote(h)
  BY PerformWrites DEF ReviewUnheard, At
<1>3. Rest /\ reviews' = [reviews EXCEPT ![h] = AfterFailure(h, TRUE)]
  BY HitCounts DEF ReviewUnheard, FailReview, Rest, ReviewInductive, TypeOK
<1> QED BY <1>1, <1>2, <1>3, StepKeeps

LEMMA ReviewLateKeeps ==
  ASSUME ReviewInductive, NEW h \in Heads, ReviewLate(h)
  PROVE  ReviewInductive'
<1>1. Keeps(h, AfterFailure(h, TRUE))
  BY FailureKeeps DEF ReviewLate, At, UnderWay, Places
<1>2. Wrote(h)
  BY WriteOfFacts DEF ReviewLate, At, Wrote, ReviewInductive, TypeOK
<1>3. Rest /\ reviews' = [reviews EXCEPT ![h] = AfterFailure(h, TRUE)]
  BY HitCounts DEF ReviewLate, FailReview, Rest, ReviewInductive, TypeOK
<1> QED BY <1>1, <1>2, <1>3, StepKeeps

-----------------------------------------------------------------------------
(* The steps of the loop and of the world.                                 *)

\* Steps that touch no review and bring no new comment.
LEMMA LoopKeeps ==
  ASSUME ReviewInductive, UNCHANGED <<reviewer, comments, posted, reviews>>,
         flying' \subseteq flying, pr' \in [open : BOOLEAN, head : Heads, tree : Trees],
         pr'.head >= pr.head, loop' \in LoopStates,
         LoopRuns("dispatch")' => loop'.todo \in 1..pr'.head,
         faults' \in 0..MaxFaults, moves' \in 0..MaxMoves, disturbed' \in BOOLEAN
  PROVE  ReviewInductive'
<1>1. TypeOK'
  BY DEF ReviewInductive, TypeOK
<1>2. /\ pr.head \in Nat /\ pr'.head \in Nat
      /\ \A h \in Heads : h \in Nat
  <2>1. pr.head \in Heads /\ pr'.head \in Heads
    BY DEF ReviewInductive, TypeOK
  <2> QED BY <2>1, Bounds DEF Heads
<1>3. HeadsInOrder'
  BY <1>2 DEF ReviewInductive, HeadsInOrder
<1>4. ReadInOrder'
  <2>1. \A h \in Heads : \A n \in h..pr.head : n \in h..pr'.head
    BY <1>2
  <2> QED BY <2>1 DEF ReviewInductive, ReadInOrder
<1>5. Vouched'
  BY DEF ReviewInductive, Vouched, Settled, Render
<1>6. QuietSoFar'
  BY DEF ReviewInductive, QuietSoFar
<1> QED BY <1>1, <1>3, <1>4, <1>5, <1>6 DEF ReviewInductive

LEMMA EndTickType ==
  ASSUME NEW l \in LoopStates, NEW ending \in {"returned", "failed"}
  PROVE  /\ EndTick(l, ending) \in LoopStates
         /\ EndTick(l, ending).status = "running" => EndTick(l, ending).at # "dispatch"
<1>1. 0 \in 0..MaxHead /\ 0 \in 0..(MaxAttempts - 1)
  BY Bounds
<1>2. CASE l.continuous
  <2>1. EndTick(l, ending) = [l EXCEPT !.at = "asleep", !.todo = 0, !.tries = 0]
    BY <1>2 DEF EndTick
  <2> QED BY <1>1, <2>1 DEF LoopStates
<1>3. CASE ~l.continuous
  <2>1. EndTick(l, ending) = [l EXCEPT !.status = ending, !.todo = 0, !.tries = 0]
    BY <1>3 DEF EndTick
  <2> QED BY <1>1, <2>1 DEF LoopStates
<1> QED BY <1>2, <1>3

LEMMA StartedType ==
  ASSUME NEW continuous \in BOOLEAN
  PROVE  Started(continuous) \in LoopStates /\ Started(continuous).at = "list"
  BY Bounds DEF Started, LoopStates

LEMMA LoopFacts ==
  ASSUME ReviewInductive
  PROVE  /\ loop \in LoopStates /\ pr \in [open : BOOLEAN, head : Heads, tree : Trees]
         /\ pr.head \in 1..MaxHead /\ pr.head >= pr.head
         /\ faults \in 0..MaxFaults /\ moves \in 0..MaxMoves /\ disturbed \in BOOLEAN
         /\ LoopRuns("dispatch") => loop.todo \in 1..pr.head
  BY Bounds DEF ReviewInductive, TypeOK, Heads, HeadsInOrder

LEMMA ListReviewPrsKeeps ==
  ASSUME ReviewInductive, ListReviewPrs
  PROVE  ReviewInductive'
<1>1. CASE pr.open
  <2>1. loop' = [loop EXCEPT !.at = "dispatch", !.todo = pr.head, !.tries = 0]
    BY <1>1 DEF ListReviewPrs
  <2>2. loop' \in LoopStates /\ loop'.todo = pr.head
    <3>1. pr.head \in 0..MaxHead /\ 0 \in 0..(MaxAttempts - 1) /\ loop \in LoopStates
      BY LoopFacts, Bounds
    <3> QED BY <2>1, <3>1 DEF LoopStates
  <2> QED BY <2>2, LoopFacts, LoopKeeps DEF ListReviewPrs, forgeVars, budgetVars
<1>2. CASE ~pr.open
  <2>1. loop' = EndTick(loop, "returned")
    BY <1>2 DEF ListReviewPrs
  <2>2. loop' \in LoopStates /\ ~LoopRuns("dispatch")'
    BY <2>1, LoopFacts, EndTickType DEF LoopRuns
  <2> QED BY <2>2, LoopFacts, LoopKeeps DEF ListReviewPrs, forgeVars, budgetVars
<1> QED BY <1>1, <1>2

LEMMA DispatchPrReviewKeeps ==
  ASSUME ReviewInductive, DispatchPrReview
  PROVE  ReviewInductive'
<1>1. /\ loop' = EndTick(loop, "returned")
      /\ UNCHANGED <<reviewer, pr, comments, posted, flying, faults, moves>>
  BY DEF DispatchPrReview, forgeVars, budgetVars
<1>2. loop' \in LoopStates /\ ~LoopRuns("dispatch")'
  BY <1>1, LoopFacts, EndTickType DEF LoopRuns
<1>3. CASE ~StartReview(loop.todo)
  BY <1>1, <1>2, <1>3, LoopFacts, LoopKeeps DEF DispatchPrReview
<1>4. CASE StartReview(loop.todo)
  <2> DEFINE h == loop.todo
             r == [NoReview EXCEPT !.at = Course.first]
  <2>1. h \in Heads /\ h <= pr.head /\ reviews[h].at = "none"
    <3>1. h \in 1..pr.head
      BY LoopFacts DEF DispatchPrReview
    <3> QED BY <3>1, <1>4, LoopFacts, Bounds DEF Heads, StartReview
  <2>2. /\ r \in ReviewStates /\ r.at \in {"files", "checkout"}
        /\ r.found = {} /\ r.completed
    <3>1. Course.first \in {"files", "checkout"}
      BY Courses DEF ReviewInductive, TypeOK
    <3>2. 0 \in 0..MaxHead /\ 0 \in 0..(MaxAttempts - 1)
      BY Bounds
    <3> QED BY <3>1, <3>2 DEF NoReview, ReviewStates, Places
  <2>3. reviews' = [reviews EXCEPT ![h] = r] /\ disturbed' \in BOOLEAN
    BY <1>4, LoopFacts DEF DispatchPrReview
  <2> HIDE DEF h, r
  <2>4. /\ reviews' \in [Heads -> ReviewStates]
        /\ \A k \in Heads : reviews'[k] = IF k = h THEN r ELSE reviews[k]
    BY <2>1, <2>2, <2>3 DEF ReviewInductive, TypeOK
  <2>5. reviews[h].found = {}
    BY <2>1 DEF ReviewInductive, ReadInOrder
  <2>6. TypeOK'
    BY <1>1, <1>2, <2>3, <2>4 DEF ReviewInductive, TypeOK
  <2>7. HeadsInOrder'
    BY <1>1, <1>2, <2>1, <2>4 DEF ReviewInductive, HeadsInOrder
  <2>8. ReadInOrder'
    BY <1>1, <2>2, <2>4 DEF ReviewInductive, ReadInOrder
  <2>9. Vouched'
    <3>1. \A c \in comments \cup flying : c.head \in Heads /\ c.head # h
      BY <2>1 DEF ReviewInductive, Vouched, Settled, TypeOK, Comments
    <3> QED BY <1>1, <2>4, <3>1 DEF ReviewInductive, Vouched, Settled, Render
  <2>10. QuietSoFar'
    BY <1>1, <2>2, <2>4, <2>5 DEF ReviewInductive, QuietSoFar
  <2> QED BY <2>6, <2>7, <2>8, <2>9, <2>10 DEF ReviewInductive
<1> QED BY <1>3, <1>4

LEMMA ContinueAsNewKeeps ==
  ASSUME ReviewInductive, ContinueAsNew
  PROVE  ReviewInductive'
<1>1. loop' \in LoopStates /\ ~LoopRuns("dispatch")'
  BY StartedType DEF ContinueAsNew, LoopRuns
<1> QED BY <1>1, LoopFacts, LoopKeeps DEF ContinueAsNew, forgeVars, budgetVars

LEMMA ReviveKeeps ==
  ASSUME ReviewInductive, Revive
  PROVE  ReviewInductive'
<1>1. loop' \in LoopStates /\ ~LoopRuns("dispatch")'
  BY StartedType DEF Revive, LoopRuns
<1> QED BY <1>1, LoopFacts, LoopKeeps DEF Revive, forgeVars, budgetVars

LEMMA FailTickKeeps ==
  ASSUME ReviewInductive, NEW retryable \in BOOLEAN, FailTick(retryable)
  PROVE  ReviewInductive'
<1>1. faults' \in 0..MaxFaults
  BY LoopFacts, Bounds DEF FailTick
<1>2. CASE retryable /\ loop.tries + 1 < MaxAttempts
  <2>1. loop' = [loop EXCEPT !.tries = @ + 1]
    BY <1>2 DEF FailTick
  <2>2. /\ loop' \in LoopStates /\ loop'.todo = loop.todo /\ loop'.at = loop.at
        /\ loop'.status = loop.status
    BY <1>2, <2>1, LoopFacts, Bounds DEF LoopStates
  <2>3. LoopRuns("dispatch")' => loop'.todo \in 1..pr.head
    BY <2>2, LoopFacts DEF LoopRuns
  <2> QED BY <1>1, <2>2, <2>3, LoopFacts, LoopKeeps DEF FailTick, forgeVars
<1>3. CASE ~(retryable /\ loop.tries + 1 < MaxAttempts)
  <2>1. loop' = EndTick(loop, "failed")
    BY <1>3 DEF FailTick
  <2>2. loop' \in LoopStates /\ ~LoopRuns("dispatch")'
    BY <2>1, LoopFacts, EndTickType DEF LoopRuns
  <2> QED BY <1>1, <2>2, LoopFacts, LoopKeeps DEF FailTick, forgeVars
<1> QED BY <1>2, <1>3

LEMMA LandKeeps ==
  ASSUME ReviewInductive, Land
  PROVE  ReviewInductive'
<1>1. PICK w \in flying :
        /\ flying' = flying \ {w}
        /\ IF Accepts(w) THEN Perform(w) ELSE UNCHANGED <<comments, posted>>
        /\ UNCHANGED <<reviewer, pr, loop, reviews, budgetVars, disturbed>>
  BY DEF Land
<1>2. posted \in Nat /\ comments \subseteq Comments /\ flying \subseteq Comments
  BY DEF ReviewInductive, TypeOK
<1>3. \E d \in Comments :
        /\ d.head = w.head /\ d.body = w.body /\ d.seen = w.seen
        /\ comments' \subseteq comments \cup {d} /\ posted' \in Nat
  <2>1. CASE ~Accepts(w)
    BY <1>1, <1>2, <2>1
  <2>2. CASE Accepts(w) /\ w.id = 0
    <3> DEFINE d == [w EXCEPT !.id = posted + 1]
    <3>1. /\ d \in Comments /\ d.head = w.head /\ d.body = w.body /\ d.seen = w.seen
      BY <1>1, <1>2 DEF Comments
    <3>2. comments' = comments \cup {d} /\ posted' = posted + 1
      BY <1>1, <2>2 DEF Perform
    <3> HIDE DEF d
    <3> QED BY <3>1, <3>2, <1>2
  <2>3. CASE Accepts(w) /\ w.id # 0
    <3>1. comments' = {IF c.id = w.id THEN w ELSE c : c \in comments} /\ posted' = posted
      BY <1>1, <2>3 DEF Perform
    <3>2. comments' \subseteq comments \cup {w}
      BY <3>1
    <3> QED BY <3>1, <3>2, <1>1, <1>2
  <2> QED BY <2>1, <2>2, <2>3
<1>4. PICK d \in Comments :
        /\ d.head = w.head /\ d.body = w.body /\ d.seen = w.seen
        /\ comments' \subseteq comments \cup {d} /\ posted' \in Nat
  BY <1>3
<1>5. TypeOK'
  BY <1>1, <1>2, <1>4 DEF ReviewInductive, TypeOK, budgetVars
<1>6. HeadsInOrder' /\ ReadInOrder'
  BY <1>1 DEF ReviewInductive, HeadsInOrder, ReadInOrder, LoopRuns
<1>7. Vouched'
  <2>1. \A c \in comments' \cup flying' : \E e \in comments \cup flying :
          c.head = e.head /\ c.body = e.body /\ c.seen = e.seen
    BY <1>1, <1>4
  <2> QED BY <2>1, <1>1 DEF ReviewInductive, Vouched, Settled, Render
<1>8. QuietSoFar'
  BY <1>1 DEF ReviewInductive, QuietSoFar
<1> QED BY <1>5, <1>6, <1>7, <1>8 DEF ReviewInductive

LEMMA PushKeeps ==
  ASSUME ReviewInductive, Push
  PROVE  ReviewInductive'
<1>1. PICK tree \in Trees : pr' = [pr EXCEPT !.head = @ + 1, !.tree = tree]
  BY DEF Push
<1>2. /\ pr' \in [open : BOOLEAN, head : Heads, tree : Trees]
      /\ pr'.head = pr.head + 1
  <2>1. pr.head + 1 \in Heads
    BY LoopFacts, Bounds DEF Push, Heads
  <2> QED BY <1>1, <2>1, LoopFacts
<1>3. LoopRuns("dispatch")' => loop'.todo \in 1..pr'.head
  BY <1>2, LoopFacts DEF Push, LoopRuns
<1>4. pr'.head >= pr.head
  BY <1>2, LoopFacts
<1> QED BY <1>2, <1>3, <1>4, LoopFacts, LoopKeeps DEF Push, forgeVars, budgetVars

LEMMA MoveCounts == ASSUME ReviewInductive, Move PROVE moves' \in 0..MaxMoves
  BY Bounds DEF ReviewInductive, TypeOK, Move

LEMMA CloseOrReopenKeeps ==
  ASSUME ReviewInductive, CloseOrReopen
  PROVE  ReviewInductive'
<1>1. /\ pr' \in [open : BOOLEAN, head : Heads, tree : Trees] /\ pr'.head = pr.head
      /\ loop' = loop
  BY LoopFacts DEF CloseOrReopen
<1>2. LoopRuns("dispatch")' => loop'.todo \in 1..pr'.head
  BY <1>1, LoopFacts DEF LoopRuns
<1> QED BY <1>1, <1>2, LoopFacts, LoopKeeps, MoveCounts DEF CloseOrReopen, forgeVars

LEMMA DeleteCommentKeeps ==
  ASSUME ReviewInductive, DeleteComment
  PROVE  ReviewInductive'
<1>1. /\ comments' \subseteq comments /\ disturbed' = TRUE /\ moves' \in 0..MaxMoves
      /\ UNCHANGED <<reviewer, pr, posted, flying, loop, reviews, faults>>
  BY MoveCounts DEF DeleteComment
<1>2. TypeOK'
  BY <1>1 DEF ReviewInductive, TypeOK
<1>3. HeadsInOrder' /\ ReadInOrder' /\ QuietSoFar'
  BY <1>1 DEF ReviewInductive, HeadsInOrder, ReadInOrder, QuietSoFar, LoopRuns
<1>4. Vouched'
  BY <1>1 DEF ReviewInductive, Vouched, Settled, Render
<1> QED BY <1>2, <1>3, <1>4 DEF ReviewInductive

LEMMA TerminateKeeps ==
  ASSUME ReviewInductive, Terminate
  PROVE  ReviewInductive'
<1>1. loop' \in LoopStates /\ ~LoopRuns("dispatch")'
  <2>1. 0 \in 0..MaxHead /\ 0 \in 0..(MaxAttempts - 1) /\ loop \in LoopStates
    BY LoopFacts, Bounds
  <2>2. loop' = [loop EXCEPT !.status = "failed", !.todo = 0, !.tries = 0]
    BY DEF Terminate
  <2> QED BY <2>1, <2>2 DEF LoopStates, LoopRuns
<1> QED BY <1>1, LoopFacts, LoopKeeps, MoveCounts DEF Terminate, forgeVars

-----------------------------------------------------------------------------
(* The invariant, and what follows from it.                                *)

LEMMA InitHolds == ASSUME Init PROVE ReviewInductive
<1>1. loop \in LoopStates /\ ~LoopRuns("dispatch")
  BY StartedType DEF Init, LoopStates, Started, LoopRuns
<1>2. NoReview \in ReviewStates
  BY Bounds DEF NoReview, ReviewStates
<1>3. TypeOK
  <2>1. pr \in [open : BOOLEAN, head : Heads, tree : Trees]
    <3>1. 1 \in Heads
      BY Bounds DEF Heads
    <3> QED BY <3>1 DEF Init
  <2>2. reviewer \in Reviewers
    BY ReviewAssumption DEF Init
  <2>3. reviews \in [Heads -> ReviewStates] /\ faults \in 0..MaxFaults /\ moves \in 0..MaxMoves
    BY <1>2, Bounds DEF Init
  <2> QED BY <1>1, <2>1, <2>2, <2>3 DEF Init, TypeOK
<1> QED BY <1>1, <1>3 DEF Init, ReviewInductive, HeadsInOrder, ReadInOrder, Vouched,
                         QuietSoFar, NoReview

LEMMA NextKeeps == ASSUME ReviewInductive, [Next]_vars PROVE ReviewInductive'
<1>1. CASE LoopStep
  BY <1>1, ListReviewPrsKeeps, DispatchPrReviewKeeps, ContinueAsNewKeeps DEF LoopStep
<1>2. CASE Revive
  BY <1>2, ReviveKeeps
<1>3. ASSUME NEW h \in Heads, ReviewStep(h) PROVE ReviewInductive'
  BY <1>3, ListFilesKeeps, AnalyzeKeeps, AdjudicateKeeps, CheckoutForAgentKeeps, RunAgentKeeps,
     FindMarkedCommentKeeps, LookUpMarkedKeeps, UpsertCommentKeeps, UpsertRefusedKeeps DEF ReviewStep
<1>4. CASE Fault
  BY <1>4, FailTickKeeps, ReviewLostKeeps, ReviewUnheardKeeps, ReviewLateKeeps DEF Fault
<1>5. CASE World
  BY <1>5, PushKeeps, CloseOrReopenKeeps, DeleteCommentKeeps, TerminateKeeps, LandKeeps DEF World
<1>6. CASE UNCHANGED vars
  <2>1. /\ UNCHANGED <<reviewer, pr, comments, posted, flying, loop, reviews>>
        /\ UNCHANGED <<faults, moves, disturbed>>
    BY <1>6 DEF vars, forgeVars, budgetVars
  <2>2. LoopRuns("dispatch")' => loop'.todo \in 1..pr'.head
    BY <2>1, LoopFacts DEF LoopRuns
  <2> QED BY <2>1, <2>2, LoopFacts, LoopKeeps
<1> QED BY <1>1, <1>2, <1>3, <1>4, <1>5, <1>6 DEF Next

\* The inductive invariant of workflow/pr_*review_workflow.py and its loop: nothing is read
\* before it is reviewed, and what a comment says its review has settled on.
THEOREM ReviewInductiveHolds == Spec => []ReviewInductive
<1>1. Init => ReviewInductive
  BY InitHolds
<1>2. ReviewInductive /\ [Next]_vars => ReviewInductive'
  BY NextKeeps
<1> QED BY <1>1, <1>2, PTL DEF Spec

\* Types, for every number of commits, sites, attempts, faults and moves.
THEOREM ReviewTypeCorrect == Spec => []TypeOK
<1>1. ReviewInductive => TypeOK
  BY DEF ReviewInductive
<1> QED BY <1>1, ReviewInductiveHolds, PTL

\* A comment is never about a tree older than the commit it names, although
\* checkout_pull_request fetches whatever the head is by then.
THEOREM NeverAhead == Spec => []NeverAheadOfItsTree
<1>1. ReviewInductive => NeverAheadOfItsTree
  BY DEF ReviewInductive, Vouched, NeverAheadOfItsTree
<1> QED BY <1>1, ReviewInductiveHolds, PTL

\* should_post keeps the pull request silent until a review found something.
THEOREM Quiet == Spec => []QuietUntilFound
<1>1. ReviewInductive => QuietUntilFound
  BY DEF ReviewInductive, QuietSoFar, QuietUntilFound
<1> QED BY <1>1, ReviewInductiveHolds, PTL

\* An all-clear is never rendered of a review that could not complete, nor of
\* one with findings, under any loss, delay or overlap.
THEOREM ClearEarned == Spec => []ClearIsEarned
<1>1. ReviewInductive => ClearIsEarned
  <2>1. ASSUME ReviewInductive, NEW c \in comments \cup flying, c.body = "clear"
        PROVE  reviews[c.head].completed /\ reviews[c.head].found = {}
    BY <2>1 DEF ReviewInductive, Vouched, Render
  <2> QED BY <2>1 DEF ClearIsEarned
<1> QED BY <1>1, ReviewInductiveHolds, PTL

-----------------------------------------------------------------------------
(* Action properties.                                                      *)

\* A step of the review of one head is a step of a review under way, and
\* leaves those of other heads alone.
LEMMA OneReviewMoves ==
  ASSUME ReviewInductive, NEW h \in Heads, NEW r, reviews[h].at \notin Over,
         reviews' = [reviews EXCEPT ![h] = r]
  PROVE  LeavesReviewed
  BY DEF ReviewInductive, TypeOK, LeavesReviewed

LEMMA ReviewStepMovesOne ==
  ASSUME ReviewInductive, NEW h \in Heads, ReviewStep(h)
  PROVE  LeavesReviewed
<1>1. reviews[h].at \notin Over
  BY DEF ReviewStep, ListFiles, Analyze, Adjudicate, CheckoutForAgent, RunAgent,
         FindMarkedComment, LookUpMarked, UpsertComment, UpsertRefused, At, Over
<1>2. \E r : reviews' = [reviews EXCEPT ![h] = r]
  <2>1. CASE ListFiles(h)
    BY <2>1 DEF ListFiles, Become
  <2>2. CASE Analyze(h)
    BY <2>2 DEF Analyze, Become
  <2>3. CASE Adjudicate(h)
    BY <2>3 DEF Adjudicate, Become
  <2>4. CASE CheckoutForAgent(h)
    BY <2>4 DEF CheckoutForAgent, Become
  <2>5. CASE RunAgent(h)
    BY <2>5 DEF RunAgent, Become
  <2>6. CASE FindMarkedComment(h)
    BY <2>6 DEF FindMarkedComment, Become
  <2>7. CASE LookUpMarked(h)
    BY <2>7 DEF LookUpMarked, Become
  <2>8. CASE UpsertComment(h)
    BY <2>8 DEF UpsertComment, Become
  <2>9. CASE UpsertRefused(h)
    BY <2>9 DEF UpsertRefused, FailReview
  <2> QED BY <2>1, <2>2, <2>3, <2>4, <2>5, <2>6, <2>7, <2>8, <2>9 DEF ReviewStep
<1> QED BY <1>1, <1>2, OneReviewMoves

LEMMA NextLeavesReviewed ==
  ASSUME ReviewInductive, [Next]_vars
  PROVE  LeavesReviewed
<1>1. CASE DispatchPrReview
  <2>1. loop.todo \in Heads
    <3>1. loop.todo \in 1..pr.head
      BY <1>1, LoopFacts DEF DispatchPrReview
    <3> QED BY <3>1, LoopFacts, Bounds DEF Heads
  <2>2. CASE StartReview(loop.todo)
    <3>1. reviews[loop.todo].at \notin Over
      BY <2>2 DEF StartReview, Over
    <3> QED BY <1>1, <2>1, <2>2, <3>1, OneReviewMoves DEF DispatchPrReview
  <2>3. CASE ~StartReview(loop.todo)
    BY <1>1, <2>3 DEF DispatchPrReview, LeavesReviewed
  <2> QED BY <2>2, <2>3
<1>2. CASE UNCHANGED reviews
  BY <1>2 DEF LeavesReviewed
<1>3. ASSUME NEW h \in Heads,
             \/ \E retryable \in BOOLEAN : ReviewLost(h, retryable)
             \/ ReviewUnheard(h) \/ ReviewLate(h)
      PROVE  LeavesReviewed
  <2>1. reviews[h].at \notin Over
    BY <1>3 DEF ReviewLost, ReviewUnheard, ReviewLate, UnderWay, At, Places, Over
  <2>2. \E r : reviews' = [reviews EXCEPT ![h] = r]
    BY <1>3 DEF ReviewLost, ReviewUnheard, ReviewLate, FailReview
  <2> QED BY <2>1, <2>2, OneReviewMoves
<1>4. UNCHANGED vars \/ Revive \/ World \/ ListReviewPrs \/ ContinueAsNew
        \/ (\E retryable \in BOOLEAN : FailTick(retryable)) => UNCHANGED reviews
  BY DEF vars, Revive, World, ListReviewPrs, ContinueAsNew, FailTick, Push, CloseOrReopen,
         DeleteComment, Terminate, Land
<1> QED BY <1>1, <1>2, <1>3, <1>4, ReviewStepMovesOne DEF Next, LoopStep, Fault

\* Once over, a review is never run again (dispatch_pr_*review,
\* REJECT_DUPLICATE).
THEOREM ReviewedOnce == Spec => NeverReviewedAgain
<1>1. ReviewInductive /\ [Next]_vars => [LeavesReviewed]_vars
  BY NextLeavesReviewed
<1> QED BY <1>1, ReviewInductiveHolds, PTL DEF Spec, NeverReviewedAgain

LEMMA NextStaysUp ==
  ASSUME ReviewInductive, [Next]_vars
  PROVE  StaysUp
<1> SUFFICES ASSUME loop.status = "running", loop.continuous, ~Terminate
             PROVE  loop'.status = "running"
  BY DEF StaysUp
<1>1. ASSUME NEW ending PROVE EndTick(loop, ending).status = "running"
  BY LoopFacts DEF EndTick, LoopStates
<1>2. CASE ListReviewPrs
  BY <1>1, <1>2, LoopFacts DEF ListReviewPrs, LoopStates
<1>3. CASE DispatchPrReview
  BY <1>1, <1>3 DEF DispatchPrReview
<1>4. CASE ContinueAsNew \/ Revive
  BY <1>4 DEF ContinueAsNew, Revive, Started
<1>5. ASSUME NEW retryable \in BOOLEAN, FailTick(retryable)
      PROVE  loop'.status = "running"
  BY <1>1, <1>5, LoopFacts DEF FailTick, LoopStates
<1>6. CASE UNCHANGED loop
  BY <1>6
<1>7. \A h \in Heads : ReviewStep(h) => UNCHANGED loop
  BY DEF ReviewStep, ListFiles, Analyze, Adjudicate, CheckoutForAgent, RunAgent,
         FindMarkedComment, LookUpMarked, UpsertComment, UpsertRefused, Become, FailReview
<1>8. \A h \in Heads : (\E retryable \in BOOLEAN : ReviewLost(h, retryable))
        \/ ReviewUnheard(h) \/ ReviewLate(h) => UNCHANGED loop
  BY DEF ReviewLost, ReviewUnheard, ReviewLate, FailReview
<1>9. UNCHANGED vars \/ Push \/ CloseOrReopen \/ DeleteComment \/ Land => UNCHANGED loop
  BY DEF vars, Push, CloseOrReopen, DeleteComment, Land
<1> QED BY <1>2, <1>3, <1>4, <1>5, <1>6, <1>7, <1>8, <1>9 DEF Next, LoopStep, Fault, World

\* A durable loop outlives its failed ticks (except FailureError, in
\* workflow/*review_workflow.py); only a termination ends it.
THEOREM RidesOut == Spec => LoopRidesOut
<1>1. ReviewInductive /\ [Next]_vars => [StaysUp]_vars
  BY NextStaysUp
<1> QED BY <1>1, ReviewInductiveHolds, PTL DEF Spec, LoopRidesOut

-----------------------------------------------------------------------------
(* The latest verdict: while reviews do not overlap and nobody cuts in.     *)

\* A turn of a review, good or bad, is that of a review under way, and it
\* changes only that review and the forge.
Turn(h) ==
  \/ ReviewStep(h)
  \/ \E retryable \in BOOLEAN : ReviewLost(h, retryable)
  \/ ReviewUnheard(h) \/ ReviewLate(h)

LEMMA TurnMovesOne ==
  ASSUME NEW h \in Heads, Turn(h)
  PROVE  UnderWay(h) /\ loop' = loop /\ \E r : reviews' = [reviews EXCEPT ![h] = r]
<1>1. UnderWay(h)
  BY DEF Turn, ReviewStep, ListFiles, Analyze, Adjudicate, CheckoutForAgent, RunAgent,
         FindMarkedComment, LookUpMarked, UpsertComment, UpsertRefused, ReviewLost,
         ReviewUnheard, ReviewLate, At, UnderWay, Places
<1>2. CASE ListFiles(h)
  BY <1>1, <1>2 DEF ListFiles, Become
<1>3. CASE Analyze(h)
  BY <1>1, <1>3 DEF Analyze, Become
<1>4. CASE Adjudicate(h)
  BY <1>1, <1>4 DEF Adjudicate, Become
<1>5. CASE CheckoutForAgent(h)
  BY <1>1, <1>5 DEF CheckoutForAgent, Become
<1>6. CASE RunAgent(h)
  BY <1>1, <1>6 DEF RunAgent, Become
<1>7. CASE FindMarkedComment(h)
  BY <1>1, <1>7 DEF FindMarkedComment, Become
<1>8. CASE LookUpMarked(h)
  BY <1>1, <1>8 DEF LookUpMarked, Become
<1>9. CASE UpsertComment(h)
  BY <1>1, <1>9 DEF UpsertComment, Become
<1>10. CASE UpsertRefused(h) \/ (\E retryable \in BOOLEAN : ReviewLost(h, retryable))
              \/ ReviewUnheard(h) \/ ReviewLate(h)
  BY <1>1, <1>10 DEF UpsertRefused, ReviewLost, ReviewUnheard, ReviewLate, FailReview
<1> QED BY <1>2, <1>3, <1>4, <1>5, <1>6, <1>7, <1>8, <1>9, <1>10 DEF Turn, ReviewStep

\* What happens besides turns, listings, dispatches and the comments.
Bystander == ContinueAsNew \/ Revive \/ Terminate \/ Push \/ CloseOrReopen
               \/ (\E retryable \in BOOLEAN : FailTick(retryable)) \/ UNCHANGED vars

\* Every step is a turn of a review or a step of the loop or of the world.
LEMMA StepKinds ==
  ASSUME [Next]_vars
  PROVE  \/ \E h \in Heads : Turn(h)
         \/ ListReviewPrs \/ DispatchPrReview \/ DeleteComment \/ Land
         \/ Bystander
<1>1. CASE \E h \in Heads : ReviewStep(h)
  BY <1>1 DEF Turn
<1>2. CASE Fault
  BY <1>2 DEF Fault, Turn, Bystander
<1>3. CASE LoopStep \/ Revive \/ World \/ UNCHANGED vars
  BY <1>3 DEF LoopStep, World, Bystander
<1> QED BY <1>1, <1>2, <1>3 DEF Next

\* They leave reviews and forge alone, and bring the loop to a dispatch only if
\* it was at that dispatch.
LEMMA BystanderLeaves ==
  ASSUME ReviewInductive, Bystander
  PROVE  /\ UNCHANGED <<comments, flying, reviews, disturbed>>
         /\ LoopRuns("dispatch")' => LoopRuns("dispatch") /\ loop'.todo = loop.todo
<1>1. UNCHANGED <<comments, flying, reviews, disturbed>>
  BY DEF Bystander, ContinueAsNew, Revive, Terminate, Push, CloseOrReopen, FailTick, vars,
         forgeVars
<1>2. CASE ContinueAsNew \/ Revive
  BY <1>1, <1>2, StartedType DEF ContinueAsNew, Revive, LoopRuns
<1>3. CASE Terminate
  <2>1. loop' = [loop EXCEPT !.status = "failed", !.todo = 0, !.tries = 0]
    BY <1>3 DEF Terminate
  <2> QED BY <1>1, <2>1, LoopFacts DEF LoopRuns, LoopStates
<1>4. CASE Push \/ CloseOrReopen \/ UNCHANGED vars
  BY <1>1, <1>4 DEF Push, CloseOrReopen, vars, LoopRuns
<1>5. ASSUME NEW retryable \in BOOLEAN, FailTick(retryable)
      PROVE  LoopRuns("dispatch")' => LoopRuns("dispatch") /\ loop'.todo = loop.todo
  <2>1. CASE loop' = [loop EXCEPT !.tries = @ + 1]
    BY <2>1, LoopFacts DEF LoopRuns, LoopStates
  <2>2. CASE loop' = EndTick(loop, "failed")
    BY <2>2, LoopFacts, EndTickType DEF LoopRuns
  <2> QED BY <1>5, <2>1, <2>2 DEF FailTick
<1> QED BY <1>1, <1>2, <1>3, <1>4, <1>5 DEF Bystander

\* What a turn of the review of h must leave: its new state r beside the
\* comments as they are then.
TurnsOut(h, r) ==
  /\ r.at # "none"
  /\ flying' = {}
  /\ \A c, d \in comments' : c = d /\ c.id # 0
  /\ r.at = "write" => r.target \in MarkedCommentId'
  /\ r.at = "done" =>
       \/ comments' = {} /\ r.found = {}
       \/ \E c \in comments' : c.head = h /\ c.body = Render(r)

LEMMA TurnsOutKeeps ==
  ASSUME VerdictInductive, Undisturbed, NEW h \in Heads, NEW r, UnderWay(h),
         reviews' = [reviews EXCEPT ![h] = r], TurnsOut(h, r)
  PROVE  Undisturbed'
<1>1. /\ \A k \in Heads : reviews'[k] = IF k = h THEN r ELSE reviews[k]
      /\ reviews'[h] = r
  BY DEF VerdictInductive, ReviewInductive, TypeOK
<1>2. \A k \in Heads : reviews'[k].at \in Places /\ k # h => k = h
  <2>1. ASSUME NEW k \in Heads, reviews'[k].at \in Places, k # h PROVE FALSE
    <3>1. reviews[k].at \in Places
      BY <2>1, <1>1
    <3>2. k <= h /\ h <= k
      BY <3>1 DEF Undisturbed, OneAtATime, UnderWay, Places
    <3>3. k \in Nat /\ h \in Nat
      BY Bounds DEF Heads
    <3> QED BY <2>1, <3>2, <3>3
  <2> QED BY <2>1
<1>3. \A k \in Heads : reviews'[k].at # "none" => reviews[k].at # "none"
  BY <1>1 DEF UnderWay, Places
<1>4. OneAtATime'
  BY <1>1, <1>2, <1>3 DEF Undisturbed, OneAtATime, UnderWay
<1>5. OneComment'
  BY DEF TurnsOut, OneComment
<1>6. TargetStands'
  BY <1>1, <1>2 DEF TurnsOut, TargetStands, At, Places
<1>7. VerdictStands'
  <2>1. ASSUME NEW k \in Heads, LatestReview(k)'
        PROVE  \/ comments' = {} /\ reviews'[k].found = {}
               \/ \E c \in comments' : c.head = k /\ c.body = Render(reviews'[k])
    <3>1. reviews'[k].at = "done" /\ \A j \in Heads : j > k => reviews'[j].at = "none"
      BY <2>1 DEF LatestReview
    <3>2. CASE k = h
      BY <3>1, <3>2, <1>1 DEF TurnsOut
    <3>3. CASE k # h
      <4>1. reviews[k].at = "done"
        BY <3>1, <3>3, <1>1
      <4>2. k <= h
        BY <4>1 DEF Undisturbed, OneAtATime
      <4>3. h > k
        <5>1. k \in Nat /\ h \in Nat
          BY Bounds DEF Heads
        <5> QED BY <4>2, <3>3, <5>1
      <4> QED BY <4>3, <3>1, <1>1 DEF TurnsOut
    <3> QED BY <3>2, <3>3
  <2>2. \A k \in Heads : LatestReview(k)' =>
          \/ comments' = {} /\ reviews'[k].found = {}
          \/ \E c \in comments' : c.head = k /\ c.body = Render(reviews'[k])
    BY <2>1
  <2>3. \A k \in Heads : Render(reviews[k])' = Render(reviews'[k])
    BY DEF Render
  <2> QED BY <2>2, <2>3 DEF VerdictStands
<1> QED BY <1>4, <1>5, <1>6, <1>7 DEF Undisturbed

\* A turn that leaves the comments alone and neither ends the review nor is
\* about to write.
LEMMA QuietTurn ==
  ASSUME VerdictInductive, Undisturbed, NEW h \in Heads, NEW r, UnderWay(h),
         reviews' = [reviews EXCEPT ![h] = r], UNCHANGED <<comments, flying>>,
         r.at \notin {"none", "write", "done"}
  PROVE  Undisturbed'
<1>1. TurnsOut(h, r)
  BY DEF TurnsOut, Undisturbed, OneComment
<1> QED BY <1>1, TurnsOutKeeps

LEMMA FailsQuietly ==
  ASSUME ReviewInductive, NEW h \in Heads, UnderWay(h), NEW retryable \in BOOLEAN
  PROVE  AfterFailure(h, retryable).at \notin {"none", "write", "done"}
<1>1. FirstOf(reviews[h].at) \in {"files", "checkout", "adjudicate", "exists"}
  BY Courses, Types DEF FirstOf, UnderWay, Places
<1>2. CASE retryable /\ reviews[h].tries + 1 < MaxAttempts
  <2>1. AfterFailure(h, retryable)
          = [reviews[h] EXCEPT !.at = FirstOf(reviews[h].at), !.tries = @ + 1]
    BY <1>2 DEF AfterFailure
  <2> QED BY <1>1, <2>1, Types DEF ReviewStates
<1>3. CASE ~(retryable /\ reviews[h].tries + 1 < MaxAttempts)
  <2>1. AfterFailure(h, retryable) = [reviews[h] EXCEPT !.at = "failed"]
    BY <1>3 DEF AfterFailure
  <2> QED BY <2>1, Types DEF ReviewStates
<1> QED BY <1>2, <1>3

\* The one comment there is once a review has written.
LEMMA WritesTheComment ==
  ASSUME VerdictInductive, Undisturbed, NEW h \in Heads, At(h, "write"),
         Accepts(WriteOf(h)), Perform(WriteOf(h))
  PROVE  \E w : /\ comments' = {w} /\ w.id # 0 /\ w.head = h
                /\ w.body = Render(reviews[h])
<1> DEFINE w == WriteOf(h)
<1>1. /\ w \in Comments /\ w.head = h /\ w.id = reviews[h].target
      /\ w.body = Render(reviews[h])
  BY WriteOfFacts DEF At, VerdictInductive
<1>2. posted \in Nat /\ comments \subseteq Comments
  BY DEF VerdictInductive, ReviewInductive, TypeOK
<1>3. w.id \in MarkedCommentId
  BY <1>1 DEF Undisturbed, TargetStands
<1>4. CASE w.id = 0
  <2> DEFINE d == [w EXCEPT !.id = posted + 1]
  <2>1. comments' = comments \cup {d}
    BY <1>4 DEF Perform
  <2>2. comments = {}
    BY <1>3, <1>4 DEF MarkedCommentId, Undisturbed, OneComment
  <2>3. d.id # 0 /\ d.head = h /\ d.body = Render(reviews[h])
    <3> HIDE DEF w
    <3> QED BY <1>1, <1>2 DEF Comments
  <2> HIDE DEF d
  <2> QED BY <2>1, <2>2, <2>3
<1>5. CASE w.id # 0
  <2>1. comments' = {IF c.id = w.id THEN w ELSE c : c \in comments}
    BY <1>5 DEF Perform
  <2>2. PICK c \in comments : c.id = w.id
    BY <1>5 DEF Accepts
  <2>3. comments = {c}
    BY <2>2 DEF Undisturbed, OneComment
  <2> HIDE DEF w
  <2>4. comments' = {w}
    BY <2>1, <2>2, <2>3
  <2> QED BY <2>4, <1>1, <1>5
<1> QED BY <1>4, <1>5

\* The turns of a review that is the only one.
LEMMA ReviewStepUndisturbed ==
  ASSUME VerdictInductive, Undisturbed, NEW h \in Heads, ReviewStep(h)
  PROVE  Undisturbed'
<1>0. /\ UnderWay(h) /\ reviews[h] \in ReviewStates
      /\ ReviewInductive
  BY TurnMovesOne, Types DEF Turn, VerdictInductive
<1>1. CASE ListFiles(h)
  <2> DEFINE r == [reviews[h] EXCEPT !.at = "checkout", !.touched = Touched(pr.tree)]
  <2>1. r.at = "checkout"
    BY <1>0 DEF ReviewStates
  <2>2. reviews' = [reviews EXCEPT ![h] = r] /\ UNCHANGED <<comments, flying>>
    BY <1>1 DEF ListFiles, Become, forgeVars
  <2> HIDE DEF r
  <2> QED BY <1>0, <2>1, <2>2, QuietTurn
<1>2. CASE Analyze(h)
  <2> DEFINE suspects == Suspects(pr.tree, reviews[h].touched)
             at == IF suspects = {} THEN "exists" ELSE "adjudicate"
             r == [reviews[h] EXCEPT !.at = at, !.seen = Fetched(h), !.suspects = suspects,
                                     !.found = Hazards(pr.tree), !.tries = 0]
  <2>1. r.at \in {"exists", "adjudicate"}
    BY <1>0 DEF ReviewStates
  <2>2. reviews' = [reviews EXCEPT ![h] = r] /\ UNCHANGED <<comments, flying>>
    BY <1>2 DEF Analyze, Become, forgeVars
  <2> HIDE DEF r
  <2> QED BY <1>0, <2>1, <2>2, QuietTurn
<1>3. CASE Adjudicate(h)
  <2>1. PICK verdicts \in [reviews[h].suspects -> Verdicts] :
          Become(h, [reviews[h] EXCEPT !.at = "exists", !.tries = 0,
            !.found = @ \cup {s \in reviews[h].suspects : Synthesize(verdicts[s])}])
    BY <1>3 DEF Adjudicate
  <2> DEFINE r == [reviews[h] EXCEPT !.at = "exists", !.tries = 0,
                     !.found = @ \cup {s \in reviews[h].suspects : Synthesize(verdicts[s])}]
  <2>2. r.at = "exists"
    BY <1>0 DEF ReviewStates
  <2>3. reviews' = [reviews EXCEPT ![h] = r] /\ UNCHANGED <<comments, flying>>
    BY <1>3, <2>1 DEF Adjudicate, Become, forgeVars
  <2> HIDE DEF r
  <2> QED BY <1>0, <2>2, <2>3, QuietTurn
<1>4. CASE CheckoutForAgent(h)
  <2> DEFINE r == [reviews[h] EXCEPT !.at = "agent", !.seen = Fetched(h)]
  <2>1. r.at = "agent"
    BY <1>0 DEF ReviewStates
  <2>2. reviews' = [reviews EXCEPT ![h] = r] /\ UNCHANGED <<comments, flying>>
    BY <1>4 DEF CheckoutForAgent, Become, forgeVars
  <2> HIDE DEF r
  <2> QED BY <1>0, <2>1, <2>2, QuietTurn
<1>5. CASE RunAgent(h)
  <2>1. PICK found \in SUBSET Sites, completed \in BOOLEAN :
          Become(h, [reviews[h] EXCEPT !.at = "exists", !.tries = 0,
            !.found = found, !.completed = completed])
    BY <1>5 DEF RunAgent
  <2> DEFINE r == [reviews[h] EXCEPT !.at = "exists", !.tries = 0,
                                     !.found = found, !.completed = completed]
  <2>2. r.at = "exists"
    BY <1>0 DEF ReviewStates
  <2>3. reviews' = [reviews EXCEPT ![h] = r] /\ UNCHANGED <<comments, flying>>
    BY <1>5, <2>1 DEF RunAgent, Become, forgeVars
  <2> HIDE DEF r
  <2> QED BY <1>0, <2>2, <2>3, QuietTurn
<1>6. CASE FindMarkedComment(h)
  <2> DEFINE at == IF ShouldPost(reviews[h].found, comments # {}) THEN "lookup" ELSE "done"
             r == [reviews[h] EXCEPT !.at = at]
  <2>1. /\ r.at \in {"lookup", "done"} /\ r.found = reviews[h].found
        /\ r.at = "done" => reviews[h].found = {} /\ comments = {}
    BY <1>0 DEF ReviewStates, ShouldPost
  <2>2. reviews' = [reviews EXCEPT ![h] = r] /\ UNCHANGED <<comments, flying>>
    BY <1>6 DEF FindMarkedComment, Become, forgeVars
  <2> HIDE DEF r
  <2>3. TurnsOut(h, r)
    BY <2>1, <2>2 DEF TurnsOut, Undisturbed, OneComment
  <2> QED BY <1>0, <2>2, <2>3, TurnsOutKeeps
<1>7. CASE LookUpMarked(h)
  <2>1. PICK id \in MarkedCommentId :
          Become(h, [reviews[h] EXCEPT !.at = "write", !.target = id])
    BY <1>7 DEF LookUpMarked
  <2> DEFINE r == [reviews[h] EXCEPT !.at = "write", !.target = id]
  <2>2. r.at = "write" /\ r.target = id
    BY <1>0 DEF ReviewStates
  <2>3. reviews' = [reviews EXCEPT ![h] = r] /\ UNCHANGED <<comments, flying>>
    BY <1>7, <2>1 DEF LookUpMarked, Become, forgeVars
  <2> HIDE DEF r
  <2>4. MarkedCommentId' = MarkedCommentId
    BY <2>3 DEF MarkedCommentId
  <2>5. TurnsOut(h, r)
    BY <2>2, <2>3, <2>4 DEF TurnsOut, Undisturbed, OneComment
  <2> QED BY <1>0, <2>3, <2>5, TurnsOutKeeps
<1>8. CASE UpsertComment(h)
  <2> DEFINE r == [reviews[h] EXCEPT !.at = "done"]
  <2>1. /\ r.at = "done" /\ r.found = reviews[h].found
        /\ r.completed = reviews[h].completed
    BY <1>0 DEF ReviewStates
  <2>2. reviews' = [reviews EXCEPT ![h] = r] /\ flying' = flying
    BY <1>8 DEF UpsertComment, Become
  <2>3. PICK w : comments' = {w} /\ w.id # 0 /\ w.head = h /\ w.body = Render(reviews[h])
    BY <1>8, WritesTheComment DEF UpsertComment
  <2> HIDE DEF r
  <2>4. Render(r) = Render(reviews[h])
    BY <2>1, SameBody
  <2>5. TurnsOut(h, r)
    BY <2>1, <2>2, <2>3, <2>4 DEF TurnsOut, Undisturbed, OneComment
  <2> QED BY <1>0, <2>2, <2>5, TurnsOutKeeps
<1>9. CASE UpsertRefused(h)
  <2>1. /\ reviews' = [reviews EXCEPT ![h] = AfterFailure(h, TRUE)]
        /\ UNCHANGED <<comments, flying>>
    BY <1>9 DEF UpsertRefused, FailReview, forgeVars
  <2>2. AfterFailure(h, TRUE).at \notin {"none", "write", "done"}
    BY <1>0, FailsQuietly
  <2> QED BY <1>0, <2>1, <2>2, QuietTurn
<1> QED BY <1>1, <1>2, <1>3, <1>4, <1>5, <1>6, <1>7, <1>8, <1>9 DEF ReviewStep

LEMMA ReviewLostUndisturbed ==
  ASSUME VerdictInductive, Undisturbed, NEW h \in Heads, NEW retryable \in BOOLEAN,
         ReviewLost(h, retryable)
  PROVE  Undisturbed'
<1>1. /\ reviews' = [reviews EXCEPT ![h] = AfterFailure(h, retryable)] /\ UnderWay(h)
      /\ UNCHANGED <<comments, flying>>
  BY DEF ReviewLost, FailReview, forgeVars
<1>2. AfterFailure(h, retryable).at \notin {"none", "write", "done"}
  BY <1>1, FailsQuietly DEF VerdictInductive
<1> QED BY <1>1, <1>2, QuietTurn

\* The write is done: the retry will find the comment and edit it.
LEMMA ReviewUnheardUndisturbed ==
  ASSUME VerdictInductive, Undisturbed, NEW h \in Heads, ReviewUnheard(h)
  PROVE  Undisturbed'
<1>1. /\ reviews' = [reviews EXCEPT ![h] = AfterFailure(h, TRUE)] /\ UnderWay(h)
      /\ flying' = flying
  BY DEF ReviewUnheard, FailReview, At, UnderWay, Places
<1>2. AfterFailure(h, TRUE).at \notin {"none", "write", "done"}
  BY <1>1, FailsQuietly DEF VerdictInductive
<1>3. PICK w : comments' = {w} /\ w.id # 0 /\ w.head = h /\ w.body = Render(reviews[h])
  BY WritesTheComment DEF ReviewUnheard
<1>4. TurnsOut(h, AfterFailure(h, TRUE))
  BY <1>1, <1>2, <1>3 DEF TurnsOut, Undisturbed, OneComment
<1> QED BY <1>1, <1>4, TurnsOutKeeps

-----------------------------------------------------------------------------
(* Dispatches, and what leaves reviews and comments alone.                 *)

\* Nothing that Undisturbed speaks of has changed.
LEMMA UndisturbedStays ==
  ASSUME Undisturbed, UNCHANGED <<comments, flying, reviews>>
  PROVE  Undisturbed'
<1>1. OneAtATime' /\ OneComment'
  BY DEF Undisturbed, OneAtATime, OneComment, UnderWay
<1>2. TargetStands'
  BY DEF Undisturbed, TargetStands, At, MarkedCommentId
<1>3. VerdictStands'
  BY DEF Undisturbed, VerdictStands, LatestReview, Render
<1> QED BY <1>1, <1>2, <1>3 DEF Undisturbed

\* A review begun while none is under way, of the newest head so far.
LEMMA DispatchUndisturbed ==
  ASSUME VerdictInductive, Undisturbed, DispatchPrReview, ~disturbed'
  PROVE  Undisturbed'
<1>1. UNCHANGED <<comments, flying>>
  BY DEF DispatchPrReview, forgeVars
<1>2. CASE ~StartReview(loop.todo)
  BY <1>1, <1>2, UndisturbedStays DEF DispatchPrReview
<1>3. CASE StartReview(loop.todo)
  <2> DEFINE h == loop.todo
             r == [NoReview EXCEPT !.at = Course.first]
  <2>1. h \in Heads /\ LoopRuns("dispatch") /\ ReviewInductive
    <3>1. h \in 1..pr.head /\ LoopRuns("dispatch") /\ ReviewInductive
      BY LoopFacts DEF DispatchPrReview, VerdictInductive
    <3> QED BY <3>1, LoopFacts, Bounds DEF Heads
  <2>2. r.at \in {"files", "checkout"}
    BY Courses, Types, <2>1 DEF NoReview
  <2>3. /\ reviews' = [reviews EXCEPT ![h] = r] /\ Idle
    BY <1>3 DEF DispatchPrReview
  <2>4. \A k \in Heads : k > h => reviews[k].at = "none"
    BY <2>1 DEF VerdictInductive, NewestIsNext
  <2> HIDE DEF h, r
  <2>5. \A k \in Heads : reviews'[k] = IF k = h THEN r ELSE reviews[k]
    BY <2>1, <2>3 DEF ReviewInductive, TypeOK
  <2>6. OneAtATime'
    <3>1. ASSUME NEW j \in Heads, NEW k \in Heads, reviews'[j].at \in Places,
                 reviews'[k].at # "none"
          PROVE  k <= j
      <4>1. j = h
        BY <3>1, <2>3, <2>5 DEF Idle, UnderWay
      <4>2. ~(k > h)
        BY <3>1, <2>4, <2>5, Bounds DEF Heads
      <4>3. k \in Nat /\ h \in Nat
        BY <2>1, Bounds DEF Heads
      <4> QED BY <4>1, <4>2, <4>3
    <3> QED BY <3>1 DEF OneAtATime, UnderWay
  <2>7. OneComment'
    BY <1>1 DEF Undisturbed, OneComment
  <2>8. TargetStands'
    BY <2>2, <2>3, <2>5 DEF TargetStands, At, Idle, UnderWay, Places
  <2>9. VerdictStands'
    <3>1. ASSUME NEW k \in Heads, LatestReview(k)'
          PROVE  FALSE
      <4>1. reviews'[k].at = "done" /\ \A j \in Heads : j > k => reviews'[j].at = "none"
        BY <3>1 DEF LatestReview
      <4>2. k # h /\ reviews[k].at = "done"
        BY <4>1, <2>2, <2>5
      <4>3. ~(k > h) /\ ~(h > k)
        BY <4>1, <4>2, <2>1, <2>2, <2>4, <2>5
      <4>4. k \in Nat /\ h \in Nat
        BY <2>1, Bounds DEF Heads
      <4> QED BY <4>2, <4>3, <4>4
    <3> QED BY <3>1 DEF VerdictStands
  <2> QED BY <2>6, <2>7, <2>8, <2>9 DEF Undisturbed
<1> QED BY <1>2, <1>3

\* The head about to be dispatched stays the newest.
LEMMA NewestKept ==
  ASSUME VerdictInductive, [Next]_vars
  PROVE  NewestIsNext'
<1>0. ReviewInductive /\ NewestIsNext
  BY DEF VerdictInductive
<1>1. ASSUME NEW h \in Heads, Turn(h) PROVE NewestIsNext'
  <2>1. PICK r : reviews' = [reviews EXCEPT ![h] = r]
    BY <1>1, TurnMovesOne
  <2>2. /\ \A k \in Heads : k # h => reviews'[k] = reviews[k]
        /\ reviews[h].at # "none" /\ loop' = loop
    BY <1>0, <1>1, <2>1, TurnMovesOne DEF ReviewInductive, TypeOK, UnderWay, Places
  <2> QED BY <1>0, <2>2 DEF NewestIsNext, LoopRuns
<1>2. CASE ListReviewPrs
  <2>1. CASE pr.open
    <3>1. loop'.todo = pr.head /\ reviews' = reviews
      BY <1>0, <1>2, <2>1, LoopFacts DEF ListReviewPrs, LoopStates
    <3>2. \A h \in Heads : h > pr.head => reviews[h].at = "none"
      <4>1. \A h \in Heads : h \in Nat /\ pr.head \in Nat
        BY <1>0, LoopFacts, Bounds DEF Heads
      <4> QED BY <1>0, <4>1 DEF ReviewInductive, HeadsInOrder
    <3> QED BY <3>1, <3>2 DEF NewestIsNext
  <2>2. CASE ~pr.open
    BY <1>0, <1>2, <2>2, LoopFacts, EndTickType DEF ListReviewPrs, NewestIsNext, LoopRuns
  <2> QED BY <2>1, <2>2
<1>3. CASE DispatchPrReview
  BY <1>0, <1>3, LoopFacts, EndTickType DEF DispatchPrReview, NewestIsNext, LoopRuns
<1>4. CASE DeleteComment \/ Land
  BY <1>0, <1>4 DEF DeleteComment, Land, NewestIsNext, LoopRuns
<1>5. CASE Bystander
  BY <1>0, <1>5, BystanderLeaves DEF NewestIsNext
<1> QED BY <1>1, <1>2, <1>3, <1>4, <1>5, StepKinds

\* What was disturbed once stays so.
LEMMA DisturbedStays ==
  ASSUME VerdictInductive, [Next]_vars, ~disturbed'
  PROVE  ~disturbed
<1>1. ASSUME NEW h \in Heads, Turn(h) PROVE ~disturbed
  <2>1. CASE ReviewStep(h)
    BY <2>1 DEF ReviewStep, ListFiles, Analyze, Adjudicate, CheckoutForAgent, RunAgent,
                FindMarkedComment, LookUpMarked, UpsertComment, UpsertRefused, Become
  <2>2. CASE ~ReviewStep(h)
    BY <1>1, <2>2 DEF Turn, ReviewLost, ReviewUnheard, ReviewLate
  <2> QED BY <2>1, <2>2
<1>2. CASE Bystander
  BY <1>2, BystanderLeaves DEF VerdictInductive
<1>3. CASE DispatchPrReview
  BY <1>3 DEF DispatchPrReview
<1>4. CASE ListReviewPrs \/ DeleteComment \/ Land
  BY <1>4 DEF ListReviewPrs, DeleteComment, Land
<1> QED BY <1>1, <1>2, <1>3, <1>4, StepKinds

LEMMA UndisturbedKept ==
  ASSUME VerdictInductive, [Next]_vars, ~disturbed'
  PROVE  Undisturbed'
<1>0. Undisturbed /\ ReviewInductive
  BY DisturbedStays DEF VerdictInductive
<1>1. ASSUME NEW h \in Heads, Turn(h) PROVE Undisturbed'
  <2>1. ~ReviewLate(h)
    BY DEF ReviewLate
  <2> QED BY <1>0, <1>1, <2>1, ReviewStepUndisturbed, ReviewLostUndisturbed,
             ReviewUnheardUndisturbed DEF Turn
<1>2. CASE ListReviewPrs
  BY <1>0, <1>2, UndisturbedStays DEF ListReviewPrs, forgeVars
<1>3. CASE DispatchPrReview
  BY <1>0, <1>3, DispatchUndisturbed
<1>4. ~DeleteComment
  BY DEF DeleteComment
<1>5. ~Land
  BY <1>0 DEF Land, Undisturbed, OneComment
<1>6. CASE Bystander
  BY <1>0, <1>6, BystanderLeaves, UndisturbedStays
<1> QED BY <1>1, <1>2, <1>3, <1>4, <1>5, <1>6, StepKinds

LEMMA VerdictInit == ASSUME Init PROVE VerdictInductive
<1>1. ReviewInductive
  BY InitHolds
<1>2. NewestIsNext
  BY DEF Init, NewestIsNext, NoReview
<1>3. Undisturbed
  BY DEF Init, Undisturbed, OneAtATime, OneComment, TargetStands, VerdictStands,
         LatestReview, UnderWay, At, NoReview, Places
<1> QED BY <1>1, <1>2, <1>3 DEF VerdictInductive

\* The inductive invariant of reviews that do not overlap: one review under
\* way, one comment, and nothing between a review's lookup and its write
\* (post_*, upsert_issue_comment).
THEOREM VerdictInductiveHolds == Spec => []VerdictInductive
<1>1. Init => VerdictInductive
  BY VerdictInit
<1>2. VerdictInductive /\ [Next]_vars => VerdictInductive'
  <2>1. ASSUME VerdictInductive, [Next]_vars PROVE VerdictInductive'
    <3>1. ReviewInductive'
      BY <2>1, NextKeeps DEF VerdictInductive
    <3>2. NewestIsNext'
      BY <2>1, NewestKept
    <3>3. ~disturbed' => Undisturbed'
      BY <2>1, UndisturbedKept
    <3> QED BY <3>1, <3>2, <3>3 DEF VerdictInductive
  <2> QED BY <2>1
<1> QED BY <1>1, <1>2, PTL DEF Spec

\* One marked comment, and it is the verdict of the latest review: what was
\* fixed decays and no attempt that dies after its write posts a second
\* (should_post, upsert_issue_comment).
THEOREM VerdictOfTheLatest == Spec => []LatestVerdictStands
<1>1. ASSUME VerdictInductive, Idle, ~disturbed
      PROVE  /\ Cardinality(comments) <= 1
             /\ \A h \in Heads : LatestReview(h) =>
                  \/ comments = {} /\ reviews[h].found = {}
                  \/ \E c \in comments : c.head = h /\ c.body = Render(reviews[h])
  <2>1. Cardinality(comments) <= 1
    <3>1. CASE comments = {}
      BY <3>1, FS_EmptySet
    <3>2. CASE comments # {}
      <4>1. PICK c \in comments : comments = {c}
        BY <1>1, <3>2 DEF VerdictInductive, Undisturbed, OneComment
      <4>2. Cardinality(comments) = 1
        BY <4>1, FS_Singleton
      <4> QED BY <4>2
    <3> QED BY <3>1, <3>2
  <2> QED BY <1>1, <2>1 DEF VerdictInductive, Undisturbed, VerdictStands
<1>2. VerdictInductive => LatestVerdictStands
  BY <1>1 DEF LatestVerdictStands
<1> QED BY <1>2, VerdictInductiveHolds, PTL
================================================================================
