--------------------------------- MODULE Panel ---------------------------------
(***************************************************************************)
(* A request for the page (dashboard/server.py, build_html): GitHub is     *)
(* asked repository by repository and, meanwhile, Temporal kind by kind,   *)
(* then GitHub again for what became of the merges.  Nothing is stored:    *)
(* bumps end, people decide, roots die and are started again between two   *)
(* requests of one page, and a source that fails leaves what it had.  Both *)
(* sources are read up to a limit and say nothing of what is past it.      *)
(***************************************************************************)
EXTENDS Dashboard, Starter

CONSTANTS
  Watched,    (* FROOT_REPOS, a sequence of [owner, name], texts           *)
  Loops,      (* FROOT_LOOPS                                               *)
  Advisory,   (* the one advisory loop followed; they are read alike       *)
  Policy,     (* the autonomy policy                                       *)
  Environment, (* the judge model                                          *)
  Proposable, (* [repo, loop, package, target]: bumps that may be started  *)
  Readings,   (* [verdict, ci]: what a bump may come to                    *)
  Endings,    (* how an execution may fail                                 *)
  Reviewable, (* [repo, number, head]: reviews that may be started         *)
  PerPage,    (* _PER_PAGE: pull requests read of a repository             *)
  MaxPerType, (* _MAX_PER_TYPE: executions read of a kind                  *)
  Moving,     (* bound: the roots that start, turn and die                 *)
  MaxBumps, MaxRootEvents, (* bounds: bumps; starts, turns, ends of roots  *)
  MaxEnded,   (* bound: reviews that end                                   *)
  MaxMeanwhile, (* bound: what happens while a page is read                *)
  MaxBefore,  (* bound: executions that are read before an error           *)
  MaxFaults   (* bound: requests that fail                                 *)

Repos == Range(Watched)
Roots == {<<plan.repo, plan.loop>> : plan \in Plans(Repos, Loops, {Advisory})}
Statuses == FailureStatuses \cup LiveStatuses \cup {"completed"}
Numbers  == 1..MaxBumps
Keys     == Repos \X Numbers

Texts == Seq(STRING)

ASSUME PanelAssumption ==
  /\ Watched \in Seq([owner : Texts, name : Texts])
  /\ Loops \subseteq CommitLoops /\ Advisory \in AdvisoryLoops
  /\ Policy \in AutonomyPolicies(Repos)
  /\ \A p \in Proposable : p.repo \in Repos /\ p.loop \in Loops
  /\ \A p \in Proposable : p.loop = "dead-code" => ~IsCanary(p.target)
  /\ \A r \in Reviewable : r.repo \in Repos
  /\ Moving \subseteq Roots
  /\ Endings \subseteq {"terminated", "failed", "canceled", "timed_out"}
  /\ PerPage \in Nat \ {0} /\ MaxPerType \in Nat \ {0}
  /\ MaxBumps \in Nat /\ MaxRootEvents \in Nat /\ MaxEnded \in Nat
  /\ MaxMeanwhile \in Nat /\ MaxBefore \in Nat /\ MaxFaults \in Nat

\* The slug of a text is a text; numbers and heads are words.
ASSUME SlugAssumption ==
  /\ \A r \in Repos : Slug(r.owner) \in Texts /\ Slug(r.name) \in Texts
  /\ \A p \in Proposable : Slug(p.package) \in Texts /\ p.target \in STRING
  /\ \A r \in Reviewable : {r.number, r.head} \subseteq STRING \ {Hyphen}

VARIABLES
  focus,    (* bound: the part of the world that moves                     *)
  pulls,    (* the labelled pull requests                                  *)
  bumps,    (* [item -> bump workflow], of the items started               *)
  roots,    (* [root -> the statuses of its executions, oldest first]      *)
  reviews,  (* [item -> review workflow]                                   *)
  page,     (* the page under way                                          *)
  faults, rootEvents

worldVars == <<focus, pulls, bumps, roots, reviews, rootEvents>>
vars == <<worldVars, page, faults>>

-----------------------------------------------------------------------------
(* The world.                                                              *)

NoBump   == [status |-> "none", number |-> 0, verdict |-> "none", ci |-> "none"]
NoReview == [status |-> "none", findings |-> 0]
Started(w) == {i \in DOMAIN w : w[i].status # "none"}

LastOf(root) == roots[root][Len(roots[root])]
Running(root) == roots[root] # <<>> /\ LastOf(root) = "running"
Deaths(root) == {i \in DOMAIN roots[root] : roots[root][i] \in Endings}

\* Reading: at, the repositories to list, what is to be asked of Temporal next,
\* and what there is of each.  asked, dead, live: history, the world at the
\* request and the roots that were not and were live at some moment since.
Kinds == {"scans", "bumps", "advisory", "reviews"}
Empty == [kind \in Kinds |-> {}]
NoOutcomes == [key \in Keys |-> "none"]
NothingAsked == [pulls |-> {}, failed |-> {}, read |-> {}, reviews |-> {}, flapping |-> {}]
IdlePage ==
  [at |-> "idle", todo |-> <<>>, next |-> "scans", prs |-> {}, ledger |-> Empty,
   outcomes |-> NoOutcomes, githubError |-> FALSE, temporalError |-> FALSE,
   undecoded |-> FALSE, meanwhile |-> 0,
   asked |-> NothingAsked, dead |-> {}, live |-> {}]

Init ==
  /\ focus \in {"bumps", "roots", "reviews"}
  /\ pulls = {}
  /\ bumps = [item \in Proposable |-> NoBump]
  /\ \E running \in {{}, Moving} :
       /\ running # {} => focus = "roots"
       /\ roots = [root \in Roots |-> IF root \in running THEN <<"running">> ELSE <<>>]
  /\ reviews = [item \in Reviewable |-> NoReview]
  /\ page = IdlePage
  /\ faults = 0 /\ rootEvents = 0

\* What may happen while a page is read is bounded.
Happens(part, dead, live) ==
  /\ focus = part /\ UNCHANGED <<focus, faults>>
  /\ IF page.at = "reading"
     THEN /\ page.meanwhile < MaxMeanwhile
          /\ page' = [page EXCEPT !.meanwhile = @ + 1, !.dead = @ \cup dead, !.live = @ \cup live]
     ELSE page' = IdlePage

BumpMoves(p, b) ==
  /\ pulls' = p /\ bumps' = b
  /\ Happens("bumps", {}, {})
  /\ UNCHANGED <<roots, reviews, rootEvents>>

StartBump(item) ==
  /\ bumps[item].status = "none" /\ Cardinality(Started(bumps)) < MaxBumps
  /\ BumpMoves(pulls, [bumps EXCEPT ![item].status = "running"])

\* record_outcome puts the label on: only now GitHub lists the pull request,
\* whose body has the verdict.  It was closed if CI was red.
NextNumber(repo) == 1 + Cardinality({p \in pulls : p.repo = repo})
Record(item) ==
  /\ bumps[item].status = "running" /\ bumps[item].number = 0
  /\ \E reading \in Readings :
       LET number == NextNumber(item.repo)
           pull == [repo |-> item.repo, number |-> number, loop |-> item.loop,
                    env |-> Environment, to |-> item.target, verdict |-> reading.verdict,
                    state |-> IF reading.ci = "failed" THEN "closed" ELSE "open",
                    opened |-> 0, merged |-> NoTime]
       IN BumpMoves(pulls \cup {pull},
            [bumps EXCEPT ![item] = [status |-> "running", number |-> number,
                                     verdict |-> reading.verdict, ci |-> reading.ci]])

CompleteBump(item) ==
  /\ bumps[item].status = "running" /\ bumps[item].number # 0
  /\ BumpMoves(pulls, [bumps EXCEPT ![item].status = "completed"])
FailBump(item) ==
  /\ bumps[item].status = "running"
  /\ \E ending \in Endings : BumpMoves(pulls, [bumps EXCEPT ![item].status = ending])

DecidePull(pull) ==
  /\ pull.state = "open"
  /\ \/ BumpMoves((pulls \ {pull}) \cup {[pull EXCEPT !.state = "merged", !.merged = 0]}, bumps)
     \/ BumpMoves((pulls \ {pull}) \cup {[pull EXCEPT !.state = "closed"]}, bumps)

RootMoves(root, statuses, dead, live) ==
  /\ rootEvents < MaxRootEvents /\ rootEvents' = rootEvents + 1
  /\ roots' = [roots EXCEPT ![root] = statuses]
  /\ Happens("roots", dead, live)
  /\ UNCHANGED <<pulls, bumps, reviews>>

\* By the starter, or by the watchdog.
StartRoot(root) ==
  /\ Startable(roots[root])
  /\ RootMoves(root, Append(roots[root], "running"), {}, {root})
TurnRoot(root) ==
  /\ Running(root)
  /\ RootMoves(root, Append([roots[root] EXCEPT ![Len(roots[root])] = "continued_as_new"], "running"),
               {}, {})
RootDies(root) ==
  /\ Running(root)
  /\ \E ending \in Endings :
       RootMoves(root, [roots[root] EXCEPT ![Len(roots[root])] = ending], {root}, {})

ReviewMoves(r) ==
  /\ reviews' = r
  /\ Happens("reviews", {}, {})
  /\ UNCHANGED <<pulls, bumps, roots, rootEvents>>
StartReview(item) ==
  /\ reviews[item].status = "none"
  /\ ReviewMoves([reviews EXCEPT ![item].status = "running"])
EndReview(item) ==
  /\ reviews[item].status = "running"
  /\ Cardinality({i \in Started(reviews) : reviews[i].status # "running"}) < MaxEnded
  /\ \/ \E findings \in 0..1 :
          ReviewMoves([reviews EXCEPT ![item] = [status |-> "completed", findings |-> findings]])
     \/ \E ending \in Endings : ReviewMoves([reviews EXCEPT ![item].status = ending])

World ==
  \/ \E item \in Proposable : \/ StartBump(item) \/ Record(item)
                              \/ CompleteBump(item) \/ FailBump(item)
  \/ \E pull \in pulls : DecidePull(pull)
  \/ \E root \in Moving : StartRoot(root) \/ TurnRoot(root) \/ RootDies(root)
  \/ \E item \in Reviewable : StartReview(item) \/ EndReview(item)

-----------------------------------------------------------------------------
(* The request.                                                            *)

IdOf(item) ==
  BumpWorkflowId(item.repo,
    [kind |-> "bump", package |-> item.package, target |-> item.target], item.loop)
IdOfReview(item) == ReviewId(item.repo, Advisory, item.number, item.head)

\* What Temporal lists, and what froot reads of it: the outcome of a bump that
\* completed, the result of a review that did, if the result decodes.
RootId(root) == IF root[2] = Advisory THEN ReviewLoopId(root[1], root[2])
                ELSE ScanWorkflowId(root[1], root[2])
Execution(root, i) ==
  [loop |-> root[2], id |-> RootId(root), status |-> roots[root][i], start |-> i]
Executions(loops) ==
  UNION {{Execution(root, i) : i \in DOMAIN roots[root]} : root \in {r \in Roots : r[2] \in loops}}
BumpExecution(item, decoded) ==
  LET bump == bumps[item]
      read == bump.status = "completed" /\ decoded
  IN [id |-> IdOf(item), status |-> bump.status, repo |-> item.repo,
      number  |-> IF read THEN bump.number ELSE 0,
      verdict |-> IF read THEN bump.verdict ELSE "none",
      ci      |-> IF read THEN bump.ci ELSE "none"]
ReviewExecution(item, decoded) ==
  LET review == reviews[item]
      read == review.status = "completed" /\ decoded
  IN [loop |-> Advisory, id |-> IdOfReview(item), status |-> review.status,
      number   |-> IF read THEN item.number ELSE "none",
      findings |-> IF read THEN review.findings ELSE 0]
ListedAs(kind, lost) ==
  CASE kind = "scans"    -> Executions(Loops)
    [] kind = "bumps"    -> {BumpExecution(i, i \notin lost) : i \in Started(bumps)}
    [] kind = "advisory" -> Executions({Advisory})
    [] kind = "reviews"  -> {ReviewExecution(i, i \notin lost) : i \in Started(reviews)}
\* Mutant of Taken: counted before it is yielded, one too few.
TakenOneFewer(listed) ==
  IF Cardinality(listed) <= MaxPerType THEN {listed} ELSE kSubset(MaxPerType - 1, listed)

\* _take: any so many, as froot asks Temporal for no order.
Taken(listed) ==
  IF Cardinality(listed) <= MaxPerType THEN {listed} ELSE kSubset(MaxPerType, listed)
After(kind) ==
  CASE kind = "scans" -> "bumps" [] kind = "bumps" -> "advisory"
    [] kind = "advisory" -> "reviews" [] kind = "reviews" -> "done"

\* The request arrives.
Request ==
  /\ page.at # "reading"
  /\ page' = [IdlePage EXCEPT !.at = "reading", !.todo = Watched,
       !.asked = [pulls |-> {<<p.repo, p.number>> : p \in pulls},
                  failed |-> {i \in Started(bumps) : bumps[i].status \in Endings},
                  read |-> {i \in Started(bumps) : bumps[i].status = "completed"},
                  reviews |-> Started(reviews),
                  flapping |-> {r \in Roots : Cardinality(Deaths(r)) >= 2}],
       !.dead = {r \in Roots : ~Running(r)}, !.live = {r \in Roots : Running(r)}]
  /\ UNCHANGED <<worldVars, faults>>

Reads(p) == page.at = "reading" /\ page' = p /\ UNCHANGED worldVars
Fails == faults < MaxFaults /\ faults' = faults + 1

\* The next repository: one page of its pull requests, the newest.
Newer(repo, number) == {n \in {p.number : p \in {q \in pulls : q.repo = repo}} : n > number}
Newest(repo) ==
  {p \in pulls : p.repo = repo /\ Cardinality(Newer(repo, p.number)) < PerPage}
Fetch ==
  /\ page.todo # <<>>
  /\ Reads([page EXCEPT !.todo = Tail(@), !.prs = @ \cup Newest(Head(page.todo))])
  /\ UNCHANGED faults
FetchFails ==
  /\ page.todo # <<>>
  /\ Reads([page EXCEPT !.todo = <<>>, !.githubError = TRUE]) /\ Fails

\* The next kind, in one request: as much of it as is taken, or with a result
\* that does not decode, or with an error that ends the reading after some.
List ==
  /\ page.next # "done"
  /\ \E taken \in Taken(ListedAs(page.next, {})) :
       Reads([page EXCEPT !.next = After(@), !.ledger[page.next] = taken])
  /\ UNCHANGED faults
ListUndecoded ==
  /\ page.next \in {"bumps", "reviews"}
  /\ \E item \in IF page.next = "bumps" THEN Started(bumps) ELSE Started(reviews) :
       \E taken \in Taken(ListedAs(page.next, {item})) :
         Reads([page EXCEPT !.next = After(@), !.undecoded = TRUE, !.ledger[page.next] = taken])
  /\ Fails
ListFails ==
  /\ page.next # "done"
  /\ \E some \in {x \in SUBSET ListedAs(page.next, {}) :
                    Cardinality(x) <= MaxBefore /\ Cardinality(x) < MaxPerType} :
       Reads([page EXCEPT !.next = "done", !.temporalError = TRUE, !.ledger[page.next] = some])
  /\ Fails

\* What the merge commits say; a failure loses the rest and is only logged.
Merged == {<<p.repo, p.number>> : p \in {q \in page.prs : q.state = "merged"}}
FetchOutcomes ==
  /\ page.todo = <<>> /\ page.next = "done"
  /\ \E read \in SUBSET Merged :
       /\ \E said \in [read -> {"held", "broke"}] :
            Reads([page EXCEPT !.at = "shown",
              !.outcomes = [key \in Keys |-> IF key \in read THEN said[key] ELSE @[key]]])
       /\ IF read = Merged THEN UNCHANGED faults ELSE Fails

BuildHtml == Request \/ Fetch \/ FetchFails \/ List \/ ListUndecoded \/ ListFails \/ FetchOutcomes

Next == World \/ BuildHtml

Spec == Init /\ [][Next]_vars

-----------------------------------------------------------------------------
(* The page shown.                                                         *)

Read == [repos |-> Repos, loops |-> Loops, policy |-> Policy, environment |-> Environment,
         now |-> 0, prs |-> page.prs, githubError |-> page.githubError,
         temporalError |-> page.temporalError, scans |-> page.ledger["scans"],
         bumps |-> page.ledger["bumps"], advisory |-> page.ledger["advisory"],
         reviews |-> page.ledger["reviews"], outcomes |-> page.outcomes]
Shown == Assemble(Read, {Advisory})
IsShown == page.at = "shown"

-----------------------------------------------------------------------------
(* Properties.                                                             *)

\* Types.  A row of a root that proposes may say none, one of a root that
\* comments has run.
Pulls == [repo : Repos, number : Numbers, loop : Loops, env : {Environment},
          to : {p.target : p \in Proposable}, verdict : {r.verdict : r \in Readings},
          state : {"open", "merged", "closed"}, opened : {0}, merged : {0, NoTime}]
TypeOK ==
  /\ pulls \subseteq Pulls /\ page.prs \subseteq Pulls
  /\ \A root \in Roots : \A i \in DOMAIN roots[root] : roots[root][i] \in Statuses
  /\ faults \in 0..MaxFaults /\ rootEvents \in 0..MaxRootEvents
  /\ page.at \in {"idle", "reading", "shown"} /\ page.next \in Kinds \cup {"done"}
  /\ IsShown =>
       LET shown == Shown
       IN /\ \A row \in shown.scanLoops : row.status \in Statuses \cup {"none"}
          /\ \A view \in shown.advisory : \A row \in view.loops : row.status \in Statuses

\* A row says of CI only what its own bump came to, and of the verdict what its
\* own pull request says: never those of a like-numbered one elsewhere.
RowsAreTheirOwn ==
  IsShown => \A row \in Shown.bumps :
    /\ \E p \in pulls : /\ p.repo = row.repo /\ p.number = row.number
                        /\ p.verdict = row.verdict
    /\ \/ row.ci = "none"
       \/ \E i \in Started(bumps) :
            /\ i.repo = row.repo /\ bumps[i].number = row.number
            /\ bumps[i].status = "completed" /\ bumps[i].ci = row.ci

\* What is told by an id is told of its own: a failure is on the tab of the loop
\* whose bump failed, a review under the repository it was made in, although ids
\* begin with the repository, the name of one begins that of another and the
\* default loop has no segment of its own.
ToldOfTheirOwn ==
  IsShown =>
    LET shown == Shown
    IN /\ \A view \in shown.bumpLoops : \A f \in view.failures :
            \E i \in Started(bumps) : IdOf(i) = f.id /\ i.loop = view.loop
       /\ \A view \in shown.advisory : \A row \in view.rows :
            \E i \in Started(reviews) : IdOfReview(i) = row.id /\ row.repo = {i.repo}

\* What it rests on: no two repositories have one name once owner and name are
\* joined, none has that of one with a number of its pull requests after it, and
\* none is called like a loop.
FullName(repo) == Join(RepoParts(repo))
NamesTell ==
  /\ \A r, s \in Repos : FullName(r) = FullName(s) => r = s
  /\ \A i \in Reviewable, r \in Repos :
       FullName(r) # FullName(i.repo) \o <<Hyphen>> \o <<i.number>>
  /\ \A r \in Repos, l \in Loops \ {"dependency-patch"} :
       LET name   == FullName(r) \o <<Hyphen>>
           marked == Words(l) \o <<Hyphen>>
       IN ~IsPrefix(name, marked) /\ ~IsPrefix(marked, name)

\* What the next two rest on: two roots have two ids.
RootsApart == \A r, s \in Roots : RootId(r) = RootId(s) => r = s

\* A list that has as many as are taken: there may be more.
Full(kind) == Cardinality(page.ledger[kind]) >= MaxPerType
KindOf(loop) == IF loop = Advisory THEN "advisory" ELSE "scans"

\* If Temporal answered, a root is shown dead or live only if it was so at some
\* moment since the request, however often it was revived before, unless the
\* list of its kind is full.
RootRows ==
  LET shown == Shown
  IN shown.scanLoops \cup UNION {view.loops : view \in shown.advisory}
LivenessWasSo ==
  IsShown /\ ~page.temporalError => \A row \in RootRows :
    \/ Full(KindOf(row.loop))
    \/ <<row.repo, row.loop>> \in (IF row.live THEN page.live ELSE page.dead)

\* If Temporal answered, a root is shown to flap only if it did die twice, and
\* each that had at the request is, unless the list of its kind is full; one
\* that continues as new does not flap.
FlapsForCause ==
  IsShown /\ ~page.temporalError =>
    LET shown == {<<f.repo, f.loop>> : f \in Shown.flapping}
    IN /\ \A root \in shown : Cardinality(Deaths(root)) >= 2
       /\ \A root \in page.asked.flapping : root \in shown \/ Full(KindOf(root[2]))

\* If both answered, what there was at the request is missing on the page only
\* for cause: a pull request, if newer ones of its repository fill a page; the
\* failure of a bump, the reading of one that was over, and a review, if others
\* fill the list.
MissingForCause ==
  IsShown /\ ~page.githubError /\ ~page.temporalError =>
    LET shown == Shown
    IN /\ \A k \in page.asked.pulls :
            \/ \E p \in page.prs : p.repo = k[1] /\ p.number = k[2]
            \/ Cardinality(Newer(k[1], k[2])) >= PerPage
       /\ \/ Full("bumps")
          \/ /\ \A i \in page.asked.failed : \E f \in shown.failures : f.id = IdOf(i)
             /\ ~page.undecoded => \A i \in page.asked.read : \A row \in shown.bumps :
                  row.repo = i.repo /\ row.number = bumps[i].number => row.ci = bumps[i].ci
       /\ \A i \in page.asked.reviews :
            \/ Full("reviews")
            \/ \E view \in shown.advisory : \E row \in view.rows : row.id = IdOfReview(i)

\* Over the tabs each pull request is counted once, as a bump or as a planted
\* one, and no class is judged by a planted one.
TabSum(Value(_), views) == MapThenSumSet(Value, views)
CountedOnce ==
  IsShown =>
    LET shown == Shown
    IN /\ Cardinality(page.prs) =
            TabSum(LAMBDA v : v.trackRecord.opened, shown.bumpLoops) +
            TabSum(LAMBDA v : v.probes["caught"] + v.probes["escaped"] + v.probes["pending"],
                   shown.bumpLoops)
       /\ \A g \in shown.classGates :
            g.standing.decided + g.priorEnvDecided =
              Cardinality({p \in page.prs : /\ p.repo = g.repo /\ p.loop = g.loop
                                            /\ p.state # "open" /\ ~IsCanary(p.to)})

\* Of a class that no planted bump was decided in, the page and the acting gate
\* say the same of the same answers, although the gate asks of its repository
\* alone and of no execution.
PanelAndGateAgree ==
  IsShown => \A g \in Shown.classGates :
    LET prs == {p \in page.prs : p.repo = g.repo}
    IN (\A p \in prs : p.loop = g.loop /\ IsCanary(p.to) => p.state = "open") =>
         (g.earned <=> EarnedNow(0, prs, page.outcomes, g.repo, g.loop, Policy, Environment))
=============================================================================
