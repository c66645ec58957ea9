------------------------------ MODULE Panel_proofs ------------------------------
(***************************************************************************)
(* What a page says, for any repositories, loops, bumps, roots, reviews    *)
(* and failures of the sources: it was so, it is told of the right thing,  *)
(* and, if the sources answered, what is missing is past their limits.     *)
(***************************************************************************)
EXTENDS Panel, Names_proofs

\* Types.
RootStatuses == Endings \cup LiveStatuses
Verdicts     == {r.verdict : r \in Readings}
BumpStates ==
  [status : {"none", "running", "completed"} \cup Endings, number : Nat,
   verdict : Verdicts \cup {"none"}, ci : {r.ci : r \in Readings} \cup {"none"}]
ReviewStates == [status : {"none", "running", "completed"} \cup Endings, findings : 0..1]
RootEntries ==
  [loop : CommitLoops \cup AdvisoryLoops, id : {RootId(r) : r \in Roots},
   status : RootStatuses, start : Nat]
BumpEntries ==
  [id : {IdOf(i) : i \in Proposable}, status : {"running", "completed"} \cup Endings,
   repo : Repos, number : Nat, verdict : Verdicts \cup {"none"},
   ci : {r.ci : r \in Readings} \cup {"none"}]
ReviewEntries ==
  [loop : {Advisory}, id : {IdOfReview(i) : i \in Reviewable},
   status : {"running", "completed"} \cup Endings,
   number : {i.number : i \in Reviewable} \cup {"none"}, findings : 0..1]
Entries == RootEntries \cup BumpEntries \cup ReviewEntries
Askings == [pulls : SUBSET Keys, failed : SUBSET Proposable, read : SUBSET Proposable,
            reviews : SUBSET Reviewable, flapping : SUBSET Roots]
Pages ==
  [at : {"idle", "reading", "shown"}, todo : Seq(Repos), next : Kinds \cup {"done"},
   prs : SUBSET Pulls, ledger : [Kinds -> SUBSET Entries],
   outcomes : [Keys -> {"none", "held", "broke"}],
   githubError : BOOLEAN, temporalError : BOOLEAN, undecoded : BOOLEAN, meanwhile : Nat,
   asked : Askings, dead : SUBSET Roots, live : SUBSET Roots]

WorldTypes ==
  /\ pulls \subseteq Pulls /\ IsFiniteSet(pulls)
  /\ bumps \in [Proposable -> BumpStates]
  /\ roots \in [Roots -> Seq(RootStatuses)]
  /\ reviews \in [Reviewable -> ReviewStates]
  /\ faults \in 0..MaxFaults /\ rootEvents \in 0..MaxRootEvents

\* A pull request is of one bump, whose verdict it has; of one number there is
\* one per repository, and no number is past the count.  No removal is planted.
Numbered == {i \in Proposable : bumps[i].number # 0}
PullsOf(repo) == {p \in pulls : p.repo = repo}
PullsInStep ==
  /\ \A p \in pulls : p.number <= Cardinality(PullsOf(p.repo))
  /\ \A p, q \in pulls : p.repo = q.repo /\ p.number = q.number => p = q
  /\ \A p \in pulls : p.loop = "dead-code" => ~IsCanary(p.to)
BumpsInStep ==
  /\ IsFiniteSet(Started(bumps)) /\ Cardinality(Started(bumps)) <= MaxBumps
  /\ Numbered \subseteq Started(bumps) /\ Cardinality(pulls) <= Cardinality(Numbered)
  /\ \A i \in Proposable : bumps[i].status = "completed" => i \in Numbered
  /\ \A i \in Numbered : \E p \in pulls : /\ p.repo = i.repo /\ p.number = bumps[i].number
                                          /\ p.verdict = bumps[i].verdict
  /\ \A i, j \in Numbered :
       i.repo = j.repo /\ bumps[i].number = bumps[j].number => i = j

\* The newest execution of a root is under way or has failed.
LastSays(executions) ==
  executions # <<>> => executions[Len(executions)] \in {"running"} \cup Endings
RootsInStep ==
  \A root \in Roots : Len(roots[root]) <= rootEvents + 1 /\ LastSays(roots[root])

WorldInductive == WorldTypes /\ PullsInStep /\ BumpsInStep /\ RootsInStep

\* What was read of a pull request stays, but for how it was decided.
Same(p, q) == /\ p.repo = q.repo /\ p.number = q.number /\ p.loop = q.loop
              /\ p.env = q.env /\ p.to = q.to /\ p.verdict = q.verdict
PrsStand == IsFiniteSet(page.prs) /\ \A p \in page.prs : \E q \in pulls : Same(p, q)
AskedStands ==
  /\ \A k \in page.asked.pulls : \E q \in pulls : q.repo = k[1] /\ q.number = k[2]
  /\ \A i \in page.asked.failed : bumps[i].status \in Endings
  /\ \A i \in page.asked.read : bumps[i].status = "completed"
  /\ \A i \in page.asked.reviews : reviews[i].status # "none"
BumpsStand ==
  /\ page.ledger["bumps"] \subseteq BumpEntries
  /\ \A b \in page.ledger["bumps"] : \E i \in Started(bumps) :
       /\ b.id = IdOf(i) /\ b.repo = i.repo
       /\ b.number # 0 => /\ bumps[i].status = "completed" /\ b.number = bumps[i].number
                          /\ b.verdict = bumps[i].verdict /\ b.ci = bumps[i].ci
RootEntriesStand ==
  \A kind \in {"scans", "advisory"} : page.ledger[kind] \subseteq RootEntries
     /\ \A e \in page.ledger[kind] : e.start <= MaxRootEvents + 1
ReviewsStand ==
  /\ page.ledger["reviews"] \subseteq ReviewEntries
  /\ \A e \in page.ledger["reviews"] : \E i \in Started(reviews) : e.id = IdOfReview(i)

\* What is there once it has been listed without an error.
Listed == CASE page.next = "scans"    -> {}
            [] page.next = "bumps"    -> {"scans"}
            [] page.next = "advisory" -> {"scans", "bumps"}
            [] page.next = "reviews"  -> {"scans", "bumps", "advisory"}
            [] page.next = "done"     -> Kinds
GithubTold ==
  ~page.githubError => \A k \in page.asked.pulls :
    \/ k[1] \in Range(page.todo)
    \/ \E p \in page.prs : p.repo = k[1] /\ p.number = k[2]
    \/ Cardinality(Newer(k[1], k[2])) >= PerPage
BumpsTold ==
  "bumps" \in Listed /\ ~page.temporalError /\ ~Full("bumps") =>
    /\ \A i \in page.asked.failed : \E b \in page.ledger["bumps"] :
         b.id = IdOf(i) /\ b.status \in FailureStatuses
    /\ ~page.undecoded => \A i \in page.asked.read : \E b \in page.ledger["bumps"] :
         b.repo = i.repo /\ b.number = bumps[i].number
ReviewsTold ==
  "reviews" \in Listed /\ ~page.temporalError /\ ~Full("reviews") =>
    \A i \in page.asked.reviews : \E e \in page.ledger["reviews"] :
      e.loop = Advisory /\ e.id = IdOfReview(i)

\* The executions of roots, as they were at one moment since the request: all
\* of them, or as many as fill the list.
ExecutionsIn(past, loops) ==
  UNION {{[loop |-> root[2], id |-> RootId(root), status |-> past[root][i], start |-> i] :
            i \in DOMAIN past[root]} : root \in {r \in Roots : r[2] \in loops}}
DeathsIn(past, root) == {i \in DOMAIN past[root] : past[root][i] \in Endings}
Ran(executions) == executions # <<>> /\ executions[Len(executions)] = "running"
Were(past, root) ==
  /\ LastSays(past[root])
  /\ Ran(past[root]) => root \in page.live
  /\ ~Ran(past[root]) => root \in page.dead
  /\ DeathsIn(past, root) \subseteq Deaths(root)
  /\ root \in page.asked.flapping => Cardinality(DeathsIn(past, root)) >= 2
RootsTold(kind, loops) ==
  kind \in Listed /\ ~page.temporalError =>
    \E past \in [Roots -> Seq(RootStatuses)] :
      /\ page.ledger[kind] \subseteq ExecutionsIn(past, loops)
      /\ page.ledger[kind] = ExecutionsIn(past, loops) \/ Full(kind)
      /\ \A root \in Roots : Were(past, root)
RootsWatched ==
  page.at = "reading" => \A root \in Roots :
    /\ Running(root) => root \in page.live
    /\ ~Running(root) => root \in page.dead
    /\ root \in page.asked.flapping => Cardinality(Deaths(root)) >= 2

AllAsked == page.at = "shown" => page.todo = <<>> /\ page.next = "done"

PageTrue == PrsStand /\ AskedStands /\ BumpsStand /\ RootEntriesStand /\ ReviewsStand
PageTold == /\ GithubTold /\ BumpsTold /\ ReviewsTold
            /\ RootsTold("scans", Loops) /\ RootsTold("advisory", {Advisory})
PageInductive == page \in Pages /\ PageTrue /\ PageTold /\ RootsWatched /\ AllAsked
PanelInductive == WorldInductive /\ PageInductive

-----------------------------------------------------------------------------
(* Constants.                                                              *)

LEMMA Constants ==
  /\ Loops \subseteq CommitLoops /\ Advisory \in AdvisoryLoops /\ Advisory \notin Loops
  /\ \A p \in Proposable : p.repo \in Repos /\ p.loop \in Loops
  /\ \A p \in Proposable : p.loop = "dead-code" => ~IsCanary(p.target)
  /\ \A r \in Reviewable : r.repo \in Repos
  /\ Moving \subseteq Roots
  /\ Endings \subseteq FailureStatuses /\ "none" \notin Endings /\ "running" \notin Endings
  /\ "completed" \notin Endings /\ "continued_as_new" \notin Endings
  /\ PerPage \in Nat /\ PerPage > 0 /\ MaxPerType \in Nat /\ MaxPerType > 0
  /\ MaxBumps \in Nat /\ MaxRootEvents \in Nat /\ MaxMeanwhile \in Nat
  /\ MaxBefore \in Nat /\ MaxFaults \in Nat
  BY PanelAssumption DEF CommitLoops, AdvisoryLoops, FailureStatuses, IsCanary

LEMMA IntoRange ==
  ASSUME NEW S, NEW s \in Seq(S)
  PROVE  s \in Seq(Range(s))
<1>1. Len(s) \in Nat /\ DOMAIN s = 1..Len(s) /\ s \in [1..Len(s) -> S]
  OBVIOUS
<1>2. s \in [1..Len(s) -> Range(s)]
  BY <1>1 DEF Range
<1> QED BY <1>1, <1>2

LEMMA WatchedIs == Watched \in Seq(Repos)
<1>1. Watched \in Seq([owner : Texts, name : Texts])
  BY PanelAssumption
<1> QED BY <1>1, IntoRange DEF Repos

\* The roots are those of the loops that propose and of the one that comments.
LEMMA RootsAre ==
  /\ \A root \in Roots : /\ root = <<root[1], root[2]>> /\ root[1] \in Repos
                         /\ root[2] \in Loops \cup {Advisory}
  /\ \A repo \in Repos, loop \in Loops : <<repo, loop>> \in Roots
  /\ \A repo \in Repos : <<repo, Advisory>> \in Roots
<1>1. Loops \cap CommitLoops = Loops /\ {Advisory} \cap AdvisoryLoops = {Advisory}
  BY Constants
<1>2. Plans(Repos, Loops, {Advisory}) =
        {ScanStart(r, l) : r \in Repos, l \in Loops}
        \cup {AdvisoryStart(r, l) : r \in Repos, l \in {Advisory}}
  BY <1>1 DEF Plans
<1>3. \A root \in Roots : /\ root = <<root[1], root[2]>> /\ root[1] \in Repos
                         /\ root[2] \in Loops \cup {Advisory}
  <2> SUFFICES ASSUME NEW root \in Roots
               PROVE  /\ root = <<root[1], root[2]>> /\ root[1] \in Repos
                      /\ root[2] \in Loops \cup {Advisory}
    OBVIOUS
  <2>1. PICK plan \in Plans(Repos, Loops, {Advisory}) : root = <<plan.repo, plan.loop>>
    BY DEF Roots
  <2>2. plan.repo \in Repos /\ plan.loop \in Loops \cup {Advisory}
    BY <1>2, <2>1 DEF ScanStart, AdvisoryStart
  <2> QED BY <2>1, <2>2
<1>4. \A repo \in Repos, loop \in Loops : <<repo, loop>> \in Roots
  <2> SUFFICES ASSUME NEW repo \in Repos, NEW loop \in Loops PROVE <<repo, loop>> \in Roots
    OBVIOUS
  <2>1. ScanStart(repo, loop) \in Plans(Repos, Loops, {Advisory})
    BY <1>2
  <2>2. ScanStart(repo, loop).repo = repo /\ ScanStart(repo, loop).loop = loop
    BY DEF ScanStart
  <2> QED BY <2>1, <2>2 DEF Roots
<1>5. \A repo \in Repos : <<repo, Advisory>> \in Roots
  <2> SUFFICES ASSUME NEW repo \in Repos PROVE <<repo, Advisory>> \in Roots
    OBVIOUS
  <2>1. AdvisoryStart(repo, Advisory) \in Plans(Repos, Loops, {Advisory})
    BY <1>2
  <2>2. AdvisoryStart(repo, Advisory).repo = repo /\ AdvisoryStart(repo, Advisory).loop = Advisory
    BY DEF AdvisoryStart
  <2> QED BY <2>1, <2>2 DEF Roots
<1> QED BY <1>3, <1>4, <1>5

\* A longer list of executions.
LEMMA AppendIs ==
  ASSUME NEW S, NEW s \in Seq(S), NEW x \in S
  PROVE  /\ Append(s, x) \in Seq(S) /\ Len(Append(s, x)) = Len(s) + 1
         /\ Append(s, x)[Len(s) + 1] = x /\ Append(s, x) # <<>>
         /\ \A i \in 1..Len(s) : Append(s, x)[i] = s[i]
         /\ DOMAIN Append(s, x) = 1..(Len(s) + 1)
  BY SMT

LEMMA ReplaceLast ==
  ASSUME NEW S, NEW s \in Seq(S), s # <<>>, NEW x \in S
  PROVE  LET t == [s EXCEPT ![Len(s)] = x]
         IN  /\ t \in Seq(S) /\ Len(t) = Len(s) /\ t[Len(s)] = x /\ t # <<>>
             /\ \A i \in 1..(Len(s) - 1) : t[i] = s[i]
             /\ DOMAIN t = 1..Len(s)
  BY SMT

LEMMA SequenceIs ==
  ASSUME NEW S, NEW s \in Seq(S)
  PROVE  /\ Len(s) \in Nat /\ DOMAIN s = 1..Len(s) /\ \A i \in DOMAIN s : s[i] \in S
         /\ s # <<>> => Len(s) \in DOMAIN s /\ Len(s) >= 1
         /\ s = <<>> => DOMAIN s = {}
  BY SMT

LEMMA SubsetCounts ==
  ASSUME NEW S, NEW T, IsFiniteSet(T), S \subseteq T
  PROVE  /\ IsFiniteSet(S) /\ Cardinality(S) \in Nat /\ Cardinality(T) \in Nat
         /\ Cardinality(S) <= Cardinality(T)
  BY FS_Subset, FS_CardinalityType

-----------------------------------------------------------------------------
(* The world: what its moves keep.                                         *)

WorldMoves ==
  /\ \A q \in pulls : \E p \in pulls' : Same(q, p)
  /\ \A i \in Proposable :
       /\ bumps[i].status \in Endings \cup {"completed"} => bumps'[i] = bumps[i]
       /\ bumps[i].status # "none" => bumps'[i].status # "none"
  /\ \A i \in Reviewable : reviews[i].status # "none" => reviews'[i].status # "none"
  /\ \A root \in Roots : Deaths(root) \subseteq Deaths(root)'

LEMMA BumpIs ==
  ASSUME WorldInductive, NEW i \in Proposable
  PROVE  /\ bumps \in [Proposable -> BumpStates] /\ bumps[i] \in BumpStates
         /\ Started(bumps) = {j \in Proposable : bumps[j].status # "none"}
         /\ Started(bumps) \subseteq Proposable
  BY DEF WorldInductive, WorldTypes, Started

\* The rest of the world stands still while a bump moves.
LEMMA RootsStay ==
  ASSUME WorldInductive, UNCHANGED <<roots, rootEvents>>
  PROVE  RootsInStep' /\ \A root \in Roots : Deaths(root) \subseteq Deaths(root)'
  BY DEF WorldInductive, RootsInStep, LastSays, Deaths

\* A bump changes but keeps its number and verdict.
LEMMA BumpTurns ==
  ASSUME WorldInductive, NEW item \in Proposable, NEW b \in BumpStates,
         bumps[item].status = "running", b.status # "none", b.number = bumps[item].number,
         b.verdict = bumps[item].verdict, b.status = "completed" => b.number # 0,
         bumps' = [bumps EXCEPT ![item] = b],
         UNCHANGED <<pulls, roots, reviews, rootEvents, faults>>
  PROVE  WorldInductive' /\ WorldMoves
<1>1. /\ bumps' \in [Proposable -> BumpStates]
      /\ \A i \in Proposable : bumps'[i] = IF i = item THEN b ELSE bumps[i]
  BY BumpIs
<1>2. WorldTypes'
  BY <1>1 DEF WorldInductive, WorldTypes
<1>3. Started(bumps)' = Started(bumps)
  BY <1>1, BumpIs DEF Started
<1>4. Numbered' = Numbered
  BY <1>1 DEF Numbered
<1>5. BumpsInStep'
  <2>1. /\ IsFiniteSet(Started(bumps)') /\ Cardinality(Started(bumps)') <= MaxBumps
        /\ Numbered' \subseteq Started(bumps)' /\ Cardinality(pulls') <= Cardinality(Numbered')
    BY <1>3, <1>4 DEF WorldInductive, BumpsInStep
  <2>2. \A i \in Proposable : bumps'[i].status = "completed" => i \in Numbered'
    BY <1>1, <1>4 DEF WorldInductive, BumpsInStep, Numbered
  <2>3. \A i \in Numbered' : \E p \in pulls' : /\ p.repo = i.repo /\ p.number = bumps'[i].number
                                               /\ p.verdict = bumps'[i].verdict
    BY <1>1, <1>4 DEF WorldInductive, BumpsInStep, Numbered
  <2>4. \A i, j \in Numbered' :
          i.repo = j.repo /\ bumps'[i].number = bumps'[j].number => i = j
    BY <1>1, <1>4 DEF WorldInductive, BumpsInStep, Numbered
  <2> QED BY <2>1, <2>2, <2>3, <2>4 DEF BumpsInStep
<1>6. PullsInStep'
  BY DEF WorldInductive, PullsInStep, PullsOf
<1>7. WorldMoves
  BY <1>1, RootsStay, Constants DEF WorldMoves, Same
<1> QED BY <1>2, <1>5, <1>6, <1>7, RootsStay DEF WorldInductive

LEMMA StartBumpKeeps ==
  ASSUME WorldInductive, NEW item \in Proposable, StartBump(item)
  PROVE  WorldInductive' /\ WorldMoves
<1> DEFINE b == [bumps[item] EXCEPT !.status = "running"]
<1>0. /\ bumps[item].status = "none" /\ Cardinality(Started(bumps)) < MaxBumps
      /\ bumps' = [bumps EXCEPT ![item].status = "running"]
      /\ UNCHANGED <<pulls, roots, reviews, rootEvents, faults>>
  BY DEF StartBump, BumpMoves, Happens
<1>1. b \in BumpStates /\ b.status = "running" /\ b.number = bumps[item].number
  BY BumpIs DEF BumpStates
<1>2. /\ bumps' \in [Proposable -> BumpStates]
      /\ \A i \in Proposable : bumps'[i] = IF i = item THEN b ELSE bumps[i]
  BY <1>0, <1>1, BumpIs
<1>3. item \notin Numbered
  BY <1>0, BumpIs DEF WorldInductive, BumpsInStep
<1> HIDE DEF b
<1>4. WorldTypes'
  BY <1>0, <1>2 DEF WorldInductive, WorldTypes
<1>5. Started(bumps)' = Started(bumps) \cup {item}
  BY <1>1, <1>2, BumpIs DEF Started
<1>6. Numbered' = Numbered
  BY <1>1, <1>2, <1>3 DEF Numbered
<1>7. BumpsInStep'
  <2>1. /\ IsFiniteSet(Started(bumps)') /\ Cardinality(Started(bumps)') <= MaxBumps
    <3>1. IsFiniteSet(Started(bumps)) /\ Cardinality(Started(bumps)) \in Nat
      BY FS_CardinalityType DEF WorldInductive, BumpsInStep
    <3>2. /\ IsFiniteSet(Started(bumps) \cup {item})
          /\ Cardinality(Started(bumps) \cup {item}) <= Cardinality(Started(bumps)) + 1
      BY <3>1, FS_AddElement
    <3>3. IsFiniteSet(Started(bumps) \cup {item}) /\ Cardinality(Started(bumps) \cup {item}) \in Nat
      BY <3>2, FS_CardinalityType
    <3>4. Cardinality(Started(bumps) \cup {item}) <= MaxBumps
      BY <1>0, <3>1, <3>2, <3>3, Constants
    <3> QED BY <1>5, <3>3, <3>4
  <2>2. Numbered' \subseteq Started(bumps)' /\ Cardinality(pulls') <= Cardinality(Numbered')
    BY <1>0, <1>5, <1>6 DEF WorldInductive, BumpsInStep
  <2>3. \A i \in Proposable : bumps'[i].status = "completed" => i \in Numbered'
    BY <1>1, <1>2, <1>6 DEF WorldInductive, BumpsInStep
  <2>4. \A i \in Numbered : bumps'[i] = bumps[i]
    BY <1>2, <1>3 DEF Numbered
  <2>5. \A i \in Numbered' : \E p \in pulls' : /\ p.repo = i.repo /\ p.number = bumps'[i].number
                                               /\ p.verdict = bumps'[i].verdict
    BY <1>0, <1>6, <2>4 DEF WorldInductive, BumpsInStep
  <2>6. \A i, j \in Numbered' :
          i.repo = j.repo /\ bumps'[i].number = bumps'[j].number => i = j
    BY <1>6, <2>4 DEF WorldInductive, BumpsInStep
  <2> QED BY <2>1, <2>2, <2>3, <2>5, <2>6 DEF BumpsInStep
<1>8. PullsInStep'
  BY <1>0 DEF WorldInductive, PullsInStep, PullsOf
<1>9. WorldMoves
  BY <1>0, <1>1, <1>2, RootsStay, Constants DEF WorldMoves, Same
<1> QED BY <1>0, <1>4, <1>7, <1>8, <1>9, RootsStay DEF WorldInductive

LEMMA CompleteBumpKeeps ==
  ASSUME WorldInductive, NEW item \in Proposable, CompleteBump(item)
  PROVE  WorldInductive' /\ WorldMoves
<1> DEFINE b == [bumps[item] EXCEPT !.status = "completed"]
<1>1. /\ b \in BumpStates /\ b.status = "completed" /\ b.number = bumps[item].number
      /\ b.verdict = bumps[item].verdict
  BY BumpIs DEF BumpStates
<1>2. /\ bumps[item].status = "running" /\ bumps[item].number # 0
      /\ bumps' = [bumps EXCEPT ![item] = b]
      /\ UNCHANGED <<pulls, roots, reviews, rootEvents, faults>>
  BY BumpIs DEF CompleteBump, BumpMoves, Happens
<1> HIDE DEF b
<1> QED BY <1>1, <1>2, BumpTurns

LEMMA FailBumpKeeps ==
  ASSUME WorldInductive, NEW item \in Proposable, FailBump(item)
  PROVE  WorldInductive' /\ WorldMoves
<1>1. PICK ending \in Endings : BumpMoves(pulls, [bumps EXCEPT ![item].status = ending])
  BY DEF FailBump
<1> DEFINE b == [bumps[item] EXCEPT !.status = ending]
<1>2. /\ b \in BumpStates /\ b.status = ending /\ b.number = bumps[item].number
      /\ b.verdict = bumps[item].verdict
  BY BumpIs DEF BumpStates
<1>3. /\ bumps[item].status = "running" /\ bumps' = [bumps EXCEPT ![item] = b]
      /\ UNCHANGED <<pulls, roots, reviews, rootEvents, faults>>
  BY <1>1, BumpIs DEF FailBump, BumpMoves, Happens
<1>4. b.status # "none" /\ b.status # "completed"
  BY <1>2, Constants
<1> HIDE DEF b
<1> QED BY <1>2, <1>3, <1>4, BumpTurns

LEMMA AddOne ==
  ASSUME NEW S, IsFiniteSet(S), NEW x, x \notin S
  PROVE  /\ IsFiniteSet(S \cup {x}) /\ Cardinality(S) \in Nat
         /\ Cardinality(S \cup {x}) = Cardinality(S) + 1
  BY FS_AddElement, FS_CardinalityType

\* A new label: its number is past the count of its repository.
LEMMA RecordKeeps ==
  ASSUME WorldInductive, NEW item \in Proposable, Record(item)
  PROVE  WorldInductive' /\ WorldMoves
<1> DEFINE number == NextNumber(item.repo)
<1>1. PICK reading \in Readings :
        LET pull == [repo |-> item.repo, number |-> number, loop |-> item.loop,
                     env |-> Environment, to |-> item.target, verdict |-> reading.verdict,
                     state |-> IF reading.ci = "failed" THEN "closed" ELSE "open",
                     opened |-> 0, merged |-> NoTime]
        IN BumpMoves(pulls \cup {pull},
             [bumps EXCEPT ![item] = [status |-> "running", number |-> number,
                                      verdict |-> reading.verdict, ci |-> reading.ci]])
  BY DEF Record
<1> DEFINE pull == [repo |-> item.repo, number |-> number, loop |-> item.loop,
                    env |-> Environment, to |-> item.target, verdict |-> reading.verdict,
                    state |-> IF reading.ci = "failed" THEN "closed" ELSE "open",
                    opened |-> 0, merged |-> NoTime]
           b == [status |-> "running", number |-> number,
                 verdict |-> reading.verdict, ci |-> reading.ci]
<1>2. /\ bumps[item].status = "running" /\ bumps[item].number = 0
      /\ pulls' = pulls \cup {pull} /\ bumps' = [bumps EXCEPT ![item] = b]
      /\ UNCHANGED <<roots, reviews, rootEvents, faults>>
  BY <1>1 DEF Record, BumpMoves, Happens
<1>3. /\ IsFiniteSet(PullsOf(item.repo)) /\ Cardinality(PullsOf(item.repo)) \in Nat
      /\ Cardinality(PullsOf(item.repo)) <= Cardinality(pulls) /\ Cardinality(pulls) \in Nat
  BY SubsetCounts DEF WorldInductive, WorldTypes, PullsOf
<1>4. number = Cardinality(PullsOf(item.repo)) + 1 /\ number \in Nat /\ number # 0
  BY <1>3 DEF NextNumber, PullsOf
<1>5. item \notin Numbered /\ item \in Started(bumps)
  BY <1>2, BumpIs DEF Numbered
<1>6. /\ IsFiniteSet(Numbered) /\ IsFiniteSet(Numbered \cup {item})
      /\ Numbered \cup {item} \subseteq Started(bumps)
      /\ Cardinality(Numbered \cup {item}) = Cardinality(Numbered) + 1
      /\ Cardinality(Numbered) \in Nat /\ Cardinality(Numbered) + 1 <= MaxBumps
      /\ Cardinality(pulls) <= Cardinality(Numbered)
  <2>1. /\ IsFiniteSet(Started(bumps)) /\ Cardinality(Started(bumps)) <= MaxBumps
        /\ Numbered \subseteq Started(bumps) /\ Cardinality(pulls) <= Cardinality(Numbered)
    BY DEF WorldInductive, BumpsInStep
  <2>2. /\ Numbered \cup {item} \subseteq Started(bumps) /\ IsFiniteSet(Numbered)
    BY <1>5, <2>1, FS_Subset
  <2>3. /\ IsFiniteSet(Numbered \cup {item})
        /\ Cardinality(Numbered \cup {item}) = Cardinality(Numbered) + 1
        /\ Cardinality(Numbered) \in Nat
    BY <1>5, <2>2, AddOne
  <2>4. /\ Cardinality(Numbered \cup {item}) <= Cardinality(Started(bumps))
        /\ Cardinality(Started(bumps)) \in Nat
    BY <2>1, <2>2, SubsetCounts
  <2> QED BY <2>1, <2>2, <2>3, <2>4, Constants
<1>7. number \in Numbers
  BY <1>3, <1>4, <1>6, Constants DEF Numbers
<1>8. pull \in Pulls
  BY <1>7, Constants DEF Pulls
<1>9. b \in BumpStates /\ b.status = "running" /\ b.number = number /\ b.verdict = pull.verdict
  BY <1>4 DEF BumpStates, Verdicts
<1>10. /\ pull.repo = item.repo /\ pull.number = number
       /\ pull.loop = item.loop /\ pull.to = item.target
  OBVIOUS
<1> HIDE DEF pull, b, number
<1>11. /\ bumps' \in [Proposable -> BumpStates]
       /\ \A i \in Proposable : bumps'[i] = IF i = item THEN b ELSE bumps[i]
  BY <1>2, <1>9, BumpIs
<1>12. pull \notin pulls
  <2> SUFFICES ASSUME pull \in pulls PROVE FALSE
    OBVIOUS
  <2>1. pull.number <= Cardinality(PullsOf(item.repo))
    BY <1>10 DEF WorldInductive, PullsInStep
  <2> QED BY <1>3, <1>4, <1>10, <2>1
<1>13. /\ IsFiniteSet(pulls \cup {pull}) /\ Cardinality(pulls \cup {pull}) = Cardinality(pulls) + 1
  BY <1>12, AddOne DEF WorldInductive, WorldTypes
<1>14. WorldTypes'
  BY <1>2, <1>8, <1>11, <1>13 DEF WorldInductive, WorldTypes
<1>15. Numbered' = Numbered \cup {item}
  BY <1>4, <1>9, <1>11 DEF Numbered
<1>16. Started(bumps)' = Started(bumps)
  BY <1>2, <1>9, <1>11, BumpIs DEF Started
<1>17. BumpsInStep'
  <2>1. /\ IsFiniteSet(Started(bumps)') /\ Cardinality(Started(bumps)') <= MaxBumps
    BY <1>16 DEF WorldInductive, BumpsInStep
  <2>2. Numbered' \subseteq Started(bumps)' /\ Cardinality(pulls') <= Cardinality(Numbered')
    <3>1. Cardinality(pulls) + 1 <= Cardinality(Numbered) + 1
      BY <1>3, <1>6
    <3> QED BY <1>2, <1>6, <1>13, <1>15, <1>16, <3>1
  <2>3. \A i \in Proposable : bumps'[i].status = "completed" => i \in Numbered'
    BY <1>9, <1>11, <1>15 DEF WorldInductive, BumpsInStep
  <2>4. \A i \in Numbered : i # item /\ bumps'[i] = bumps[i]
    BY <1>5, <1>11 DEF Numbered
  <2>5. bumps'[item] = b
    BY <1>11
  <2>6. \A i \in Numbered' : \E p \in pulls' : /\ p.repo = i.repo /\ p.number = bumps'[i].number
                                               /\ p.verdict = bumps'[i].verdict
    BY <1>2, <1>9, <1>10, <1>15, <2>4, <2>5 DEF WorldInductive, BumpsInStep
  <2>7. \A i \in Numbered : i.repo = item.repo => bumps[i].number # number
    <3> SUFFICES ASSUME NEW i \in Numbered, i.repo = item.repo, bumps[i].number = number
                 PROVE  FALSE
      OBVIOUS
    <3>1. PICK p \in pulls : p.repo = i.repo /\ p.number = bumps[i].number
      BY DEF WorldInductive, BumpsInStep
    <3>2. number <= Cardinality(PullsOf(item.repo))
      BY <3>1 DEF WorldInductive, PullsInStep
    <3> QED BY <1>3, <1>4, <3>2
  <2>8. \A i, j \in Numbered' :
          i.repo = j.repo /\ bumps'[i].number = bumps'[j].number => i = j
    <3>1. \A i, j \in Numbered : i.repo = j.repo /\ bumps[i].number = bumps[j].number => i = j
      BY DEF WorldInductive, BumpsInStep
    <3> QED BY <1>9, <1>15, <2>4, <2>5, <2>7, <3>1
  <2> QED BY <2>1, <2>2, <2>3, <2>6, <2>8 DEF BumpsInStep
<1>18. PullsInStep'
  <2>1. \A p \in pulls : p.number <= Cardinality(PullsOf(p.repo)) /\ p.number \in Nat
    BY DEF WorldInductive, WorldTypes, PullsInStep, Pulls, Numbers
  <2>2. \A p, q \in pulls : p.repo = q.repo /\ p.number = q.number => p = q
    BY DEF WorldInductive, PullsInStep
  <2>3. \A r : r # item.repo => PullsOf(r)' = PullsOf(r)
    BY <1>2, <1>10 DEF PullsOf
  <2>4. PullsOf(item.repo)' = PullsOf(item.repo) \cup {pull}
    BY <1>2, <1>10 DEF PullsOf
  <2>5. pull \notin PullsOf(item.repo)
    BY <1>12 DEF PullsOf
  <2>6. Cardinality(PullsOf(item.repo) \cup {pull}) = Cardinality(PullsOf(item.repo)) + 1
    BY <1>3, <2>5, AddOne
  <2>7. \A p \in pulls : p.repo = item.repo => p.number <= Cardinality(PullsOf(item.repo)) + 1
                                               /\ p.number # number
    BY <1>3, <1>4, <2>1
  <2>8. \A p \in pulls' : p.number <= Cardinality(PullsOf(p.repo)')
    <3> SUFFICES ASSUME NEW p \in pulls' PROVE p.number <= Cardinality(PullsOf(p.repo)')
      OBVIOUS
    <3>1. CASE p = pull
      <4>1. PullsOf(p.repo)' = PullsOf(item.repo) \cup {pull} /\ p.number = number
        BY <1>10, <2>4, <3>1
      <4>2. number <= Cardinality(PullsOf(item.repo) \cup {pull})
        BY <1>3, <1>4, <2>6
      <4> QED BY <4>1, <4>2
    <3>2. CASE p # pull /\ p.repo = item.repo
      BY <1>2, <2>4, <2>6, <2>7, <3>2
    <3>3. CASE p # pull /\ p.repo # item.repo
      BY <1>2, <2>1, <2>3, <3>3
    <3> QED BY <3>1, <3>2, <3>3
  <2>9. \A p, q \in pulls' : p.repo = q.repo /\ p.number = q.number => p = q
    BY <1>2, <1>10, <2>2, <2>7
  <2>10. \A p \in pulls' : p.loop = "dead-code" => ~IsCanary(p.to)
    BY <1>2, <1>10, Constants DEF WorldInductive, PullsInStep, IsCanary
  <2> QED BY <2>8, <2>9, <2>10 DEF PullsInStep
<1>19. WorldMoves
  BY <1>2, <1>9, <1>11, RootsStay, Constants DEF WorldMoves, Same
<1> QED BY <1>2, <1>14, <1>17, <1>18, <1>19, RootsStay DEF WorldInductive

\* A decision takes the place of what was undecided.
LEMMA DecidePullKeeps ==
  ASSUME WorldInductive, NEW pull \in pulls, DecidePull(pull)
  PROVE  WorldInductive' /\ WorldMoves
<1>1. PICK q \in {[pull EXCEPT !.state = "merged", !.merged = 0], [pull EXCEPT !.state = "closed"]} :
        BumpMoves((pulls \ {pull}) \cup {q}, bumps)
  BY DEF DecidePull
<1>2. pulls' = (pulls \ {pull}) \cup {q} /\ UNCHANGED <<bumps, roots, reviews, rootEvents, faults>>
  BY <1>1 DEF BumpMoves, Happens
<1>3. pull \in Pulls /\ pulls \subseteq Pulls /\ IsFiniteSet(pulls)
  BY DEF WorldInductive, WorldTypes
<1>4. q \in Pulls /\ Same(pull, q) /\ q.repo = pull.repo /\ q.number = pull.number
      /\ q.verdict = pull.verdict
  BY <1>3 DEF Pulls, Same
<1>5. \A p, r \in pulls : p.repo = r.repo /\ p.number = r.number => p = r
  BY DEF WorldInductive, PullsInStep
<1>6. q \notin pulls \ {pull}
  BY <1>4, <1>5
<1>7. \A S : IsFiniteSet(S) /\ pull \in S /\ q \notin S \ {pull} =>
        /\ IsFiniteSet((S \ {pull}) \cup {q})
        /\ Cardinality((S \ {pull}) \cup {q}) = Cardinality(S)
  <2> SUFFICES ASSUME NEW S, IsFiniteSet(S), pull \in S, q \notin S \ {pull}
               PROVE  /\ IsFiniteSet((S \ {pull}) \cup {q})
                      /\ Cardinality((S \ {pull}) \cup {q}) = Cardinality(S)
    OBVIOUS
  <2>1. /\ IsFiniteSet(S \ {pull}) /\ Cardinality(S \ {pull}) = Cardinality(S) - 1
        /\ Cardinality(S) \in Nat
    BY FS_RemoveElement, FS_CardinalityType
  <2>2. /\ IsFiniteSet((S \ {pull}) \cup {q})
        /\ Cardinality((S \ {pull}) \cup {q}) = Cardinality(S \ {pull}) + 1
    BY <2>1, AddOne
  <2> QED BY <2>1, <2>2
<1>8. IsFiniteSet(pulls') /\ Cardinality(pulls') = Cardinality(pulls)
  BY <1>2, <1>3, <1>6, <1>7
<1>9. WorldTypes'
  BY <1>2, <1>3, <1>4, <1>8 DEF WorldInductive, WorldTypes
<1>10. Started(bumps)' = Started(bumps) /\ Numbered' = Numbered
  BY <1>2 DEF Started, Numbered
<1>11. \A p \in pulls : \E r \in pulls' : Same(p, r)
  BY <1>2, <1>4 DEF Same
<1>12. BumpsInStep'
  <2>1. \A i \in Numbered : \E p \in pulls : /\ p.repo = i.repo /\ p.number = bumps[i].number
                                             /\ p.verdict = bumps[i].verdict
    BY DEF WorldInductive, BumpsInStep
  <2>2. \A i \in Numbered : \E p \in pulls' : /\ p.repo = i.repo /\ p.number = bumps[i].number
                                              /\ p.verdict = bumps[i].verdict
    BY <1>11, <2>1 DEF Same
  <2>3. \A i \in Numbered' : \E p \in pulls' : /\ p.repo = i.repo /\ p.number = bumps'[i].number
                                               /\ p.verdict = bumps'[i].verdict
    BY <1>2, <1>10, <2>2
  <2>4. /\ IsFiniteSet(Started(bumps)') /\ Cardinality(Started(bumps)') <= MaxBumps
        /\ Numbered' \subseteq Started(bumps)'
    BY <1>10 DEF WorldInductive, BumpsInStep
  <2>5. Cardinality(pulls') <= Cardinality(Numbered')
    BY <1>8, <1>10 DEF WorldInductive, BumpsInStep
  <2>6. \A i \in Proposable : bumps'[i].status = "completed" => i \in Numbered'
    BY <1>2, <1>10 DEF WorldInductive, BumpsInStep
  <2>7. \A i, j \in Numbered' :
          i.repo = j.repo /\ bumps'[i].number = bumps'[j].number => i = j
    BY <1>2, <1>10 DEF WorldInductive, BumpsInStep
  <2> QED BY <2>3, <2>4, <2>5, <2>6, <2>7 DEF BumpsInStep
<1>13. PullsInStep'
  <2>1. \A r : Cardinality(PullsOf(r)') = Cardinality(PullsOf(r))
    <3> SUFFICES ASSUME NEW r PROVE Cardinality(PullsOf(r)') = Cardinality(PullsOf(r))
      OBVIOUS
    <3>1. CASE r = pull.repo
      <4>1. PullsOf(r)' = (PullsOf(r) \ {pull}) \cup {q}
        BY <1>2, <1>4, <3>1 DEF PullsOf
      <4>2. IsFiniteSet(PullsOf(r)) /\ pull \in PullsOf(r) /\ q \notin PullsOf(r) \ {pull}
        BY <1>3, <1>6, <3>1, FS_Subset DEF PullsOf
      <4> QED BY <1>7, <4>1, <4>2
    <3>2. CASE r # pull.repo
      BY <1>2, <1>4, <3>2 DEF PullsOf
    <3> QED BY <3>1, <3>2
  <2>2. \A p \in pulls : p.number <= Cardinality(PullsOf(p.repo))
    BY DEF WorldInductive, PullsInStep
  <2>3. \A p \in pulls' : \E r \in pulls : r.repo = p.repo /\ r.number = p.number
    BY <1>2, <1>4
  <2>4. \A p \in pulls' : p.number <= Cardinality(PullsOf(p.repo)')
    <3> SUFFICES ASSUME NEW p \in pulls' PROVE p.number <= Cardinality(PullsOf(p.repo)')
      OBVIOUS
    <3>1. PICK r \in pulls : r.repo = p.repo /\ r.number = p.number
      BY <2>3
    <3>2. p.number <= Cardinality(PullsOf(p.repo))
      BY <2>2, <3>1
    <3> QED BY <2>1, <3>2
  <2>5. \A p, r \in pulls' : p.repo = r.repo /\ p.number = r.number => p = r
    BY <1>2, <1>4, <1>5
  <2>6. \A p \in pulls' : p.loop = "dead-code" => ~IsCanary(p.to)
    BY <1>2, <1>4 DEF WorldInductive, PullsInStep, Same, IsCanary
  <2> QED BY <2>4, <2>5, <2>6 DEF PullsInStep
<1>14. WorldMoves
  BY <1>2, <1>11, RootsStay DEF WorldMoves
<1> QED BY <1>2, <1>9, <1>12, <1>13, <1>14, RootsStay DEF WorldInductive

LEMMA RootIs ==
  ASSUME WorldInductive, NEW root \in Roots
  PROVE  /\ roots \in [Roots -> Seq(RootStatuses)] /\ roots[root] \in Seq(RootStatuses)
         /\ Len(roots[root]) \in Nat /\ DOMAIN roots[root] = 1..Len(roots[root])
         /\ roots[root] # <<>> => Len(roots[root]) \in DOMAIN roots[root]
         /\ Len(roots[root]) <= rootEvents + 1 /\ LastSays(roots[root])
         /\ rootEvents \in 0..MaxRootEvents
<1>1. roots \in [Roots -> Seq(RootStatuses)] /\ roots[root] \in Seq(RootStatuses)
  BY DEF WorldInductive, WorldTypes
<1>2. /\ Len(roots[root]) \in Nat /\ DOMAIN roots[root] = 1..Len(roots[root])
      /\ roots[root] # <<>> => Len(roots[root]) \in DOMAIN roots[root]
  BY <1>1, SequenceIs
<1> QED BY <1>1, <1>2 DEF WorldInductive, WorldTypes, RootsInStep

\* An execution more, or another status for the newest one: what has died stays.
LEMMA RootTurns ==
  ASSUME WorldInductive, NEW root \in Roots, NEW s \in Seq(RootStatuses),
         rootEvents < MaxRootEvents, rootEvents' = rootEvents + 1,
         roots' = [roots EXCEPT ![root] = s], Len(s) <= Len(roots[root]) + 1, LastSays(s),
         \A i \in DOMAIN roots[root] :
           roots[root][i] \in Endings => i \in DOMAIN s /\ s[i] \in Endings,
         UNCHANGED <<pulls, bumps, reviews, faults>>
  PROVE  WorldInductive' /\ WorldMoves
<1>1. /\ roots' \in [Roots -> Seq(RootStatuses)]
      /\ \A r \in Roots : roots'[r] = IF r = root THEN s ELSE roots[r]
  BY RootIs
<1>2. rootEvents + 1 \in 0..MaxRootEvents /\ rootEvents \in Nat
  BY RootIs, Constants
<1>3. WorldTypes'
  BY <1>1, <1>2 DEF WorldInductive, WorldTypes
<1>4. RootsInStep'
  <2>1. \A r \in Roots : Len(roots[r]) \in Nat /\ Len(roots[r]) <= rootEvents + 1 /\ LastSays(roots[r])
    BY RootIs
  <2>2. Len(s) \in Nat
    OBVIOUS
  <2>3. \A r \in Roots : Len(roots'[r]) <= (rootEvents + 1) + 1
    BY <1>1, <1>2, <2>1, <2>2
  <2>4. \A r \in Roots : LastSays(roots'[r])
    BY <1>1, <2>1
  <2> QED BY <2>3, <2>4 DEF RootsInStep, LastSays
<1>5. PullsInStep' /\ BumpsInStep'
  BY DEF WorldInductive, PullsInStep, PullsOf, BumpsInStep, Started, Numbered
<1>6. \A r \in Roots : Deaths(r) \subseteq Deaths(r)'
  BY <1>1 DEF Deaths
<1>7. WorldMoves
  BY <1>6 DEF WorldMoves, Same
<1> QED BY <1>3, <1>4, <1>5, <1>7 DEF WorldInductive

LEMMA StartRootKeeps ==
  ASSUME WorldInductive, NEW root \in Moving, StartRoot(root)
  PROVE  /\ WorldInductive' /\ WorldMoves
         /\ \A r \in Roots : Running(r)' <=> r = root \/ Running(r)
<1> DEFINE s == Append(roots[root], "running")
<1>1. /\ rootEvents < MaxRootEvents /\ rootEvents' = rootEvents + 1
      /\ roots' = [roots EXCEPT ![root] = s] /\ UNCHANGED <<pulls, bumps, reviews, faults>>
  BY DEF StartRoot, RootMoves, Happens
<1>2. root \in Roots /\ "running" \in RootStatuses
  BY Constants DEF RootStatuses, LiveStatuses
<1>3. /\ s \in Seq(RootStatuses) /\ Len(s) = Len(roots[root]) + 1
      /\ s[Len(roots[root]) + 1] = "running" /\ s # <<>>
      /\ \A i \in 1..Len(roots[root]) : s[i] = roots[root][i]
      /\ DOMAIN s = 1..(Len(roots[root]) + 1)
  BY <1>2, RootIs, AppendIs
<1> HIDE DEF s
<1>4. LastSays(s)
  BY <1>3 DEF LastSays
<1>5. \A i \in DOMAIN roots[root] :
        roots[root][i] \in Endings => i \in DOMAIN s /\ s[i] \in Endings
  <2> SUFFICES ASSUME NEW i \in DOMAIN roots[root], roots[root][i] \in Endings
               PROVE  i \in DOMAIN s /\ s[i] \in Endings
    OBVIOUS
  <2>1. i \in 1..Len(roots[root]) /\ Len(roots[root]) \in Nat
    BY <1>2, RootIs
  <2> QED BY <1>3, <2>1
<1>6. Len(s) <= Len(roots[root]) + 1
  BY <1>2, <1>3, RootIs
<1>7. \A r \in Roots : roots'[r] = IF r = root THEN s ELSE roots[r]
  BY <1>1, <1>2, RootIs
<1>8. \A r \in Roots : Running(r)' <=> r = root \/ Running(r)
  BY <1>3, <1>7 DEF Running, LastOf
<1> QED BY <1>1, <1>2, <1>3, <1>4, <1>5, <1>6, <1>8, RootTurns

LEMMA TurnRootKeeps ==
  ASSUME WorldInductive, NEW root \in Moving, TurnRoot(root)
  PROVE  /\ WorldInductive' /\ WorldMoves
         /\ \A r \in Roots : Running(r)' <=> Running(r)
<1> DEFINE t == [roots[root] EXCEPT ![Len(roots[root])] = "continued_as_new"]
           s == Append(t, "running")
<1>1. /\ rootEvents < MaxRootEvents /\ rootEvents' = rootEvents + 1
      /\ roots' = [roots EXCEPT ![root] = s] /\ UNCHANGED <<pulls, bumps, reviews, faults>>
      /\ Running(root)
  BY DEF TurnRoot, RootMoves, Happens
<1>2. root \in Roots /\ "running" \in RootStatuses /\ "continued_as_new" \in RootStatuses
  BY Constants DEF RootStatuses, LiveStatuses
<1>3. roots[root] # <<>> /\ roots[root][Len(roots[root])] = "running"
  BY <1>1 DEF Running, LastOf
<1>4. /\ t \in Seq(RootStatuses) /\ Len(t) = Len(roots[root])
      /\ \A i \in 1..(Len(roots[root]) - 1) : t[i] = roots[root][i]
  BY <1>2, <1>3, RootIs, ReplaceLast
<1> HIDE DEF t
<1>5. /\ s \in Seq(RootStatuses) /\ Len(s) = Len(t) + 1
      /\ s[Len(t) + 1] = "running" /\ s # <<>>
      /\ \A i \in 1..Len(t) : s[i] = t[i]
      /\ DOMAIN s = 1..(Len(t) + 1)
  BY <1>2, <1>4, AppendIs
<1> HIDE DEF s
<1>6. LastSays(s)
  BY <1>5 DEF LastSays
<1>7. \A i \in DOMAIN roots[root] :
        roots[root][i] \in Endings => i \in DOMAIN s /\ s[i] \in Endings
  <2> SUFFICES ASSUME NEW i \in DOMAIN roots[root], roots[root][i] \in Endings
               PROVE  i \in DOMAIN s /\ s[i] \in Endings
    OBVIOUS
  <2>1. i \in 1..Len(roots[root]) /\ Len(roots[root]) \in Nat /\ i # Len(roots[root])
    BY <1>2, <1>3, RootIs, Constants
  <2> QED BY <1>4, <1>5, <2>1
<1>8. Len(s) <= Len(roots[root]) + 1
  BY <1>2, <1>4, <1>5, RootIs
<1>9. \A r \in Roots : roots'[r] = IF r = root THEN s ELSE roots[r]
  BY <1>1, <1>2, RootIs
<1>10. \A r \in Roots : Running(r)' <=> Running(r)
  BY <1>1, <1>5, <1>9 DEF Running, LastOf
<1> QED BY <1>1, <1>2, <1>5, <1>6, <1>7, <1>8, <1>10, RootTurns

LEMMA RootDiesKeeps ==
  ASSUME WorldInductive, NEW root \in Moving, RootDies(root)
  PROVE  /\ WorldInductive' /\ WorldMoves
         /\ \A r \in Roots : Running(r)' <=> r # root /\ Running(r)
<1>1. PICK ending \in Endings :
        RootMoves(root, [roots[root] EXCEPT ![Len(roots[root])] = ending], {root}, {})
  BY DEF RootDies
<1> DEFINE s == [roots[root] EXCEPT ![Len(roots[root])] = ending]
<1>2. /\ rootEvents < MaxRootEvents /\ rootEvents' = rootEvents + 1
      /\ roots' = [roots EXCEPT ![root] = s] /\ UNCHANGED <<pulls, bumps, reviews, faults>>
      /\ Running(root)
  BY <1>1 DEF RootDies, RootMoves, Happens
<1>3. root \in Roots /\ ending \in RootStatuses /\ ending # "running"
  BY Constants DEF RootStatuses
<1>4. roots[root] # <<>> /\ roots[root][Len(roots[root])] = "running"
  BY <1>2 DEF Running, LastOf
<1>5. /\ s \in Seq(RootStatuses) /\ Len(s) = Len(roots[root])
      /\ s[Len(roots[root])] = ending /\ s # <<>>
      /\ \A i \in 1..(Len(roots[root]) - 1) : s[i] = roots[root][i]
      /\ DOMAIN s = 1..Len(roots[root])
  BY <1>3, <1>4, RootIs, ReplaceLast
<1> HIDE DEF s
<1>6. LastSays(s)
  BY <1>5 DEF LastSays
<1>7. \A i \in DOMAIN roots[root] :
        roots[root][i] \in Endings => i \in DOMAIN s /\ s[i] \in Endings
  <2> SUFFICES ASSUME NEW i \in DOMAIN roots[root], roots[root][i] \in Endings
               PROVE  i \in DOMAIN s /\ s[i] \in Endings
    OBVIOUS
  <2>1. i \in 1..Len(roots[root]) /\ Len(roots[root]) \in Nat /\ i # Len(roots[root])
    BY <1>3, <1>4, RootIs, Constants
  <2> QED BY <1>5, <2>1
<1>8. Len(s) <= Len(roots[root]) + 1
  BY <1>3, <1>5, RootIs
<1>9. \A r \in Roots : roots'[r] = IF r = root THEN s ELSE roots[r]
  BY <1>2, <1>3, RootIs
<1>10. \A r \in Roots : Running(r)' <=> r # root /\ Running(r)
  BY <1>3, <1>5, <1>9 DEF Running, LastOf
<1> QED BY <1>2, <1>3, <1>5, <1>6, <1>7, <1>8, <1>10, RootTurns

LEMMA ReviewTurns ==
  ASSUME WorldInductive, NEW item \in Reviewable, NEW r \in ReviewStates, r.status # "none",
         reviews' = [reviews EXCEPT ![item] = r],
         UNCHANGED <<pulls, bumps, roots, rootEvents, faults>>
  PROVE  WorldInductive' /\ WorldMoves
<1>1. /\ reviews' \in [Reviewable -> ReviewStates]
      /\ \A i \in Reviewable : reviews'[i] = IF i = item THEN r ELSE reviews[i]
  BY DEF WorldInductive, WorldTypes
<1>2. WorldTypes'
  BY <1>1 DEF WorldInductive, WorldTypes
<1>3. PullsInStep' /\ BumpsInStep'
  BY DEF WorldInductive, PullsInStep, PullsOf, BumpsInStep, Started, Numbered
<1>4. WorldMoves
  BY <1>1, RootsStay DEF WorldMoves, Same
<1> QED BY <1>2, <1>3, <1>4, RootsStay DEF WorldInductive

LEMMA ReviewKeeps ==
  ASSUME WorldInductive, NEW item \in Reviewable, StartReview(item) \/ EndReview(item)
  PROVE  WorldInductive' /\ WorldMoves
<1>1. reviews[item] \in ReviewStates
  BY DEF WorldInductive, WorldTypes
<1>2. CASE StartReview(item)
  <2> DEFINE r == [reviews[item] EXCEPT !.status = "running"]
  <2>1. r \in ReviewStates /\ r.status # "none"
    BY <1>1 DEF ReviewStates
  <2>2. /\ reviews' = [reviews EXCEPT ![item] = r]
        /\ UNCHANGED <<pulls, bumps, roots, rootEvents, faults>>
    BY <1>2 DEF StartReview, ReviewMoves, Happens, WorldInductive, WorldTypes
  <2> HIDE DEF r
  <2> QED BY <2>1, <2>2, ReviewTurns
<1>3. CASE EndReview(item)
  <2>1. CASE \E findings \in 0..1 :
               ReviewMoves([reviews EXCEPT ![item] = [status |-> "completed", findings |-> findings]])
    <3>1. PICK findings \in 0..1 :
            ReviewMoves([reviews EXCEPT ![item] = [status |-> "completed", findings |-> findings]])
      BY <2>1
    <3> DEFINE r == [status |-> "completed", findings |-> findings]
    <3>2. r \in ReviewStates /\ r.status # "none"
      BY DEF ReviewStates
    <3>3. /\ reviews' = [reviews EXCEPT ![item] = r]
          /\ UNCHANGED <<pulls, bumps, roots, rootEvents, faults>>
      BY <3>1 DEF ReviewMoves, Happens
    <3> HIDE DEF r
    <3> QED BY <3>2, <3>3, ReviewTurns
  <2>2. CASE \E ending \in Endings : ReviewMoves([reviews EXCEPT ![item].status = ending])
    <3>1. PICK ending \in Endings : ReviewMoves([reviews EXCEPT ![item].status = ending])
      BY <2>2
    <3> DEFINE r == [reviews[item] EXCEPT !.status = ending]
    <3>2. r \in ReviewStates /\ r.status # "none"
      BY <1>1, Constants DEF ReviewStates
    <3>3. /\ reviews' = [reviews EXCEPT ![item] = r]
          /\ UNCHANGED <<pulls, bumps, roots, rootEvents, faults>>
      BY <3>1 DEF ReviewMoves, Happens, WorldInductive, WorldTypes
    <3> HIDE DEF r
    <3> QED BY <3>2, <3>3, ReviewTurns
  <2> QED BY <1>3, <2>1, <2>2 DEF EndReview
<1> QED BY <1>2, <1>3

-----------------------------------------------------------------------------
(* The page while the world moves: what it has was so, and what was asked  *)
(* for is what it was.                                                     *)

\* The roots that turn are those that the page takes note of.
Turned(dead, live) ==
  /\ dead \in SUBSET Roots /\ live \in SUBSET Roots
  /\ \A root \in Roots : /\ Running(root)' /\ ~Running(root) => root \in live
                         /\ ~Running(root)' /\ Running(root) => root \in dead
Stays(dead, live) == (\E part : Happens(part, dead, live)) /\ Turned(dead, live)

LEMMA IdlePageIs ==
  /\ IdlePage \in Pages /\ IdlePage.at = "idle" /\ IdlePage.todo = <<>> /\ IdlePage.prs = {}
  /\ IdlePage.next = "scans" /\ \A kind \in Kinds : IdlePage.ledger[kind] = {}
  /\ IdlePage.asked = NothingAsked
<1>1. Empty \in [Kinds -> SUBSET Entries] /\ \A kind \in Kinds : Empty[kind] = {}
  BY DEF Empty
<1>2. NoOutcomes \in [Keys -> {"none", "held", "broke"}]
  BY DEF NoOutcomes
<1>3. NothingAsked \in Askings
  BY DEF NothingAsked, Askings
<1>4. <<>> \in Seq(Repos)
  OBVIOUS
<1> QED BY <1>1, <1>2, <1>3, <1>4 DEF IdlePage, Pages, Kinds

LEMMA IdleInductive ==
  ASSUME WorldInductive', page' = IdlePage
  PROVE  PageInductive'
<1> DEFINE q == page'
<1>1. /\ q \in Pages /\ q.at = "idle" /\ q.todo = <<>> /\ q.prs = {}
      /\ q.next = "scans" /\ \A kind \in Kinds : q.ledger[kind] = {}
      /\ q.asked = NothingAsked
  BY IdlePageIs
<1>2. /\ q.asked.pulls = {} /\ q.asked.failed = {} /\ q.asked.read = {} /\ q.asked.reviews = {}
      /\ q.ledger["bumps"] = {} /\ q.ledger["scans"] = {} /\ q.ledger["advisory"] = {}
      /\ q.ledger["reviews"] = {}
  BY <1>1 DEF NothingAsked, Kinds
<1>3. PrsStand'
  BY <1>1, FS_EmptySet DEF PrsStand
<1>4. AskedStands'
  BY <1>2 DEF AskedStands
<1>5. BumpsStand' /\ ReviewsStand' /\ RootEntriesStand'
  BY <1>2 DEF BumpsStand, ReviewsStand, RootEntriesStand
<1>6. Listed' = {}
  BY <1>1 DEF Listed
<1>7. PageTold'
  BY <1>2, <1>6 DEF PageTold, GithubTold, BumpsTold, ReviewsTold, RootsTold
<1>8. RootsWatched' /\ AllAsked'
  BY <1>1 DEF RootsWatched, AllAsked
<1> QED BY <1>1, <1>3, <1>4, <1>5, <1>7, <1>8 DEF PageInductive, PageTrue

LEMMA NoneTurned ==
  ASSUME UNCHANGED roots
  PROVE  Turned({}, {})
  BY DEF Turned, Running, LastOf

LEMMA WorldKeeps ==
  ASSUME WorldInductive, World
  PROVE  WorldInductive' /\ WorldMoves /\ \E dead, live \in SUBSET Roots : Stays(dead, live)
<1>1. CASE \E item \in Proposable : \/ StartBump(item) \/ Record(item)
                                    \/ CompleteBump(item) \/ FailBump(item)
  <2>1. PICK item \in Proposable : \/ StartBump(item) \/ Record(item)
                                   \/ CompleteBump(item) \/ FailBump(item)
    BY <1>1
  <2>2. WorldInductive' /\ WorldMoves
    BY <2>1, StartBumpKeeps, RecordKeeps, CompleteBumpKeeps, FailBumpKeeps
  <2>3. Happens("bumps", {}, {}) /\ UNCHANGED roots
    BY <2>1 DEF StartBump, Record, CompleteBump, FailBump, BumpMoves
  <2>4. Stays({}, {})
    BY <2>3, NoneTurned DEF Stays
  <2> QED BY <2>2, <2>4
<1>2. CASE \E pull \in pulls : DecidePull(pull)
  <2>1. PICK pull \in pulls : DecidePull(pull)
    BY <1>2
  <2>2. WorldInductive' /\ WorldMoves
    BY <2>1, DecidePullKeeps
  <2>3. Happens("bumps", {}, {}) /\ UNCHANGED roots
    BY <2>1 DEF DecidePull, BumpMoves
  <2>4. Stays({}, {})
    BY <2>3, NoneTurned DEF Stays
  <2> QED BY <2>2, <2>4
<1>3. CASE \E root \in Moving : StartRoot(root) \/ TurnRoot(root) \/ RootDies(root)
  <2>1. PICK root \in Moving : StartRoot(root) \/ TurnRoot(root) \/ RootDies(root)
    BY <1>3
  <2>2. root \in Roots /\ {root} \in SUBSET Roots
    BY Constants
  <2>3. CASE StartRoot(root)
    <3>1. Happens("roots", {}, {root})
      BY <2>3 DEF StartRoot, RootMoves
    <3>2. /\ WorldInductive' /\ WorldMoves
          /\ \A r \in Roots : Running(r)' <=> r = root \/ Running(r)
      BY <2>3, StartRootKeeps
    <3>3. Turned({}, {root})
      BY <2>2, <3>2 DEF Turned
    <3>4. Stays({}, {root})
      BY <3>1, <3>3 DEF Stays
    <3> QED BY <2>2, <3>2, <3>4
  <2>4. CASE TurnRoot(root)
    <3>1. Happens("roots", {}, {})
      BY <2>4 DEF TurnRoot, RootMoves
    <3>2. /\ WorldInductive' /\ WorldMoves
          /\ \A r \in Roots : Running(r)' <=> Running(r)
      BY <2>4, TurnRootKeeps
    <3>3. Turned({}, {})
      BY <3>2 DEF Turned
    <3>4. Stays({}, {})
      BY <3>1, <3>3 DEF Stays
    <3> QED BY <3>2, <3>4
  <2>5. CASE RootDies(root)
    <3>1. Happens("roots", {root}, {})
      BY <2>5 DEF RootDies, RootMoves
    <3>2. /\ WorldInductive' /\ WorldMoves
          /\ \A r \in Roots : Running(r)' <=> r # root /\ Running(r)
      BY <2>5, RootDiesKeeps
    <3>3. Turned({root}, {})
      BY <2>2, <3>2 DEF Turned
    <3>4. Stays({root}, {})
      BY <3>1, <3>3 DEF Stays
    <3> QED BY <2>2, <3>2, <3>4
  <2> QED BY <2>1, <2>3, <2>4, <2>5
<1>4. CASE \E item \in Reviewable : StartReview(item) \/ EndReview(item)
  <2>1. PICK item \in Reviewable : StartReview(item) \/ EndReview(item)
    BY <1>4
  <2>2. WorldInductive' /\ WorldMoves
    BY <2>1, ReviewKeeps
  <2>3. Happens("reviews", {}, {}) /\ UNCHANGED roots
    BY <2>1 DEF StartReview, EndReview, ReviewMoves
  <2>4. Stays({}, {})
    BY <2>3, NoneTurned DEF Stays
  <2> QED BY <2>2, <2>4
<1> QED BY <1>1, <1>2, <1>3, <1>4 DEF World

LEMMA FiniteDomain ==
  ASSUME NEW S, NEW s \in Seq(S)
  PROVE  IsFiniteSet(DOMAIN s)
<1>1. Len(s) \in Nat /\ DOMAIN s = 1..Len(s)
  OBVIOUS
<1>2. IsFiniteSet(1..Len(s))
  BY <1>1, FS_Interval
<1> QED BY <1>1, <1>2

LEMMA DeathsAre ==
  ASSUME WorldInductive, NEW root \in Roots
  PROVE  IsFiniteSet(Deaths(root)) /\ Cardinality(Deaths(root)) \in Nat
<1>1. roots[root] \in Seq(RootStatuses)
  BY RootIs
<1>2. IsFiniteSet(DOMAIN roots[root])
  BY <1>1, FiniteDomain
<1> QED BY <1>2, FS_Subset, FS_CardinalityType DEF Deaths

LEMMA DeathsGrow ==
  ASSUME WorldInductive, WorldInductive', WorldMoves, NEW root \in Roots,
         Cardinality(Deaths(root)) >= 2
  PROVE  Cardinality(Deaths(root)') >= 2
<1>1. Deaths(root) \subseteq Deaths(root)'
  BY DEF WorldMoves
<1>2. roots'[root] \in Seq(RootStatuses)
  BY DEF WorldInductive, WorldTypes
<1>3. IsFiniteSet(DOMAIN roots'[root])
  BY <1>2, FiniteDomain
<1>4. IsFiniteSet(Deaths(root)')
  BY <1>3, FS_Subset DEF Deaths
<1> DEFINE n == Cardinality(Deaths(root)) m == Cardinality(Deaths(root)')
<1>5. n \in Nat /\ m \in Nat /\ n <= m
  BY <1>1, <1>4, SubsetCounts
<1>6. n >= 2
  OBVIOUS
<1> HIDE DEF n, m
<1>7. m >= 2
  BY <1>5, <1>6
<1> QED BY <1>7 DEF m

\* Of the pull requests of a repository no fewer are newer than one.
LEMMA NewerAre ==
  ASSUME pulls \subseteq Pulls, NEW repo, NEW number
  PROVE  IsFiniteSet(Newer(repo, number)) /\ Cardinality(Newer(repo, number)) \in Nat
<1>1. Newer(repo, number) \subseteq 1..MaxBumps
  BY DEF Newer, Pulls, Numbers
<1>2. IsFiniteSet(1..MaxBumps)
  BY FS_Interval, Constants
<1> QED BY <1>1, <1>2, SubsetCounts

LEMMA NewerGrow ==
  ASSUME pulls' \subseteq Pulls, \A q \in pulls : \E p \in pulls' : Same(q, p),
         NEW repo, NEW number, Cardinality(Newer(repo, number)) >= PerPage
  PROVE  Cardinality(Newer(repo, number)') >= PerPage
<1>1. Newer(repo, number) \subseteq Newer(repo, number)'
  BY DEF Newer, Same
<1>2. Newer(repo, number)' \subseteq 1..MaxBumps
  BY DEF Newer, Pulls, Numbers
<1>3. IsFiniteSet(1..MaxBumps)
  BY FS_Interval, Constants
<1>4. IsFiniteSet(Newer(repo, number)')
  BY <1>2, <1>3, FS_Subset
<1> DEFINE n == Cardinality(Newer(repo, number)) m == Cardinality(Newer(repo, number)')
<1>5. n \in Nat /\ m \in Nat /\ n <= m
  BY <1>1, <1>4, SubsetCounts
<1>6. n >= PerPage
  OBVIOUS
<1> HIDE DEF n, m
<1>7. m >= PerPage
  BY <1>5, <1>6, Constants
<1> QED BY <1>7 DEF m

\* What a page under way keeps while the world moves.
LEMMA PageWaits ==
  ASSUME page \in Pages, page.at = "reading", NEW dead \in SUBSET Roots, NEW live \in SUBSET Roots,
         page' = [page EXCEPT !.meanwhile = @ + 1, !.dead = @ \cup dead, !.live = @ \cup live]
  PROVE  /\ page' \in Pages /\ page'.at = page.at /\ page'.todo = page.todo
         /\ page'.next = page.next /\ page'.prs = page.prs /\ page'.ledger = page.ledger
         /\ page'.githubError = page.githubError /\ page'.temporalError = page.temporalError
         /\ page'.undecoded = page.undecoded /\ page'.asked = page.asked
         /\ page'.dead = page.dead \cup dead /\ page'.live = page.live \cup live
<1> DEFINE q == [page EXCEPT !.meanwhile = @ + 1, !.dead = @ \cup dead, !.live = @ \cup live]
<1>1. page.meanwhile + 1 \in Nat /\ page.dead \cup dead \in SUBSET Roots
        /\ page.live \cup live \in SUBSET Roots
  BY DEF Pages
<1>2. /\ q \in Pages /\ q.at = page.at /\ q.todo = page.todo
      /\ q.next = page.next /\ q.prs = page.prs /\ q.ledger = page.ledger
      /\ q.githubError = page.githubError /\ q.temporalError = page.temporalError
      /\ q.undecoded = page.undecoded /\ q.asked = page.asked
      /\ q.dead = page.dead \cup dead /\ q.live = page.live \cup live
  BY <1>1 DEF Pages
<1> QED BY <1>2

LEMMA AskedIs ==
  ASSUME page \in Pages
  PROVE  /\ page.asked.pulls \subseteq Keys /\ page.asked.failed \subseteq Proposable
         /\ page.asked.read \subseteq Proposable /\ page.asked.reviews \subseteq Reviewable
         /\ page.asked.flapping \subseteq Roots
  BY DEF Pages, Askings

LEMMA PageKeeps ==
  ASSUME WorldInductive, PageInductive, WorldInductive', WorldMoves,
         NEW dead \in SUBSET Roots, NEW live \in SUBSET Roots, Stays(dead, live)
  PROVE  PageInductive'
<1>0. PICK part : Happens(part, dead, live)
  BY DEF Stays
<1>1. CASE page.at # "reading"
  BY <1>0, <1>1, IdleInductive DEF Happens
<1>2. CASE page.at = "reading"
  <2>1. page \in Pages
    BY DEF PageInductive
  <2>2. page' = [page EXCEPT !.meanwhile = @ + 1, !.dead = @ \cup dead, !.live = @ \cup live]
    BY <1>0, <1>2 DEF Happens
  <2>3. /\ page' \in Pages /\ page'.at = page.at /\ page'.todo = page.todo
        /\ page'.next = page.next /\ page'.prs = page.prs /\ page'.ledger = page.ledger
        /\ page'.githubError = page.githubError /\ page'.temporalError = page.temporalError
        /\ page'.undecoded = page.undecoded /\ page'.asked = page.asked
        /\ page'.dead = page.dead \cup dead /\ page'.live = page.live \cup live
    BY <1>2, <2>1, <2>2, PageWaits
  <2>4. /\ page.asked.pulls \subseteq Keys /\ page.asked.failed \subseteq Proposable
        /\ page.asked.read \subseteq Proposable /\ page.asked.reviews \subseteq Reviewable
        /\ page.asked.flapping \subseteq Roots
    BY <2>1, AskedIs
  <2>5. /\ \A q \in pulls : \E p \in pulls' : Same(q, p)
        /\ \A i \in Proposable :
             /\ bumps[i].status \in Endings \cup {"completed"} => bumps'[i] = bumps[i]
             /\ bumps[i].status # "none" => bumps'[i].status # "none"
        /\ \A i \in Reviewable : reviews[i].status # "none" => reviews'[i].status # "none"
        /\ \A root \in Roots : Deaths(root) \subseteq Deaths(root)'
    BY DEF WorldMoves
  <2>6. Listed' = Listed
    BY <2>3 DEF Listed
  <2>7. PrsStand'
    BY <2>3, <2>5 DEF PageInductive, PageTrue, PrsStand, Same
  <2>8. AskedStands'
    <3>1. AskedStands
      BY DEF PageInductive, PageTrue
    <3>2. \A k \in page.asked.pulls : \E q \in pulls' : q.repo = k[1] /\ q.number = k[2]
      BY <2>5, <3>1 DEF AskedStands, Same
    <3>3. \A i \in page.asked.failed : bumps'[i].status \in Endings
      BY <2>4, <2>5, <3>1 DEF AskedStands
    <3>4. \A i \in page.asked.read : bumps'[i].status = "completed"
      BY <2>4, <2>5, <3>1 DEF AskedStands
    <3>5. \A i \in page.asked.reviews : reviews'[i].status # "none"
      BY <2>4, <2>5, <3>1 DEF AskedStands
    <3> QED BY <2>3, <3>2, <3>3, <3>4, <3>5 DEF AskedStands
  <2>9. /\ Started(bumps) \subseteq Proposable /\ Started(reviews) \subseteq Reviewable
        /\ Started(bumps) \subseteq Started(bumps)' /\ Started(reviews) \subseteq Started(reviews)'
    BY <2>5 DEF Started, WorldInductive, WorldTypes
  <2>10. BumpsStand'
    <3>1. BumpsStand
      BY DEF PageInductive, PageTrue
    <3>2. \A b \in page.ledger["bumps"] : \E i \in Started(bumps)' :
            /\ b.id = IdOf(i) /\ b.repo = i.repo
            /\ b.number # 0 => /\ bumps'[i].status = "completed" /\ b.number = bumps'[i].number
                               /\ b.verdict = bumps'[i].verdict /\ b.ci = bumps'[i].ci
      <4> SUFFICES ASSUME NEW b \in page.ledger["bumps"]
                   PROVE  \E i \in Started(bumps)' :
            /\ b.id = IdOf(i) /\ b.repo = i.repo
            /\ b.number # 0 => /\ bumps'[i].status = "completed" /\ b.number = bumps'[i].number
                               /\ b.verdict = bumps'[i].verdict /\ b.ci = bumps'[i].ci
        OBVIOUS
      <4>1. PICK i \in Started(bumps) :
            /\ b.id = IdOf(i) /\ b.repo = i.repo
            /\ b.number # 0 => /\ bumps[i].status = "completed" /\ b.number = bumps[i].number
                               /\ b.verdict = bumps[i].verdict /\ b.ci = bumps[i].ci
        BY <3>1 DEF BumpsStand
      <4>2. bumps[i].status = "completed" => bumps'[i] = bumps[i]
        BY <2>5, <2>9
      <4> QED BY <2>9, <4>1, <4>2
    <3> QED BY <2>3, <3>1, <3>2 DEF BumpsStand
  <2>11. RootEntriesStand'
    <3>1. RootEntriesStand
      BY DEF PageInductive, PageTrue
    <3> QED BY <2>3, <3>1 DEF RootEntriesStand
  <2>12. ReviewsStand'
    <3>1. ReviewsStand
      BY DEF PageInductive, PageTrue
    <3> QED BY <2>3, <2>9, <3>1 DEF ReviewsStand
  <2>13. GithubTold' /\ BumpsTold' /\ ReviewsTold'
    <3>1. GithubTold /\ BumpsTold /\ ReviewsTold /\ AskedStands
      BY DEF PageInductive, PageTrue, PageTold
    <3>2. GithubTold'
      <4>1. pulls' \subseteq Pulls
        BY DEF WorldInductive, WorldTypes
      <4>2. \A k \in page.asked.pulls : Cardinality(Newer(k[1], k[2])) >= PerPage
              => Cardinality(Newer(k[1], k[2])') >= PerPage
        BY <2>5, <4>1, NewerGrow
      <4> QED BY <2>3, <3>1, <4>2 DEF GithubTold
    <3>3. \A i \in page.asked.read : bumps'[i] = bumps[i]
      BY <2>4, <2>5, <3>1 DEF AskedStands
    <3>4. BumpsTold'
      BY <2>3, <2>6, <3>1, <3>3 DEF BumpsTold, Full
    <3>5. ReviewsTold'
      BY <2>3, <2>6, <3>1 DEF ReviewsTold, Full
    <3> QED BY <3>2, <3>4, <3>5
  <2>14. \A loops : \A kind \in Kinds : RootsTold(kind, loops) => RootsTold(kind, loops)'
    <3> SUFFICES ASSUME NEW loops, NEW kind \in Kinds, RootsTold(kind, loops),
                        kind \in Listed', ~page'.temporalError
                 PROVE  \E past \in [Roots -> Seq(RootStatuses)] :
                          /\ page'.ledger[kind] \subseteq ExecutionsIn(past, loops)
                          /\ page'.ledger[kind] = ExecutionsIn(past, loops) \/ Full(kind)'
                          /\ \A root \in Roots : Were(past, root)'
      BY DEF RootsTold
    <3>1. PICK past \in [Roots -> Seq(RootStatuses)] :
            /\ page.ledger[kind] \subseteq ExecutionsIn(past, loops)
            /\ page.ledger[kind] = ExecutionsIn(past, loops) \/ Full(kind)
            /\ \A root \in Roots : Were(past, root)
      BY <2>3, <2>6 DEF RootsTold
    <3>2. \A root \in Roots : Were(past, root)'
      BY <2>3, <2>5, <3>1 DEF Were
    <3>3. Full(kind)' <=> Full(kind)
      BY <2>3 DEF Full
    <3> QED BY <2>3, <3>1, <3>2, <3>3
  <2>15. PageTold'
    BY <2>13, <2>14 DEF PageInductive, PageTold, Kinds
  <2>16. RootsWatched'
    <3>1. RootsWatched
      BY DEF PageInductive
    <3>2. \A root \in Roots : /\ Running(root)' => root \in page'.live
                              /\ ~Running(root)' => root \in page'.dead
      BY <1>2, <2>3, <3>1 DEF RootsWatched, Stays, Turned
    <3>3. \A root \in Roots : root \in page'.asked.flapping => Cardinality(Deaths(root)') >= 2
      BY <1>2, <2>3, <3>1, DeathsGrow DEF RootsWatched
    <3> QED BY <3>2, <3>3 DEF RootsWatched
  <2>17. AllAsked'
    BY <1>2, <2>3 DEF AllAsked
  <2> QED BY <2>3, <2>7, <2>8, <2>10, <2>11, <2>12, <2>15, <2>16, <2>17 DEF PageInductive, PageTrue
<1> QED BY <1>1, <1>2

-----------------------------------------------------------------------------
(* The page while it is read: the world rests, and what a reader brings is *)
(* the world as it is.                                                     *)

LEMMA WorldRests ==
  ASSUME WorldInductive, UNCHANGED worldVars, faults' \in 0..MaxFaults
  PROVE  WorldInductive'
<1>1. WorldTypes'
  BY DEF WorldInductive, WorldTypes, worldVars
<1>2. PullsInStep' /\ BumpsInStep' /\ RootsInStep'
  BY DEF WorldInductive, PullsInStep, PullsOf, BumpsInStep, Started, Numbered, RootsInStep,
         LastSays, worldVars
<1> QED BY <1>1, <1>2 DEF WorldInductive

LEMMA FaultsStay ==
  ASSUME WorldInductive, UNCHANGED faults \/ Fails
  PROVE  faults' \in 0..MaxFaults
<1>1. faults \in 0..MaxFaults
  BY DEF WorldInductive, WorldTypes
<1>2. CASE UNCHANGED faults
  BY <1>1, <1>2
<1>3. CASE Fails
  <2>1. faults < MaxFaults /\ faults' = faults + 1
    BY <1>3 DEF Fails
  <2>2. faults + 1 \in 0..MaxFaults
    BY <1>1, <2>1, Constants
  <2> QED BY <2>1, <2>2
<1> QED BY <1>2, <1>3

LEMMA HeadTail ==
  ASSUME NEW S, NEW s \in Seq(S), s # <<>>
  PROVE  /\ Head(s) \in S /\ Tail(s) \in Seq(S)
         /\ \A x \in Range(s) : x = Head(s) \/ x \in Range(Tail(s))
<1>1. Head(s) \in S /\ Tail(s) \in Seq(S) /\ Len(s) \in Nat /\ Len(Tail(s)) = Len(s) - 1
      /\ Head(s) = s[1] /\ \A i \in 1..Len(Tail(s)) : Tail(s)[i] = s[i + 1]
      /\ DOMAIN s = 1..Len(s) /\ DOMAIN Tail(s) = 1..Len(Tail(s)) /\ Len(s) >= 1
  BY SMT
<1>2. \A x \in Range(s) : x = Head(s) \/ x \in Range(Tail(s))
  <2> SUFFICES ASSUME NEW i \in DOMAIN s, i # 1
               PROVE  s[i] \in Range(Tail(s))
    BY <1>1 DEF Range
  <2>1. i - 1 \in 1..Len(Tail(s)) /\ Tail(s)[i - 1] = s[(i - 1) + 1] /\ (i - 1) + 1 = i
    BY <1>1
  <2> QED BY <1>1, <2>1 DEF Range
<1> QED BY <1>1, <1>2

\* What a step on the one source keeps of what the other told.
LEMMA GithubRests ==
  ASSUME PageInductive, UNCHANGED worldVars, page'.prs = page.prs, page'.todo = page.todo,
         page'.githubError = page.githubError, page'.asked = page.asked
  PROVE  PrsStand' /\ GithubTold' /\ AskedStands'
<1>1. PrsStand /\ GithubTold /\ AskedStands
  BY DEF PageInductive, PageTrue, PageTold
<1>2. PrsStand'
  BY <1>1 DEF PrsStand, Same, worldVars
<1>3. GithubTold'
  BY <1>1 DEF GithubTold, Newer, worldVars
<1>4. AskedStands'
  BY <1>1 DEF AskedStands, worldVars
<1> QED BY <1>2, <1>3, <1>4

LEMMA TemporalRests ==
  ASSUME PageInductive, UNCHANGED worldVars, page'.next = page.next, page'.ledger = page.ledger,
         page'.temporalError = page.temporalError, page'.undecoded = page.undecoded,
         page'.asked = page.asked, page'.dead = page.dead, page'.live = page.live
  PROVE  /\ BumpsStand' /\ RootEntriesStand' /\ ReviewsStand' /\ BumpsTold' /\ ReviewsTold'
         /\ RootsTold("scans", Loops)' /\ RootsTold("advisory", {Advisory})' /\ AskedStands'
<1>1. /\ BumpsStand /\ RootEntriesStand /\ ReviewsStand /\ BumpsTold /\ ReviewsTold
      /\ RootsTold("scans", Loops) /\ RootsTold("advisory", {Advisory}) /\ AskedStands
  BY DEF PageInductive, PageTrue, PageTold
<1>2. Listed' = Listed
  BY DEF Listed
<1>3. BumpsStand' /\ RootEntriesStand' /\ ReviewsStand'
  BY <1>1 DEF BumpsStand, RootEntriesStand, ReviewsStand, Started, worldVars
<1>4. BumpsTold' /\ ReviewsTold'
  BY <1>1, <1>2 DEF BumpsTold, ReviewsTold, Full, worldVars
<1>5. RootsTold("scans", Loops)' /\ RootsTold("advisory", {Advisory})'
  BY <1>1, <1>2 DEF RootsTold, Were, Deaths, Full, worldVars
<1>6. AskedStands'
  BY <1>1 DEF AskedStands, worldVars
<1> QED BY <1>3, <1>4, <1>5, <1>6

LEMMA WatchRests ==
  ASSUME PageInductive, UNCHANGED worldVars, page'.at # "reading" \/ page.at = "reading",
         page'.asked = page.asked, page'.dead = page.dead, page'.live = page.live
  PROVE  RootsWatched'
  BY DEF PageInductive, RootsWatched, Running, LastOf, Deaths, worldVars

\* The request: what there is, and which roots are dead and live.
LEMMA RequestKeeps ==
  ASSUME WorldInductive, PageInductive, Request
  PROVE  WorldInductive' /\ PageInductive'
<1>0. UNCHANGED worldVars /\ UNCHANGED faults
  BY DEF Request
<1>1. WorldInductive'
  BY <1>0, FaultsStay, WorldRests
<1> DEFINE a == [pulls |-> {<<p.repo, p.number>> : p \in pulls},
                 failed |-> {i \in Started(bumps) : bumps[i].status \in Endings},
                 read |-> {i \in Started(bumps) : bumps[i].status = "completed"},
                 reviews |-> Started(reviews),
                 flapping |-> {r \in Roots : Cardinality(Deaths(r)) >= 2}]
           d == {r \in Roots : ~Running(r)}
           l == {r \in Roots : Running(r)}
           q == [IdlePage EXCEPT !.at = "reading", !.todo = Watched, !.asked = a,
                                 !.dead = d, !.live = l]
<1>2. page' = q
  BY DEF Request
<1>3. Started(bumps) \subseteq Proposable /\ Started(reviews) \subseteq Reviewable
      /\ pulls \subseteq Pulls
  BY DEF WorldInductive, WorldTypes, Started
<1>4. a \in Askings
  BY <1>3 DEF Askings, Pulls, Keys
<1>5. /\ \A k \in a.pulls : k[1] \in Repos /\ \E p \in pulls : p.repo = k[1] /\ p.number = k[2]
      /\ \A i \in a.failed : bumps[i].status \in Endings
      /\ \A i \in a.read : bumps[i].status = "completed"
      /\ \A i \in a.reviews : reviews[i].status # "none"
      /\ \A r \in a.flapping : Cardinality(Deaths(r)) >= 2
  BY <1>3 DEF Pulls, Started
<1>6. d \in SUBSET Roots /\ l \in SUBSET Roots
      /\ \A r \in Roots : (Running(r) => r \in l) /\ (~Running(r) => r \in d)
  OBVIOUS
<1> HIDE DEF a, d, l
<1>7. /\ q \in Pages /\ q.at = "reading" /\ q.todo = Watched /\ q.next = "scans"
      /\ q.prs = {} /\ q.asked = a /\ q.dead = d /\ q.live = l
      /\ \A kind \in Kinds : q.ledger[kind] = {}
  BY <1>4, <1>6, IdlePageIs, WatchedIs DEF Pages
<1> HIDE DEF q
<1>8. PrsStand'
  BY <1>2, <1>7, FS_EmptySet DEF PrsStand
<1>9. AskedStands'
  BY <1>0, <1>2, <1>5, <1>7 DEF AskedStands, worldVars
<1>10. BumpsStand' /\ RootEntriesStand' /\ ReviewsStand'
  BY <1>2, <1>7 DEF BumpsStand, RootEntriesStand, ReviewsStand, Kinds
<1>11. Listed' = {}
  BY <1>2, <1>7 DEF Listed
<1>12. GithubTold'
  BY <1>2, <1>5, <1>7 DEF GithubTold, Repos
<1>13. PageTold'
  BY <1>11, <1>12 DEF PageTold, BumpsTold, ReviewsTold, RootsTold
<1>14. RootsWatched'
  BY <1>0, <1>2, <1>5, <1>6, <1>7 DEF RootsWatched, Running, LastOf, Deaths, worldVars
<1>15. AllAsked'
  BY <1>2, <1>7 DEF AllAsked
<1> QED BY <1>1, <1>2, <1>7, <1>8, <1>9, <1>10, <1>13, <1>14, <1>15 DEF PageInductive, PageTrue

\* The next repository: what there was of it at the request is still there, on
\* its page unless newer ones fill that.
LEMMA FetchKeeps ==
  ASSUME WorldInductive, PageInductive, Fetch
  PROVE  WorldInductive' /\ PageInductive'
<1> DEFINE new == Newest(Head(page.todo))
           q == [page EXCEPT !.todo = Tail(@), !.prs = @ \cup new]
<1>0. UNCHANGED worldVars /\ UNCHANGED faults /\ page.at = "reading" /\ page.todo # <<>> /\ page' = q
  BY DEF Fetch, Reads
<1>1. WorldInductive'
  BY <1>0, FaultsStay, WorldRests
<1>2. page \in Pages /\ page.todo \in Seq(Repos) /\ page.prs \subseteq Pulls
  BY DEF PageInductive, Pages
<1>3. /\ Tail(page.todo) \in Seq(Repos)
      /\ \A x \in Range(page.todo) : x = Head(page.todo) \/ x \in Range(Tail(page.todo))
  BY <1>0, <1>2, HeadTail
<1>4. new \subseteq pulls /\ IsFiniteSet(new) /\ new \subseteq Pulls
  BY FS_Subset DEF WorldInductive, WorldTypes, Newest
<1>5. \A p \in pulls : p.repo = Head(page.todo) =>
        p \in new \/ Cardinality(Newer(p.repo, p.number)) >= PerPage
  <2> SUFFICES ASSUME NEW p \in pulls, p.repo = Head(page.todo), p \notin new
               PROVE  Cardinality(Newer(p.repo, p.number)) >= PerPage
    OBVIOUS
  <2>1. ~(Cardinality(Newer(p.repo, p.number)) < PerPage)
    BY DEF Newest
  <2>2. Cardinality(Newer(p.repo, p.number)) \in Nat
    BY NewerAre DEF WorldInductive, WorldTypes
  <2> QED BY <2>1, <2>2, Constants
<1> HIDE DEF new
<1>6. /\ q \in Pages /\ q.at = page.at /\ q.todo = Tail(page.todo) /\ q.next = page.next
      /\ q.prs = page.prs \cup new /\ q.ledger = page.ledger
      /\ q.githubError = page.githubError /\ q.temporalError = page.temporalError
      /\ q.undecoded = page.undecoded /\ q.asked = page.asked
      /\ q.dead = page.dead /\ q.live = page.live
  BY <1>2, <1>3, <1>4 DEF Pages
<1> HIDE DEF q
<1>7. PrsStand'
  <2>1. IsFiniteSet(page.prs \cup new)
    BY <1>4, FS_Union DEF PageInductive, PageTrue, PrsStand
  <2>2. \A p \in page.prs \cup new : \E r \in pulls : Same(p, r)
    BY <1>4 DEF PageInductive, PageTrue, PrsStand, Same
  <2> QED BY <1>0, <1>6, <2>1, <2>2 DEF PrsStand, worldVars, Same
<1>8. GithubTold'
  <2> SUFFICES ASSUME ~page'.githubError, NEW k \in page'.asked.pulls
               PROVE  \/ k[1] \in Range(page'.todo)
                      \/ \E p \in page'.prs : p.repo = k[1] /\ p.number = k[2]
                      \/ Cardinality(Newer(k[1], k[2])') >= PerPage
    BY DEF GithubTold
  <2>1. ~page.githubError /\ k \in page.asked.pulls
    BY <1>0, <1>6
  <2>2. PICK r \in pulls : r.repo = k[1] /\ r.number = k[2]
    BY <2>1 DEF PageInductive, PageTrue, AskedStands
  <2>3. \/ k[1] \in Range(page.todo)
        \/ \E p \in page.prs : p.repo = k[1] /\ p.number = k[2]
        \/ Cardinality(Newer(k[1], k[2])) >= PerPage
    BY <2>1 DEF PageInductive, PageTold, GithubTold
  <2>4. Newer(k[1], k[2])' = Newer(k[1], k[2])
    BY <1>0 DEF Newer, worldVars
  <2> QED BY <1>0, <1>3, <1>5, <1>6, <2>2, <2>3, <2>4
<1>9. /\ BumpsStand' /\ RootEntriesStand' /\ ReviewsStand' /\ BumpsTold' /\ ReviewsTold'
      /\ RootsTold("scans", Loops)' /\ RootsTold("advisory", {Advisory})' /\ AskedStands'
  BY <1>0, <1>6, TemporalRests
<1>10. RootsWatched'
  BY <1>0, <1>6, WatchRests
<1>11. AllAsked'
  BY <1>0, <1>6 DEF AllAsked
<1> QED BY <1>0, <1>1, <1>6, <1>7, <1>8, <1>9, <1>10, <1>11 DEF PageInductive, PageTrue, PageTold

LEMMA FetchFailsKeeps ==
  ASSUME WorldInductive, PageInductive, FetchFails
  PROVE  WorldInductive' /\ PageInductive'
<1> DEFINE q == [page EXCEPT !.todo = <<>>, !.githubError = TRUE]
<1>0. UNCHANGED worldVars /\ Fails /\ page.at = "reading" /\ page' = q
  BY DEF FetchFails, Reads
<1>1. WorldInductive'
  BY <1>0, FaultsStay, WorldRests
<1>2. page \in Pages /\ <<>> \in Seq(Repos)
  BY DEF PageInductive
<1>3. /\ q \in Pages /\ q.at = page.at /\ q.next = page.next
      /\ q.prs = page.prs /\ q.ledger = page.ledger
      /\ q.githubError = TRUE /\ q.temporalError = page.temporalError
      /\ q.undecoded = page.undecoded /\ q.asked = page.asked
      /\ q.dead = page.dead /\ q.live = page.live
  BY <1>2 DEF Pages
<1> HIDE DEF q
<1>4. PrsStand' /\ GithubTold'
  BY <1>0, <1>3 DEF PageInductive, PageTrue, PrsStand, Same, GithubTold, Newer, worldVars
<1>5. /\ BumpsStand' /\ RootEntriesStand' /\ ReviewsStand' /\ BumpsTold' /\ ReviewsTold'
      /\ RootsTold("scans", Loops)' /\ RootsTold("advisory", {Advisory})' /\ AskedStands'
  BY <1>0, <1>3, TemporalRests
<1>6. RootsWatched'
  BY <1>0, <1>3, WatchRests
<1>7. AllAsked'
  BY <1>0, <1>3 DEF AllAsked
<1> QED BY <1>0, <1>1, <1>3, <1>4, <1>5, <1>6, <1>7 DEF PageInductive, PageTrue, PageTold

\* What Temporal lists, kind by kind.
LEMMA RootsListed ==
  ASSUME WorldInductive, NEW loops
  PROVE  /\ Executions(loops) = ExecutionsIn(roots, loops)
         /\ Executions(loops) \subseteq RootEntries
         /\ \A e \in Executions(loops) : e.start <= MaxRootEvents + 1
<1>1. Executions(loops) = ExecutionsIn(roots, loops)
  BY DEF Executions, ExecutionsIn, Execution
<1>2. \A root \in Roots : \A i \in DOMAIN roots[root] :
        Execution(root, i) \in RootEntries /\ Execution(root, i).start <= MaxRootEvents + 1
  <2> SUFFICES ASSUME NEW root \in Roots, NEW i \in DOMAIN roots[root]
               PROVE  /\ Execution(root, i) \in RootEntries
                      /\ Execution(root, i).start <= MaxRootEvents + 1
    OBVIOUS
  <2>1. /\ i \in Nat /\ i <= Len(roots[root]) /\ Len(roots[root]) \in Nat
        /\ Len(roots[root]) <= rootEvents + 1 /\ rootEvents \in 0..MaxRootEvents
    BY RootIs
  <2>2. i <= MaxRootEvents + 1
    BY <2>1, Constants
  <2>3. roots[root][i] \in RootStatuses
    BY RootIs, SequenceIs
  <2>4. root[2] \in CommitLoops \cup AdvisoryLoops
    BY RootsAre, Constants
  <2> QED BY <2>1, <2>2, <2>3, <2>4 DEF Execution, RootEntries
<1>3. \A e \in Executions(loops) : \E root \in Roots : \E i \in DOMAIN roots[root] :
        e = Execution(root, i)
  BY DEF Executions
<1> QED BY <1>1, <1>2, <1>3

LEMMA BumpsListed ==
  ASSUME WorldInductive, NEW i \in Started(bumps), NEW decoded \in BOOLEAN
  PROVE  LET b == BumpExecution(i, decoded)
         IN  /\ b \in BumpEntries /\ b.id = IdOf(i) /\ b.repo = i.repo /\ b.status = bumps[i].status
             /\ b.number # 0 => /\ bumps[i].status = "completed" /\ b.number = bumps[i].number
                                /\ b.verdict = bumps[i].verdict /\ b.ci = bumps[i].ci
             /\ bumps[i].status = "completed" /\ decoded => b.number = bumps[i].number
<1>1. i \in Proposable /\ bumps[i] \in BumpStates /\ bumps[i].status # "none" /\ i.repo \in Repos
  BY Constants DEF WorldInductive, WorldTypes, Started
<1> QED BY <1>1 DEF BumpExecution, BumpEntries, BumpStates

LEMMA ReviewsListed ==
  ASSUME WorldInductive, NEW i \in Started(reviews), NEW decoded \in BOOLEAN
  PROVE  LET e == ReviewExecution(i, decoded)
         IN  e \in ReviewEntries /\ e.loop = Advisory /\ e.id = IdOfReview(i)
<1>1. i \in Reviewable /\ reviews[i] \in ReviewStates /\ reviews[i].status # "none"
  BY DEF WorldInductive, WorldTypes, Started
<1> QED BY <1>1 DEF ReviewExecution, ReviewEntries, ReviewStates

LEMMA ListedAsIs ==
  ASSUME NEW lost
  PROVE  /\ ListedAs("scans", lost) = Executions(Loops)
         /\ ListedAs("bumps", lost) = {BumpExecution(i, i \notin lost) : i \in Started(bumps)}
         /\ ListedAs("advisory", lost) = Executions({Advisory})
         /\ ListedAs("reviews", lost) = {ReviewExecution(i, i \notin lost) : i \in Started(reviews)}
  BY DEF ListedAs

\* Of what is listed, all or some, everything was so.
LEMMA ListedStands ==
  ASSUME WorldInductive, PageInductive, UNCHANGED worldVars, page.next \in Kinds,
         NEW lost, NEW some \in SUBSET ListedAs(page.next, lost),
         page'.ledger = [page.ledger EXCEPT ![page.next] = some]
  PROVE  /\ page'.ledger \in [Kinds -> SUBSET Entries]
         /\ BumpsStand' /\ RootEntriesStand' /\ ReviewsStand'
<1>1. page.ledger \in [Kinds -> SUBSET Entries]
  BY DEF PageInductive, Pages
<1>2. \A kind \in Kinds :
        page'.ledger[kind] = IF kind = page.next THEN some ELSE page.ledger[kind]
  BY <1>1
<1>3. BumpsStand /\ RootEntriesStand /\ ReviewsStand
  BY DEF PageInductive, PageTrue
<1>4. {"scans", "bumps", "advisory", "reviews"} = Kinds
  BY DEF Kinds
<1>5. /\ page'.ledger["bumps"] \subseteq BumpEntries
      /\ \A b \in page'.ledger["bumps"] : \E i \in Started(bumps) :
           /\ b.id = IdOf(i) /\ b.repo = i.repo
           /\ b.number # 0 => /\ bumps[i].status = "completed" /\ b.number = bumps[i].number
                              /\ b.verdict = bumps[i].verdict /\ b.ci = bumps[i].ci
  <2>1. CASE page.next = "bumps"
    <3>1. page'.ledger["bumps"] \subseteq {BumpExecution(i, i \notin lost) : i \in Started(bumps)}
      BY <1>2, <1>4, <2>1, ListedAsIs
    <3> SUFFICES ASSUME NEW b \in page'.ledger["bumps"]
                 PROVE  b \in BumpEntries /\ \E i \in Started(bumps) :
           /\ b.id = IdOf(i) /\ b.repo = i.repo
           /\ b.number # 0 => /\ bumps[i].status = "completed" /\ b.number = bumps[i].number
                              /\ b.verdict = bumps[i].verdict /\ b.ci = bumps[i].ci
      OBVIOUS
    <3>2. PICK i \in Started(bumps) : b = BumpExecution(i, i \notin lost)
      BY <3>1
    <3>3. (i \notin lost) \in BOOLEAN
      OBVIOUS
    <3> QED BY <3>2, <3>3, BumpsListed
  <2>2. CASE page.next # "bumps"
    BY <1>2, <1>3, <1>4, <2>2 DEF BumpsStand
  <2> QED BY <2>1, <2>2
<1>6. BumpsStand'
  BY <1>5 DEF BumpsStand, Started, worldVars
<1>7. \A kind \in {"scans", "advisory"} : page'.ledger[kind] \subseteq RootEntries
        /\ \A e \in page'.ledger[kind] : e.start <= MaxRootEvents + 1
  <2> SUFFICES ASSUME NEW kind \in {"scans", "advisory"}
               PROVE  /\ page'.ledger[kind] \subseteq RootEntries
                      /\ \A e \in page'.ledger[kind] : e.start <= MaxRootEvents + 1
    OBVIOUS
  <2>1. CASE page.next = kind
    <3>1. \E loops : page'.ledger[kind] \subseteq Executions(loops)
      BY <1>2, <1>4, <2>1, ListedAsIs
    <3> QED BY <3>1, RootsListed
  <2>2. CASE page.next # kind
    BY <1>2, <1>3, <1>4, <2>2 DEF RootEntriesStand
  <2> QED BY <2>1, <2>2
<1>8. RootEntriesStand'
  BY <1>7 DEF RootEntriesStand
<1>9. /\ page'.ledger["reviews"] \subseteq ReviewEntries
      /\ \A e \in page'.ledger["reviews"] : \E i \in Started(reviews) : e.id = IdOfReview(i)
  <2>1. CASE page.next = "reviews"
    <3>1. page'.ledger["reviews"] \subseteq {ReviewExecution(i, i \notin lost) : i \in Started(reviews)}
      BY <1>2, <1>4, <2>1, ListedAsIs
    <3> SUFFICES ASSUME NEW e \in page'.ledger["reviews"]
                 PROVE  e \in ReviewEntries /\ \E i \in Started(reviews) : e.id = IdOfReview(i)
      OBVIOUS
    <3>2. PICK i \in Started(reviews) : e = ReviewExecution(i, i \notin lost)
      BY <3>1
    <3>3. (i \notin lost) \in BOOLEAN
      OBVIOUS
    <3> QED BY <3>2, <3>3, ReviewsListed
  <2>2. CASE page.next # "reviews"
    BY <1>2, <1>3, <1>4, <2>2 DEF ReviewsStand
  <2> QED BY <2>1, <2>2
<1>10. ReviewsStand'
  BY <1>9 DEF ReviewsStand, Started, worldVars
<1>11. page'.ledger \in [Kinds -> SUBSET Entries]
  <2>1. some \subseteq Entries
    <3>1. page'.ledger[page.next] = some
      BY <1>2
    <3> QED BY <1>4, <1>5, <1>7, <1>9, <3>1 DEF Entries
  <2> QED BY <1>1, <2>1
<1> QED BY <1>6, <1>8, <1>10, <1>11

\* What is taken of a list is all of it, or fills the ledger.
LEMMA TakenIs ==
  ASSUME NEW listed, NEW taken \in Taken(listed)
  PROVE  taken \subseteq listed /\ (taken = listed \/ Cardinality(taken) >= MaxPerType)
<1>1. CASE Cardinality(listed) <= MaxPerType
  BY <1>1 DEF Taken
<1>2. CASE ~(Cardinality(listed) <= MaxPerType)
  <2>1. taken \in kSubset(MaxPerType, listed)
    BY <1>2 DEF Taken
  <2>2. taken \subseteq listed /\ Cardinality(taken) = MaxPerType
    BY <2>1 DEF kSubset
  <2> QED BY <2>2, Constants
<1> QED BY <1>1, <1>2

\* A kind that is listed is told, if the list is not full.
LEMMA ListedTells ==
  ASSUME WorldInductive, PageInductive, UNCHANGED worldVars, page.next \in Kinds,
         page.at = "reading", NEW lost, NEW taken \in Taken(ListedAs(page.next, lost)),
         page'.ledger = [page.ledger EXCEPT ![page.next] = taken],
         page'.next = After(page.next), page'.temporalError = page.temporalError,
         page'.undecoded \/ (lost = {} /\ page'.undecoded = page.undecoded),
         page'.asked = page.asked, page'.dead = page.dead, page'.live = page.live
  PROVE  /\ BumpsTold' /\ ReviewsTold'
         /\ RootsTold("scans", Loops)' /\ RootsTold("advisory", {Advisory})'
<1>1. page \in Pages /\ page.ledger \in [Kinds -> SUBSET Entries]
  BY DEF PageInductive, Pages
<1>2. \A kind \in Kinds :
        page'.ledger[kind] = IF kind = page.next THEN taken ELSE page.ledger[kind]
  BY <1>1
<1>12. /\ taken \subseteq ListedAs(page.next, lost)
       /\ \A kind \in Kinds :
            kind = page.next => taken = ListedAs(page.next, lost) \/ Full(kind)'
  <2>1. /\ taken \subseteq ListedAs(page.next, lost)
        /\ taken = ListedAs(page.next, lost) \/ Cardinality(taken) >= MaxPerType
    BY TakenIs
  <2>2. ASSUME NEW kind \in Kinds, kind = page.next, Cardinality(taken) >= MaxPerType
        PROVE  Full(kind)'
    BY <1>2, <2>2 DEF Full
  <2> QED BY <2>1, <2>2
<1>13. \A kind \in Kinds \ {page.next} : Full(kind)' <=> Full(kind)
  BY <1>2 DEF Full
<1>3. {"scans", "bumps", "advisory", "reviews"} = Kinds
  BY DEF Kinds
<1>4. Listed' \subseteq Listed \cup {page.next}
  BY <1>3 DEF Listed, After
<1>5. /\ page.asked.failed \subseteq Proposable /\ page.asked.read \subseteq Proposable
      /\ page.asked.reviews \subseteq Reviewable
  BY <1>1, AskedIs
<1>6. AskedStands /\ BumpsTold /\ ReviewsTold
  BY DEF PageInductive, PageTrue, PageTold
<1>7. /\ \A i \in page.asked.failed : bumps[i].status \in Endings /\ i \in Started(bumps)
      /\ \A i \in page.asked.read : bumps[i].status = "completed" /\ i \in Started(bumps)
      /\ \A i \in page.asked.reviews : i \in Started(reviews)
  BY <1>5, <1>6, Constants DEF AskedStands, Started, WorldInductive, WorldTypes
<1>8. BumpsTold'
  <2>1. CASE page.next = "bumps" /\ ~Full("bumps")'
    <3>1. page'.ledger["bumps"] = {BumpExecution(i, i \notin lost) : i \in Started(bumps)}
      BY <1>2, <1>3, <1>12, <2>1, ListedAsIs
    <3>2. \A i \in page.asked.failed : \E b \in page'.ledger["bumps"] :
            b.id = IdOf(i) /\ b.status \in FailureStatuses
      <4> SUFFICES ASSUME NEW i \in page.asked.failed
                   PROVE  \E b \in page'.ledger["bumps"] : b.id = IdOf(i) /\ b.status \in FailureStatuses
        OBVIOUS
      <4>1. i \in Started(bumps) /\ bumps[i].status \in FailureStatuses /\ (i \notin lost) \in BOOLEAN
        BY <1>7, Constants
      <4>2. /\ BumpExecution(i, i \notin lost).id = IdOf(i)
            /\ BumpExecution(i, i \notin lost).status = bumps[i].status
        BY <4>1, BumpsListed
      <4> QED BY <3>1, <4>1, <4>2
    <3>3. ~page'.undecoded => \A i \in page.asked.read : \E b \in page'.ledger["bumps"] :
            b.repo = i.repo /\ b.number = bumps[i].number
      <4> SUFFICES ASSUME ~page'.undecoded, NEW i \in page.asked.read
                   PROVE  \E b \in page'.ledger["bumps"] :
                            b.repo = i.repo /\ b.number = bumps[i].number
        OBVIOUS
      <4>1. i \in Started(bumps) /\ bumps[i].status = "completed" /\ (i \notin lost) = TRUE
        BY <1>7
      <4>2. /\ BumpExecution(i, i \notin lost).repo = i.repo
            /\ BumpExecution(i, i \notin lost).number = bumps[i].number
        BY <4>1, BumpsListed
      <4> QED BY <3>1, <4>1, <4>2
    <3>4. UNCHANGED bumps
      BY DEF worldVars
    <3> QED BY <3>2, <3>3, <3>4 DEF BumpsTold
  <2>2. CASE page.next # "bumps"
    <3>1. "bumps" \in Listed' => "bumps" \in Listed
      BY <1>4, <2>2
    <3>2. page'.ledger["bumps"] = page.ledger["bumps"]
      BY <1>2, <1>3, <2>2
    <3>3. ~page'.undecoded => ~page.undecoded
      OBVIOUS
    <3>4. UNCHANGED bumps
      BY DEF worldVars
    <3>5. Full("bumps")' <=> Full("bumps")
      BY <1>3, <1>13, <2>2
    <3> QED BY <1>6, <3>1, <3>2, <3>3, <3>4, <3>5 DEF BumpsTold
  <2>3. CASE Full("bumps")'
    BY <2>3 DEF BumpsTold
  <2> QED BY <2>1, <2>2, <2>3
<1>9. ReviewsTold'
  <2>1. CASE page.next = "reviews" /\ ~Full("reviews")'
    <3>1. page'.ledger["reviews"] = {ReviewExecution(i, i \notin lost) : i \in Started(reviews)}
      BY <1>2, <1>3, <1>12, <2>1, ListedAsIs
    <3>2. \A i \in page.asked.reviews : \E e \in page'.ledger["reviews"] :
            e.loop = Advisory /\ e.id = IdOfReview(i)
      <4> SUFFICES ASSUME NEW i \in page.asked.reviews
                   PROVE  \E e \in page'.ledger["reviews"] : e.loop = Advisory /\ e.id = IdOfReview(i)
        OBVIOUS
      <4>1. i \in Started(reviews) /\ (i \notin lost) \in BOOLEAN
        BY <1>7
      <4>2. /\ ReviewExecution(i, i \notin lost).loop = Advisory
            /\ ReviewExecution(i, i \notin lost).id = IdOfReview(i)
        BY <4>1, ReviewsListed
      <4> QED BY <3>1, <4>1, <4>2
    <3> QED BY <3>2 DEF ReviewsTold
  <2>2. CASE page.next # "reviews"
    <3>1. Full("reviews")' <=> Full("reviews")
      BY <1>3, <1>13, <2>2
    <3> QED BY <1>2, <1>3, <1>4, <1>6, <2>2, <3>1 DEF ReviewsTold
  <2>3. CASE Full("reviews")'
    BY <2>3 DEF ReviewsTold
  <2> QED BY <2>1, <2>2, <2>3
<1>10. \A loops : \A kind \in Kinds :
         RootsTold(kind, loops) /\ (kind = page.next => ListedAs(kind, lost) = Executions(loops))
           => RootsTold(kind, loops)'
  <2> SUFFICES ASSUME NEW loops, NEW kind \in Kinds, RootsTold(kind, loops),
                      kind = page.next => ListedAs(kind, lost) = Executions(loops),
                      kind \in Listed', ~page'.temporalError
               PROVE  \E past \in [Roots -> Seq(RootStatuses)] :
                        /\ page'.ledger[kind] \subseteq ExecutionsIn(past, loops)
                        /\ page'.ledger[kind] = ExecutionsIn(past, loops) \/ Full(kind)'
                        /\ \A root \in Roots : Were(past, root)'
    BY DEF RootsTold
  <2>1. CASE kind = page.next
    <3>1. /\ page'.ledger[kind] \subseteq ExecutionsIn(roots, loops)
          /\ page'.ledger[kind] = ExecutionsIn(roots, loops) \/ Full(kind)'
      BY <1>2, <1>12, <2>1, RootsListed
    <3>2. roots \in [Roots -> Seq(RootStatuses)]
      BY DEF WorldInductive, WorldTypes
    <3>3. \A root \in Roots : Were(roots, root)
      BY RootIs DEF Were, Ran, DeathsIn, Deaths, PageInductive, RootsWatched, Running, LastOf
    <3>4. \A root \in Roots : Were(roots, root)'
      BY <3>3 DEF Were, Deaths, DeathsIn, worldVars
    <3>5. roots' = roots
      BY DEF worldVars
    <3> QED BY <3>1, <3>2, <3>4, <3>5
  <2>2. CASE kind # page.next
    <3>1. PICK past \in [Roots -> Seq(RootStatuses)] :
            /\ page.ledger[kind] \subseteq ExecutionsIn(past, loops)
            /\ page.ledger[kind] = ExecutionsIn(past, loops) \/ Full(kind)
            /\ \A root \in Roots : Were(past, root)
      BY <1>4, <2>2 DEF RootsTold
    <3>2. \A root \in Roots : Were(past, root)'
      BY <3>1 DEF Were, Deaths, worldVars
    <3>3. Full(kind)' <=> Full(kind)
      BY <1>13, <2>2
    <3> QED BY <1>2, <2>2, <3>1, <3>2, <3>3
  <2> QED BY <2>1, <2>2
<1>11. RootsTold("scans", Loops)' /\ RootsTold("advisory", {Advisory})'
  BY <1>3, <1>10, ListedAsIs DEF PageInductive, PageTold
<1> QED BY <1>8, <1>9, <1>11

LEMMA ListKeeps ==
  ASSUME WorldInductive, PageInductive, List
  PROVE  WorldInductive' /\ PageInductive'
<1>11. PICK taken \in Taken(ListedAs(page.next, {})) :
         Reads([page EXCEPT !.next = After(@), !.ledger[page.next] = taken])
  BY DEF List
<1> DEFINE ledger == [page.ledger EXCEPT ![page.next] = taken]
           q == [page EXCEPT !.next = After(@), !.ledger[page.next] = taken]
<1>0. /\ UNCHANGED worldVars /\ UNCHANGED faults /\ page.at = "reading"
      /\ page.next # "done" /\ page' = q
  BY <1>11 DEF List, Reads
<1>1. WorldInductive'
  BY <1>0, FaultsStay, WorldRests
<1>2. page \in Pages /\ page.next \in Kinds
  BY <1>0 DEF PageInductive, Pages
<1>3. After(page.next) \in Kinds \cup {"done"} /\ q.ledger = ledger
  BY <1>2 DEF After, Kinds, Pages
<1>4. /\ page'.next = After(page.next) /\ page'.ledger = ledger
      /\ page'.at = page.at /\ page'.todo = page.todo
      /\ page'.prs = page.prs
      /\ page'.githubError = page.githubError /\ page'.temporalError = page.temporalError
      /\ page'.undecoded = page.undecoded /\ page'.asked = page.asked
      /\ page'.dead = page.dead /\ page'.live = page.live
  BY <1>0, <1>2, <1>3 DEF Pages
<1>5. /\ page'.ledger \in [Kinds -> SUBSET Entries]
      /\ BumpsStand' /\ RootEntriesStand' /\ ReviewsStand'
  <2>1. taken \in SUBSET ListedAs(page.next, {})
    BY TakenIs
  <2> QED BY <1>0, <1>2, <1>4, <2>1, ListedStands
<1>6. /\ BumpsTold' /\ ReviewsTold'
      /\ RootsTold("scans", Loops)' /\ RootsTold("advisory", {Advisory})'
  BY <1>0, <1>2, <1>4, ListedTells
<1>7. page' \in Pages
  BY <1>0, <1>2, <1>3, <1>4, <1>5 DEF Pages
<1>8. PrsStand' /\ GithubTold' /\ AskedStands'
  BY <1>0, <1>4, GithubRests
<1>9. RootsWatched'
  BY <1>0, <1>4, WatchRests
<1>10. AllAsked'
  BY <1>0, <1>4 DEF AllAsked
<1> QED BY <1>1, <1>5, <1>6, <1>7, <1>8, <1>9, <1>10 DEF PageInductive, PageTrue, PageTold

LEMMA ListUndecodedKeeps ==
  ASSUME WorldInductive, PageInductive, ListUndecoded
  PROVE  WorldInductive' /\ PageInductive'
<1>0. PICK item : \E taken \in Taken(ListedAs(page.next, {item})) :
        Reads([page EXCEPT !.next = After(@), !.undecoded = TRUE, !.ledger[page.next] = taken])
  BY DEF ListUndecoded
<1>12. PICK taken \in Taken(ListedAs(page.next, {item})) :
        Reads([page EXCEPT !.next = After(@), !.undecoded = TRUE, !.ledger[page.next] = taken])
  BY <1>0
<1> DEFINE ledger == [page.ledger EXCEPT ![page.next] = taken]
           q == [page EXCEPT !.next = After(@), !.undecoded = TRUE, !.ledger[page.next] = taken]
<1>1. /\ UNCHANGED worldVars /\ Fails /\ page.at = "reading"
      /\ page.next \in {"bumps", "reviews"} /\ page' = q
  BY <1>12 DEF ListUndecoded, Reads
<1>2. WorldInductive'
  BY <1>1, FaultsStay, WorldRests
<1>3. page \in Pages /\ page.next \in Kinds
  BY <1>1 DEF PageInductive, Kinds
<1>4. After(page.next) \in Kinds \cup {"done"} /\ q.ledger = ledger
  BY <1>3 DEF After, Kinds, Pages
<1>5. /\ page'.next = After(page.next) /\ page'.ledger = ledger
      /\ page'.at = page.at /\ page'.todo = page.todo
      /\ page'.prs = page.prs
      /\ page'.githubError = page.githubError /\ page'.temporalError = page.temporalError
      /\ page'.undecoded = TRUE /\ page'.asked = page.asked
      /\ page'.dead = page.dead /\ page'.live = page.live
  BY <1>1, <1>3, <1>4 DEF Pages
<1>6. /\ page'.ledger \in [Kinds -> SUBSET Entries]
      /\ BumpsStand' /\ RootEntriesStand' /\ ReviewsStand'
  <2>1. taken \in SUBSET ListedAs(page.next, {item})
    BY TakenIs
  <2> QED BY <1>1, <1>3, <1>5, <2>1, ListedStands
<1>7. /\ BumpsTold' /\ ReviewsTold'
      /\ RootsTold("scans", Loops)' /\ RootsTold("advisory", {Advisory})'
  BY <1>1, <1>3, <1>5, ListedTells
<1>8. page' \in Pages
  BY <1>1, <1>3, <1>4, <1>5, <1>6 DEF Pages
<1>9. PrsStand' /\ GithubTold' /\ AskedStands'
  BY <1>1, <1>5, GithubRests
<1>10. RootsWatched'
  BY <1>1, <1>5, WatchRests
<1>11. AllAsked'
  BY <1>1, <1>5 DEF AllAsked
<1> QED BY <1>2, <1>6, <1>7, <1>8, <1>9, <1>10, <1>11 DEF PageInductive, PageTrue, PageTold

\* An error keeps what came before it and is told.
LEMMA ListFailsKeeps ==
  ASSUME WorldInductive, PageInductive, ListFails
  PROVE  WorldInductive' /\ PageInductive'
<1>0. PICK some \in SUBSET ListedAs(page.next, {}) :
        Reads([page EXCEPT !.next = "done", !.temporalError = TRUE, !.ledger[page.next] = some])
  BY DEF ListFails
<1> DEFINE ledger == [page.ledger EXCEPT ![page.next] = some]
           q == [page EXCEPT !.next = "done", !.temporalError = TRUE, !.ledger[page.next] = some]
<1>1. /\ UNCHANGED worldVars /\ Fails /\ page.at = "reading"
      /\ page.next # "done" /\ page' = q
  BY <1>0 DEF ListFails, Reads
<1>2. WorldInductive'
  BY <1>1, FaultsStay, WorldRests
<1>3. page \in Pages /\ page.next \in Kinds
  BY <1>1 DEF PageInductive, Pages
<1>4. q.ledger = ledger
  BY <1>3 DEF Kinds, Pages
<1>5. /\ page'.next = "done" /\ page'.ledger = ledger
      /\ page'.at = page.at /\ page'.todo = page.todo
      /\ page'.prs = page.prs
      /\ page'.githubError = page.githubError /\ page'.temporalError = TRUE
      /\ page'.undecoded = page.undecoded /\ page'.asked = page.asked
      /\ page'.dead = page.dead /\ page'.live = page.live
  BY <1>1, <1>3, <1>4 DEF Pages
<1>6. /\ page'.ledger \in [Kinds -> SUBSET Entries]
      /\ BumpsStand' /\ RootEntriesStand' /\ ReviewsStand'
  BY <1>1, <1>3, <1>5, ListedStands
<1>7. /\ BumpsTold' /\ ReviewsTold'
      /\ RootsTold("scans", Loops)' /\ RootsTold("advisory", {Advisory})'
  BY <1>5 DEF BumpsTold, ReviewsTold, RootsTold
<1>8. page' \in Pages
  BY <1>1, <1>3, <1>5, <1>6 DEF Pages
<1>9. PrsStand' /\ GithubTold' /\ AskedStands'
  BY <1>1, <1>5, GithubRests
<1>10. RootsWatched'
  BY <1>1, <1>5, WatchRests
<1>11. AllAsked'
  BY <1>1, <1>5 DEF AllAsked
<1> QED BY <1>2, <1>6, <1>7, <1>8, <1>9, <1>10, <1>11 DEF PageInductive, PageTrue, PageTold

LEMMA FetchOutcomesKeeps ==
  ASSUME WorldInductive, PageInductive, FetchOutcomes
  PROVE  WorldInductive' /\ PageInductive'
<1>1. PICK read \in SUBSET Merged :
        /\ \E said \in [read -> {"held", "broke"}] :
             Reads([page EXCEPT !.at = "shown",
               !.outcomes = [key \in Keys |-> IF key \in read THEN said[key] ELSE @[key]]])
        /\ IF read = Merged THEN UNCHANGED faults ELSE Fails
  BY DEF FetchOutcomes
<1>2. PICK said \in [read -> {"held", "broke"}] :
        Reads([page EXCEPT !.at = "shown",
               !.outcomes = [key \in Keys |-> IF key \in read THEN said[key] ELSE @[key]]])
  BY <1>1
<1> DEFINE outcomes == [key \in Keys |-> IF key \in read THEN said[key] ELSE page.outcomes[key]]
           q == [page EXCEPT !.at = "shown", !.outcomes = outcomes]
<1>3. /\ UNCHANGED worldVars /\ page' = q /\ page.at = "reading"
      /\ page.todo = <<>> /\ page.next = "done"
  BY <1>2 DEF Reads, FetchOutcomes
<1>4. UNCHANGED faults \/ Fails
  BY <1>1
<1>5. WorldInductive'
  BY <1>3, <1>4, FaultsStay, WorldRests
<1>6. page \in Pages /\ page.prs \subseteq Pulls
  BY DEF PageInductive, Pages
<1>7. outcomes \in [Keys -> {"none", "held", "broke"}]
  BY <1>6 DEF Pages
<1> HIDE DEF outcomes
<1>8. /\ q \in Pages /\ q.at = "shown" /\ q.todo = page.todo /\ q.next = page.next
      /\ q.prs = page.prs /\ q.ledger = page.ledger
      /\ q.githubError = page.githubError /\ q.temporalError = page.temporalError
      /\ q.undecoded = page.undecoded /\ q.asked = page.asked
      /\ q.dead = page.dead /\ q.live = page.live
  BY <1>6, <1>7 DEF Pages
<1> HIDE DEF q
<1>9. PrsStand' /\ GithubTold' /\ AskedStands'
  BY <1>3, <1>8, GithubRests
<1>10. /\ BumpsStand' /\ RootEntriesStand' /\ ReviewsStand' /\ BumpsTold' /\ ReviewsTold'
       /\ RootsTold("scans", Loops)' /\ RootsTold("advisory", {Advisory})' /\ AskedStands'
  BY <1>3, <1>8, TemporalRests
<1>11. RootsWatched' /\ AllAsked'
  BY <1>3, <1>8 DEF RootsWatched, AllAsked
<1> QED BY <1>3, <1>5, <1>8, <1>9, <1>10, <1>11 DEF PageInductive, PageTrue, PageTold

-----------------------------------------------------------------------------
(* The invariant.                                                          *)

LEMMA OneIs ==
  ASSUME NEW S, NEW x \in S
  PROVE  <<x>> \in Seq(S) /\ Len(<<x>>) = 1 /\ <<x>>[1] = x /\ <<>> \in Seq(S) /\ Len(<<>>) = 0
  OBVIOUS

LEMMA PanelStarts == Init => PanelInductive
<1> SUFFICES ASSUME Init PROVE PanelInductive
  OBVIOUS
<1>1. PICK running \in {{}, Moving} :
        roots = [root \in Roots |-> IF root \in running THEN <<"running">> ELSE <<>>]
  BY DEF Init
<1>2. /\ pulls = {} /\ bumps = [item \in Proposable |-> NoBump]
      /\ reviews = [item \in Reviewable |-> NoReview] /\ page = IdlePage
      /\ faults = 0 /\ rootEvents = 0
  BY DEF Init
<1>3. \A statuses \in {<<>>, <<"running">>} :
        /\ statuses \in Seq(RootStatuses) /\ Len(statuses) <= 1 /\ LastSays(statuses)
  <2> SUFFICES ASSUME NEW statuses \in {<<>>, <<"running">>}
               PROVE  /\ statuses \in Seq(RootStatuses) /\ Len(statuses) <= 1
                      /\ LastSays(statuses)
    OBVIOUS
  <2>1. "running" \in RootStatuses
    BY DEF RootStatuses, LiveStatuses
  <2>2. CASE statuses = <<>>
    BY <2>1, <2>2, OneIs DEF LastSays
  <2>3. CASE statuses = <<"running">>
    BY <2>1, <2>3, OneIs DEF LastSays
  <2> QED BY <2>2, <2>3
<1>4. NoBump \in BumpStates /\ NoReview \in ReviewStates
  BY DEF NoBump, BumpStates, NoReview, ReviewStates
<1>5. Started(bumps) = {} /\ Started(reviews) = {} /\ Numbered = {}
  BY <1>2 DEF Started, Numbered, NoBump, NoReview
<1>6. IsFiniteSet({}) /\ Cardinality({}) = 0
  BY FS_EmptySet
<1>18. \A root \in Roots : roots[root] \in {<<>>, <<"running">>}
  BY <1>1
<1>7. WorldTypes
  <2>1. roots \in [Roots -> Seq(RootStatuses)]
    BY <1>1, <1>3
  <2> QED BY <1>2, <1>4, <1>6, <2>1, Constants DEF WorldTypes
<1>8. PullsInStep
  BY <1>2 DEF PullsInStep
<1>9. BumpsInStep
  <2>1. \A i \in Proposable : bumps[i].status # "completed"
    BY <1>2 DEF NoBump
  <2>2. IsFiniteSet(Started(bumps)) /\ Cardinality(Started(bumps)) <= MaxBumps
    BY <1>5, <1>6, Constants
  <2>3. Cardinality(pulls) <= Cardinality(Numbered)
    BY <1>2, <1>5, <1>6
  <2> QED BY <1>5, <2>1, <2>2, <2>3 DEF BumpsInStep
<1>10. RootsInStep
  <2>1. \A root \in Roots : Len(roots[root]) <= 1 /\ LastSays(roots[root])
    BY <1>3, <1>18
  <2> QED BY <1>2, <2>1 DEF RootsInStep
<1>11. WorldInductive
  BY <1>7, <1>8, <1>9, <1>10 DEF WorldInductive
<1>12. /\ page \in Pages /\ page.at = "idle" /\ page.todo = <<>> /\ page.prs = {}
       /\ page.next = "scans" /\ \A kind \in Kinds : page.ledger[kind] = {}
       /\ page.asked = NothingAsked
  BY <1>2, IdlePageIs
<1>13. /\ page.asked.pulls = {} /\ page.asked.failed = {} /\ page.asked.read = {}
       /\ page.asked.reviews = {}
       /\ page.ledger["bumps"] = {} /\ page.ledger["scans"] = {} /\ page.ledger["advisory"] = {}
       /\ page.ledger["reviews"] = {}
  BY <1>12 DEF NothingAsked, Kinds
<1>14. Listed = {}
  BY <1>12 DEF Listed
<1>15. PageTrue
  BY <1>6, <1>12, <1>13
     DEF PageTrue, PrsStand, AskedStands, BumpsStand, ReviewsStand, RootEntriesStand
<1>16. PageTold
  BY <1>13, <1>14 DEF PageTold, GithubTold, BumpsTold, ReviewsTold, RootsTold
<1>17. RootsWatched /\ AllAsked
  BY <1>12 DEF RootsWatched, AllAsked
<1> QED BY <1>11, <1>12, <1>15, <1>16, <1>17 DEF PanelInductive, PageInductive

LEMMA PanelRests ==
  ASSUME PanelInductive, UNCHANGED vars
  PROVE  PanelInductive'
<1>1. WorldInductive /\ PageInductive
  BY DEF PanelInductive
<1>2. UNCHANGED worldVars /\ UNCHANGED page /\ UNCHANGED faults
  BY DEF vars
<1>3. WorldInductive'
  BY <1>1, <1>2, FaultsStay, WorldRests
<1>4. PrsStand' /\ GithubTold' /\ AskedStands'
  BY <1>1, <1>2, GithubRests
<1>5. /\ BumpsStand' /\ RootEntriesStand' /\ ReviewsStand' /\ BumpsTold' /\ ReviewsTold'
      /\ RootsTold("scans", Loops)' /\ RootsTold("advisory", {Advisory})'
  BY <1>1, <1>2, TemporalRests
<1>6. RootsWatched'
  BY <1>1, <1>2, WatchRests
<1>7. page' \in Pages /\ AllAsked'
  BY <1>1, <1>2 DEF PageInductive, AllAsked
<1> QED BY <1>3, <1>4, <1>5, <1>6, <1>7
        DEF PanelInductive, PageInductive, PageTrue, PageTold

LEMMA PanelSteps == PanelInductive /\ [Next]_vars => PanelInductive'
<1> SUFFICES ASSUME PanelInductive, [Next]_vars PROVE PanelInductive'
  OBVIOUS
<1>1. WorldInductive /\ PageInductive
  BY DEF PanelInductive
<1>2. CASE World
  BY <1>1, <1>2, WorldKeeps, PageKeeps DEF PanelInductive
<1>3. CASE BuildHtml
  BY <1>1, <1>3, RequestKeeps, FetchKeeps, FetchFailsKeeps, ListKeeps, ListUndecodedKeeps,
     ListFailsKeeps, FetchOutcomesKeeps DEF BuildHtml, PanelInductive
<1>4. CASE UNCHANGED vars
  BY <1>4, PanelRests
<1> QED BY <1>2, <1>3, <1>4 DEF Next

\* What a page has is so, or is what it was when it was listed, and if a source
\* has answered it has what there was at the request.
THEOREM PanelInductiveHolds == Spec => []PanelInductive
<1> QED BY PanelStarts, PanelSteps, PTL DEF Spec

-----------------------------------------------------------------------------
(* What is shown.                                                          *)

LEMMA ShownIs ==
  /\ Shown.bumps = Genuine(BumpRows(page.prs, page.ledger["bumps"], page.outcomes))
  /\ Shown.failures = Failures(page.ledger["bumps"])
  /\ Shown.scanLoops = ScanLoops(Repos, Loops, page.ledger["scans"])
  /\ Shown.advisory = {AdvisoryView(Read, Advisory)}
  /\ AdvisoryView(Read, Advisory).loops =
       AdvisoryLiveness(Advisory, Repos, page.ledger["advisory"])
  /\ AdvisoryView(Read, Advisory).rows =
       AdvisoryRows(Advisory, page.ledger["reviews"], Repos)
  /\ Shown.classGates = ClassGates(Read, Shown.bumps, Loops)
  /\ Shown.flapping =
       Flapping(Shown.scanLoops \cup UNION {view.loops : view \in Shown.advisory})
<1>1. /\ Read.prs = page.prs /\ Read.bumps = page.ledger["bumps"] /\ Read.outcomes = page.outcomes
      /\ Read.repos = Repos /\ Read.loops = Loops /\ Read.scans = page.ledger["scans"]
      /\ Read.advisory = page.ledger["advisory"] /\ Read.reviews = page.ledger["reviews"]
  BY DEF Read
<1>2. /\ Shown.bumps = Genuine(BumpRows(Read.prs, Read.bumps, Read.outcomes))
      /\ Shown.failures = Failures(Read.bumps)
      /\ Shown.scanLoops = ScanLoops(Read.repos, Read.loops, Read.scans)
      /\ Shown.advisory = {AdvisoryView(Read, l) : l \in {Advisory}}
      /\ Shown.classGates = ClassGates(Read, Shown.bumps, Read.loops)
      /\ Shown.flapping =
           Flapping(Shown.scanLoops \cup UNION {view.loops : view \in Shown.advisory})
  BY DEF Shown, Assemble
<1>3. {AdvisoryView(Read, l) : l \in {Advisory}} = {AdvisoryView(Read, Advisory)}
  OBVIOUS
<1>4. /\ AdvisoryView(Read, Advisory).loops =
           AdvisoryLiveness(Advisory, Read.repos, Read.advisory)
      /\ AdvisoryView(Read, Advisory).rows =
           AdvisoryRows(Advisory, Read.reviews, Read.repos)
  BY DEF AdvisoryView
<1> QED BY <1>1, <1>2, <1>3, <1>4

\* What a row has is of its pull request, and of one bump of it that is over,
\* if any was listed.
LEMMA RowIs ==
  ASSUME PanelInductive, NEW p \in page.prs, NEW row,
         row = BumpRow(p, page.ledger["bumps"], page.outcomes)
  PROVE  /\ row.repo = p.repo /\ row.number = p.number
         /\ \/ /\ Joined(p, page.ledger["bumps"]) = {}
               /\ row.ci = "none" /\ row.verdict = p.verdict
            \/ \E i \in Numbered :
                 /\ bumps[i].status = "completed" /\ i.repo = p.repo
                 /\ bumps[i].number = p.number /\ row.ci = bumps[i].ci
                 /\ row.verdict = bumps[i].verdict \/ row.verdict = p.verdict
<1> DEFINE all == page.ledger["bumps"]
<1>1. /\ row.repo = p.repo /\ row.number = p.number
      /\ row.ci = OfJoined(p, all, "ci") /\ row.verdict = Or(OfJoined(p, all, "verdict"), p.verdict)
  BY DEF BumpRow
<1>2. CASE Joined(p, all) = {}
  BY <1>1, <1>2 DEF OfJoined, Or
<1>3. CASE Joined(p, all) # {}
  <2> DEFINE e == CHOOSE b \in Joined(p, all) : TRUE
  <2>1. e \in Joined(p, all)
    BY <1>3
  <2>2. e \in all /\ e.repo = p.repo /\ e.number = p.number
    BY <2>1 DEF Joined
  <2>3. OfJoined(p, all, "ci") = e["ci"] /\ OfJoined(p, all, "verdict") = e["verdict"]
    BY <1>3 DEF OfJoined
  <2> HIDE DEF e
  <2>4. p \in Pulls /\ p.number # 0
    BY DEF PanelInductive, PageInductive, Pages, Pulls, Numbers
  <2>5. PICK i \in Started(bumps) :
          /\ e.repo = i.repo
          /\ e.number # 0 => /\ bumps[i].status = "completed" /\ e.number = bumps[i].number
                             /\ e.verdict = bumps[i].verdict /\ e.ci = bumps[i].ci
    BY <2>2 DEF PanelInductive, PageInductive, PageTrue, BumpsStand
  <2>6. /\ bumps[i].status = "completed" /\ e.number = bumps[i].number
        /\ e.verdict = bumps[i].verdict /\ e.ci = bumps[i].ci
    BY <2>2, <2>4, <2>5
  <2>7. i \in Proposable
    BY DEF PanelInductive, WorldInductive, WorldTypes, Started
  <2>8. i \in Numbered
    BY <2>6, <2>7 DEF PanelInductive, WorldInductive, BumpsInStep
  <2>9. row.ci = bumps[i].ci /\ (row.verdict = bumps[i].verdict \/ row.verdict = p.verdict)
    BY <1>1, <2>3, <2>6 DEF Or
  <2> QED BY <1>1, <2>2, <2>5, <2>6, <2>8, <2>9
<1> QED BY <1>2, <1>3

LEMMA RowOfPull ==
  ASSUME NEW row \in Shown.bumps
  PROVE  \E p \in page.prs : row = BumpRow(p, page.ledger["bumps"], page.outcomes)
  BY ShownIs DEF Genuine, BumpRows

LEMMA RowsAreOwn == PanelInductive => RowsAreTheirOwn
<1> SUFFICES ASSUME PanelInductive, NEW row \in Shown.bumps
             PROVE  /\ \E p \in pulls : /\ p.repo = row.repo /\ p.number = row.number
                                        /\ p.verdict = row.verdict
                    /\ \/ row.ci = "none"
                       \/ \E i \in Started(bumps) :
                            /\ i.repo = row.repo /\ bumps[i].number = row.number
                            /\ bumps[i].status = "completed" /\ bumps[i].ci = row.ci
  BY DEF RowsAreTheirOwn
<1>1. PICK p \in page.prs : row = BumpRow(p, page.ledger["bumps"], page.outcomes)
  BY RowOfPull
<1>2. PICK q \in pulls : q.repo = p.repo /\ q.number = p.number /\ q.verdict = p.verdict
  BY DEF PanelInductive, PageInductive, PageTrue, PrsStand, Same
<1>3. row.repo = p.repo /\ row.number = p.number
  BY <1>1, RowIs
<1>4. CASE row.ci = "none" /\ row.verdict = p.verdict
  BY <1>2, <1>3, <1>4
<1>5. CASE \E i \in Numbered :
             /\ bumps[i].status = "completed" /\ i.repo = p.repo
             /\ bumps[i].number = p.number /\ row.ci = bumps[i].ci
             /\ row.verdict = bumps[i].verdict \/ row.verdict = p.verdict
  <2>1. PICK i \in Numbered :
             /\ bumps[i].status = "completed" /\ i.repo = p.repo
             /\ bumps[i].number = p.number /\ row.ci = bumps[i].ci
             /\ row.verdict = bumps[i].verdict \/ row.verdict = p.verdict
    BY <1>5
  <2>2. i \in Started(bumps) /\ \E r \in pulls : /\ r.repo = i.repo /\ r.number = bumps[i].number
                                                 /\ r.verdict = bumps[i].verdict
    BY DEF PanelInductive, WorldInductive, BumpsInStep
  <2>3. \E r \in pulls : r.repo = row.repo /\ r.number = row.number /\ r.verdict = row.verdict
    BY <1>2, <1>3, <2>1, <2>2
  <2> QED BY <1>3, <2>1, <2>2, <2>3
<1> QED BY <1>1, <1>4, <1>5, RowIs

\* What a row says of the verdict its own pull request says, and of CI its own
\* bump, never a like-numbered one elsewhere.
THEOREM RowsOfTheirOwn == Spec => []RowsAreTheirOwn
<1> QED BY PanelInductiveHolds, RowsAreOwn, PTL

LEMMA MissesForCause == PanelInductive => MissingForCause
<1> SUFFICES ASSUME PanelInductive, IsShown, ~page.githubError, ~page.temporalError
             PROVE  /\ \A k \in page.asked.pulls :
                         \/ \E p \in page.prs : p.repo = k[1] /\ p.number = k[2]
                         \/ Cardinality(Newer(k[1], k[2])) >= PerPage
                    /\ \/ Full("bumps")
                       \/ /\ \A i \in page.asked.failed : \E f \in Shown.failures : f.id = IdOf(i)
                          /\ ~page.undecoded =>
                               \A i \in page.asked.read : \A row \in Shown.bumps :
                                 row.repo = i.repo /\ row.number = bumps[i].number
                                   => row.ci = bumps[i].ci
                    /\ \A i \in page.asked.reviews :
                         \/ Full("reviews")
                         \/ \E view \in Shown.advisory : \E row \in view.rows :
                              row.id = IdOfReview(i)
  BY DEF MissingForCause
<1>1. /\ page \in Pages /\ page.todo = <<>> /\ page.next = "done" /\ Listed = Kinds
      /\ GithubTold /\ BumpsTold /\ ReviewsTold /\ AskedStands
  BY DEF PanelInductive, PageInductive, AllAsked, IsShown, PageTold, PageTrue, Listed
<1>2. \A k \in page.asked.pulls :
        \/ \E p \in page.prs : p.repo = k[1] /\ p.number = k[2]
        \/ Cardinality(Newer(k[1], k[2])) >= PerPage
  <2>1. \A k \in page.asked.pulls : k[1] \notin Range(page.todo)
    BY <1>1 DEF Range
  <2> QED BY <1>1, <2>1 DEF GithubTold
<1>3. ~Full("bumps") => \A i \in page.asked.failed : \E f \in Shown.failures : f.id = IdOf(i)
  <2> SUFFICES ASSUME ~Full("bumps"), NEW i \in page.asked.failed
               PROVE  \E f \in Shown.failures : f.id = IdOf(i)
    OBVIOUS
  <2>1. PICK b \in page.ledger["bumps"] : b.id = IdOf(i) /\ b.status \in FailureStatuses
    BY <1>1 DEF BumpsTold, Kinds
  <2>2. [id |-> b.id, kind |-> b.status] \in Failures(page.ledger["bumps"])
    BY <2>1 DEF Failures, Failed
  <2> QED BY <2>1, <2>2, ShownIs
<1>4. ASSUME ~Full("bumps"), ~page.undecoded, NEW i \in page.asked.read, NEW row \in Shown.bumps,
             row.repo = i.repo, row.number = bumps[i].number
      PROVE  row.ci = bumps[i].ci
  <2>1. PICK p \in page.prs : row = BumpRow(p, page.ledger["bumps"], page.outcomes)
    BY RowOfPull
  <2>2. row.repo = p.repo /\ row.number = p.number
    BY <2>1, RowIs
  <2>3. PICK b \in page.ledger["bumps"] : b.repo = i.repo /\ b.number = bumps[i].number
    BY <1>1, <1>4 DEF BumpsTold, Kinds
  <2>4. Joined(p, page.ledger["bumps"]) # {}
    BY <1>4, <2>2, <2>3 DEF Joined
  <2>5. PICK j \in Numbered :
          /\ bumps[j].status = "completed" /\ j.repo = p.repo
          /\ bumps[j].number = p.number /\ row.ci = bumps[j].ci
    BY <2>1, <2>4, RowIs
  <2>6. i \in Numbered
    BY <1>1, AskedIs DEF AskedStands, PanelInductive, WorldInductive, BumpsInStep
  <2>7. i = j
    BY <1>4, <2>2, <2>5, <2>6 DEF PanelInductive, WorldInductive, BumpsInStep
  <2> QED BY <2>5, <2>7
<1>5. ~Full("reviews") => \A i \in page.asked.reviews : \E view \in Shown.advisory :
        \E row \in view.rows : row.id = IdOfReview(i)
  <2> SUFFICES ASSUME ~Full("reviews"), NEW i \in page.asked.reviews
               PROVE  \E view \in Shown.advisory : \E row \in view.rows : row.id = IdOfReview(i)
    OBVIOUS
  <2>1. PICK e \in page.ledger["reviews"] : e.loop = Advisory /\ e.id = IdOfReview(i)
    BY <1>1 DEF ReviewsTold, Kinds
  <2>2. AdvisoryRow(Advisory, e, Repos) \in AdvisoryRows(Advisory, page.ledger["reviews"], Repos)
    BY <2>1 DEF AdvisoryRows
  <2>3. AdvisoryRow(Advisory, e, Repos).id = IdOfReview(i)
    BY <2>1 DEF AdvisoryRow
  <2> QED BY <2>2, <2>3, ShownIs
<1> QED BY <1>2, <1>3, <1>4, <1>5

\* If the sources answered, what there was at the request is on the page, but for
\* what newer pull requests or other executions leave no room for.
THEOREM PageMissesForCause == Spec => []MissingForCause
<1> QED BY PanelInductiveHolds, MissesForCause, PTL

-----------------------------------------------------------------------------
(* The rows of the roots.                                                  *)

LEMMA Images ==
  ASSUME NEW S, IsFiniteSet(S), NEW f, f = [x \in S |-> f[x]],
         \A x, y \in S : f[x] = f[y] => x = y
  PROVE  /\ IsFiniteSet({f[x] : x \in S})
         /\ Cardinality({f[x] : x \in S}) = Cardinality(S)
<1> DEFINE T == {f[x] : x \in S}
<1>1. f \in [S -> T]
  OBVIOUS
<1>2. f \in Surjection(S, T) /\ f \in Injection(S, T)
  BY <1>1 DEF Surjection, Injection, IsInjective
<1> QED BY <1>2, FS_Surjection

\* The executions of one root among those of all: no other has its id.
ExecutionsOf(past, root) ==
  {[loop |-> root[2], id |-> RootId(root), status |-> past[root][i], start |-> i] :
     i \in DOMAIN past[root]}

LEMMA OfTheRoot ==
  ASSUME RootsApart, NEW past, NEW loops, NEW root \in Roots, root[2] \in loops
  PROVE  {e \in ExecutionsIn(past, loops) : e.id = RootId(root)} = ExecutionsOf(past, root)
<1>1. ExecutionsOf(past, root) \subseteq ExecutionsIn(past, loops)
  BY DEF ExecutionsOf, ExecutionsIn
<1>2. \A e \in ExecutionsOf(past, root) : e.id = RootId(root)
  BY DEF ExecutionsOf
<1>3. ASSUME NEW e \in ExecutionsIn(past, loops), e.id = RootId(root)
      PROVE  e \in ExecutionsOf(past, root)
  <2>1. PICK other \in Roots : e \in ExecutionsOf(past, other)
    BY DEF ExecutionsIn, ExecutionsOf
  <2>2. e.id = RootId(other)
    BY <2>1 DEF ExecutionsOf
  <2>3. other = root
    BY <1>3, <2>2 DEF RootsApart
  <2> QED BY <2>1, <2>3
<1> QED BY <1>1, <1>2, <1>3

LEMMA NewestIs ==
  ASSUME NEW n \in Nat, n >= 1, NEW entry, \A i \in 1..n : entry[i].start = i
  PROVE  Latest({entry[i] : i \in 1..n}) = {entry[n]}
<1> DEFINE execs == {entry[i] : i \in 1..n}
<1>1. entry[n] \in execs /\ entry[n].start = n
  OBVIOUS
<1>2. \A e \in execs : \E i \in 1..n : e = entry[i] /\ e.start = i
  OBVIOUS
<1> HIDE DEF execs
<1>3. \A e \in execs : e.start <= n /\ (n <= e.start => e = entry[n])
  BY <1>2
<1>4. Latest(execs) = {entry[n]}
  BY <1>1, <1>3 DEF Latest
<1> QED BY <1>4 DEF execs

\* The newest execution tells whether the root is live, and each death counts.
LEMMA RootRowSays ==
  ASSUME PanelInductive, NEW past \in [Roots -> Seq(RootStatuses)], NEW root \in Roots,
         Were(past, root), NEW repo, NEW loop
  PROVE  LET row == RootRow(repo, loop, ExecutionsOf(past, root))
         IN  /\ row.repo = repo /\ row.loop = loop
             /\ row.live = Ran(past[root])
             /\ row.recentFailures = Cardinality(DeathsIn(past, root))
<1> DEFINE s == past[root]
           execs == ExecutionsOf(past, root)
           row == RootRow(repo, loop, execs)
<1>1. /\ s \in Seq(RootStatuses) /\ Len(s) \in Nat /\ DOMAIN s = 1..Len(s)
      /\ \A i \in DOMAIN s : s[i] \in RootStatuses
      /\ s # <<>> => Len(s) \in DOMAIN s /\ Len(s) >= 1
      /\ s = <<>> => DOMAIN s = {}
  BY SequenceIs
<1>2. LastSays(s)
  BY DEF Were
<1> DEFINE entry == [i \in DOMAIN s |-> [loop |-> root[2], id |-> RootId(root),
                                         status |-> s[i], start |-> i]]
<1>3. execs = {entry[i] : i \in DOMAIN s}
  BY DEF ExecutionsOf
<1>4. \A i \in DOMAIN s : entry[i].status = s[i] /\ entry[i].start = i
  OBVIOUS
<1> HIDE DEF entry, s
<1>5. row.live = Ran(s)
  <2>1. CASE s = <<>>
    <3>1. execs = {}
      BY <1>1, <1>3, <2>1
    <3>2. row.live = ("none" \in LiveStatuses)
      BY <3>1 DEF RootRow
    <3> QED BY <2>1, <3>2 DEF Ran, LiveStatuses
  <2>2. CASE s # <<>>
    <3>1. Latest(execs) = {entry[Len(s)]}
      <4>1. execs = {entry[i] : i \in 1..Len(s)}
        BY <1>1, <1>3
      <4> QED BY <1>1, <1>4, <2>2, <4>1, NewestIs
    <3>2. execs # {} /\ (CHOOSE e \in Latest(execs) : TRUE) = entry[Len(s)]
      BY <3>1 DEF Latest
    <3>3. entry[Len(s)].status = s[Len(s)]
      BY <1>1, <1>4, <2>2
    <3> HIDE DEF execs
    <3>4. row.live = (s[Len(s)] \in LiveStatuses)
      BY <3>2, <3>3 DEF RootRow
    <3>5. s[Len(s)] \in LiveStatuses <=> s[Len(s)] = "running"
      BY <1>2, <2>2, Constants DEF LastSays, LiveStatuses
    <3> QED BY <2>2, <3>4, <3>5 DEF Ran
  <2> QED BY <2>1, <2>2
<1>6. row.recentFailures = Cardinality(DeathsIn(past, root))
  <2> DEFINE died == [i \in DeathsIn(past, root) |-> entry[i]]
  <2>1. /\ DeathsIn(past, root) = {i \in DOMAIN s : s[i] \in Endings}
        /\ IsFiniteSet(DeathsIn(past, root))
    BY <1>1, FiniteDomain, FS_Subset DEF DeathsIn, s
  <2>2. \A i \in DOMAIN s : entry[i].status \in FailureStatuses <=> s[i] \in Endings
    BY <1>1, <1>4, Constants DEF RootStatuses, LiveStatuses, FailureStatuses
  <2>3. Failed(execs) = {entry[i] : i \in {j \in DOMAIN s : s[j] \in Endings}}
    <3> HIDE DEF execs
    <3> QED BY <1>3, <2>2 DEF Failed
  <2>4. Failed(execs) = {died[i] : i \in DeathsIn(past, root)}
    BY <2>1, <2>3
  <2>5. \A i, j \in DeathsIn(past, root) : died[i] = died[j] => i = j
    BY <1>4, <2>1
  <2>6. died = [i \in DeathsIn(past, root) |-> died[i]]
    OBVIOUS
  <2> DEFINE D == DeathsIn(past, root)
  <2> HIDE DEF died, execs
  <2>7. Cardinality(Failed(execs)) = Cardinality(D)
    <3>1. IsFiniteSet(D) /\ died = [i \in D |-> died[i]] /\ \A i, j \in D : died[i] = died[j] => i = j
      BY <2>1, <2>5, <2>6
    <3>2. Failed(execs) = {died[i] : i \in D}
      BY <2>4
    <3> HIDE DEF D
    <3>3. Cardinality({died[i] : i \in D}) = Cardinality(D)
      BY <3>1, Images
    <3> QED BY <3>2, <3>3
  <2> QED BY <2>7 DEF RootRow
<1>7. row.repo = repo /\ row.loop = loop
  BY DEF RootRow
<1> QED BY <1>5, <1>6, <1>7 DEF s

\* Of some executions of a root no more have failed than of all.
LEMMA SomeRootRowSays ==
  ASSUME PanelInductive, NEW past \in [Roots -> Seq(RootStatuses)], NEW root \in Roots,
         Were(past, root), NEW repo, NEW loop, NEW some \in SUBSET ExecutionsOf(past, root)
  PROVE  LET row == RootRow(repo, loop, some)
         IN  /\ row.repo = repo /\ row.loop = loop
             /\ row.recentFailures \in Nat
             /\ row.recentFailures <= Cardinality(DeathsIn(past, root))
<1> DEFINE all == ExecutionsOf(past, root)
           s == past[root]
           entry == [i \in DOMAIN s |-> [loop |-> root[2], id |-> RootId(root),
                                         status |-> s[i], start |-> i]]
<1>1. IsFiniteSet(DOMAIN s)
  <2>1. s \in Seq(RootStatuses)
    OBVIOUS
  <2> HIDE DEF s
  <2> QED BY <2>1, FiniteDomain
<1>2. all = {entry[i] : i \in DOMAIN s}
  BY DEF ExecutionsOf
<1>3. entry = [i \in DOMAIN s |-> entry[i]] /\ \A i, j \in DOMAIN s : entry[i] = entry[j] => i = j
  <2>1. \A i \in DOMAIN s : entry[i].start = i
    OBVIOUS
  <2> QED BY <2>1
<1>4. IsFiniteSet(all)
  <2> DEFINE D == DOMAIN s
  <2>1. /\ IsFiniteSet(D) /\ all = {entry[i] : i \in D}
        /\ entry = [i \in D |-> entry[i]] /\ \A i, j \in D : entry[i] = entry[j] => i = j
    BY <1>1, <1>2, <1>3
  <2> HIDE DEF D, entry, all
  <2> QED BY <2>1, Images
<1>5. Cardinality(Failed(all)) = Cardinality(DeathsIn(past, root))
  BY RootRowSays DEF RootRow
<1>6. Failed(some) \subseteq Failed(all) /\ IsFiniteSet(Failed(all))
  <2>1. Failed(some) \subseteq Failed(all) /\ Failed(all) \subseteq all
    BY DEF Failed
  <2> QED BY <1>4, <2>1, FS_Subset
<1> HIDE DEF all
<1>7. Cardinality(Failed(some)) \in Nat /\ Cardinality(Failed(some)) <= Cardinality(Failed(all))
  BY <1>6, SubsetCounts
<1>8. /\ RootRow(repo, loop, some).recentFailures = Cardinality(Failed(some))
      /\ RootRow(repo, loop, some).repo = repo /\ RootRow(repo, loop, some).loop = loop
  BY DEF RootRow
<1> QED BY <1>5, <1>7, <1>8

\* Each root has a row if it was listed, and a row is of a root.
LEMMA RootRowsAre ==
  ASSUME PanelInductive, RootsApart, IsShown, ~page.temporalError
  PROVE  /\ \A row \in RootRows : \E root \in Roots :
              /\ <<row.repo, row.loop>> = root
              /\ ~Full(KindOf(row.loop)) =>
                   root \in (IF row.live THEN page.live ELSE page.dead)
              /\ row.recentFailures <= Cardinality(Deaths(root))
              /\ row.recentFailures \in Nat
         /\ \A root \in page.asked.flapping : ~Full(KindOf(root[2])) => \E row \in RootRows :
              <<row.repo, row.loop>> = root /\ row.recentFailures >= 2
<1> DEFINE RowTells(was, root, some) ==
             LET row == RootRow(root[1], root[2], some)
             IN  /\ <<row.repo, row.loop>> = root
                 /\ row.recentFailures <= Cardinality(Deaths(root))
                 /\ row.recentFailures \in Nat
                 /\ some = ExecutionsOf(was, root) =>
                      /\ root \in (IF row.live THEN page.live ELSE page.dead)
                      /\ root \in page.asked.flapping => row.recentFailures >= 2
<1>1. Listed = Kinds /\ page \in Pages
  BY DEF PanelInductive, PageInductive, AllAsked, IsShown, Listed
<1>2. PICK past \in [Roots -> Seq(RootStatuses)] :
        /\ page.ledger["scans"] \subseteq ExecutionsIn(past, Loops)
        /\ page.ledger["scans"] = ExecutionsIn(past, Loops) \/ Full("scans")
        /\ \A root \in Roots : Were(past, root)
  BY <1>1 DEF PanelInductive, PageInductive, PageTold, RootsTold, Kinds
<1>3. PICK past2 \in [Roots -> Seq(RootStatuses)] :
        /\ page.ledger["advisory"] \subseteq ExecutionsIn(past2, {Advisory})
        /\ page.ledger["advisory"] = ExecutionsIn(past2, {Advisory}) \/ Full("advisory")
        /\ \A root \in Roots : Were(past2, root)
  BY <1>1 DEF PanelInductive, PageInductive, PageTold, RootsTold, Kinds
<1>4. RootRows = ScanLoops(Repos, Loops, page.ledger["scans"])
                 \cup AdvisoryLiveness(Advisory, Repos, page.ledger["advisory"])
  BY ShownIs DEF RootRows
\* A row of a root, from what was taken of what was listed at one moment.
<1>5. ASSUME NEW was \in [Roots -> Seq(RootStatuses)], NEW root \in Roots, Were(was, root),
             NEW some \in SUBSET ExecutionsOf(was, root)
      PROVE  RowTells(was, root, some)
  <2>10. LET r == RootRow(root[1], root[2], some)
         IN  /\ r.repo = root[1] /\ r.loop = root[2]
             /\ r.recentFailures \in Nat
             /\ r.recentFailures <= Cardinality(DeathsIn(was, root))
    <3>1. Were(was, root) /\ was \in [Roots -> Seq(RootStatuses)] /\ root \in Roots
      BY <1>5
    <3>2. some \in SUBSET ExecutionsOf(was, root)
      BY <1>5
    <3> QED BY <3>1, <3>2, SomeRootRowSays, Zenon
  <2> DEFINE row == RootRow(root[1], root[2], some)
  <2>1. /\ row.repo = root[1] /\ row.loop = root[2] /\ row.recentFailures \in Nat
        /\ row.recentFailures <= Cardinality(DeathsIn(was, root))
    BY <2>10
  <2>2. root = <<root[1], root[2]>>
    BY RootsAre
  <2>3. /\ Ran(was[root]) => root \in page.live
        /\ ~Ran(was[root]) => root \in page.dead
        /\ DeathsIn(was, root) \subseteq Deaths(root)
        /\ root \in page.asked.flapping => Cardinality(DeathsIn(was, root)) >= 2
    BY <1>5 DEF Were
  <2>4. IsFiniteSet(Deaths(root))
    BY DeathsAre DEF PanelInductive
  <2>5. /\ Cardinality(DeathsIn(was, root)) <= Cardinality(Deaths(root))
        /\ Cardinality(DeathsIn(was, root)) \in Nat /\ Cardinality(Deaths(root)) \in Nat
    BY <2>3, <2>4, SubsetCounts
  <2>9. some = ExecutionsOf(was, root) =>
          /\ row.live = Ran(was[root])
          /\ row.recentFailures = Cardinality(DeathsIn(was, root))
    BY <1>5, RootRowSays
  <2> HIDE DEF row
  <2>6. some = ExecutionsOf(was, root) =>
          /\ root \in (IF row.live THEN page.live ELSE page.dead)
          /\ root \in page.asked.flapping => row.recentFailures >= 2
    BY <2>3, <2>9
  <2>7. row.recentFailures <= Cardinality(Deaths(root)) /\ row.recentFailures \in Nat
    BY <2>1, <2>5
  <2>8. <<row.repo, row.loop>> = root
    BY <2>1, <2>2
  <2> QED BY <2>6, <2>7, <2>8 DEF row
\* The rows of the loops that propose.
<1>6. ASSUME NEW repo \in Repos, NEW loop \in Loops
      PROVE  /\ <<repo, loop>> \in Roots /\ KindOf(loop) = "scans"
             /\ \E some \in SUBSET ExecutionsOf(past, <<repo, loop>>) :
                  /\ ScanRow(repo, loop, page.ledger["scans"]) = RootRow(repo, loop, some)
                  /\ ~Full("scans") => some = ExecutionsOf(past, <<repo, loop>>)
  <2> DEFINE root == <<repo, loop>>
             some == {e \in page.ledger["scans"] : e.id = ScanWorkflowId(repo, loop)}
  <2>1. root \in Roots /\ root[1] = repo /\ root[2] = loop /\ loop # Advisory
    BY RootsAre, Constants
  <2>2. RootId(root) = ScanWorkflowId(repo, loop)
    BY <2>1 DEF RootId
  <2>5. ScanRow(repo, loop, page.ledger["scans"]) = RootRow(repo, loop, some)
    BY DEF ScanRow
  <2> HIDE DEF root
  <2>3. {e \in ExecutionsIn(past, Loops) : e.id = RootId(root)} = ExecutionsOf(past, root)
    BY <2>1, OfTheRoot
  <2>4. /\ some \in SUBSET ExecutionsOf(past, root)
        /\ ~Full("scans") => some = ExecutionsOf(past, root)
    BY <1>2, <2>2, <2>3
  <2>6. KindOf(loop) = "scans"
    BY <2>1 DEF KindOf
  <2> HIDE DEF some
  <2> QED BY <2>1, <2>4, <2>5, <2>6 DEF root
\* The rows of the loop that comments.
<1>7. ASSUME NEW repo \in Repos
      PROVE  /\ <<repo, Advisory>> \in Roots /\ KindOf(Advisory) = "advisory"
             /\ LET some == OfRoot(page.ledger["advisory"], Advisory, repo)
                IN  /\ some \in SUBSET ExecutionsOf(past2, <<repo, Advisory>>)
                    /\ ~Full("advisory") => some = ExecutionsOf(past2, <<repo, Advisory>>)
  <2> DEFINE root == <<repo, Advisory>>
             some == OfRoot(page.ledger["advisory"], Advisory, repo)
  <2>1. root \in Roots /\ root[1] = repo /\ root[2] = Advisory
    BY RootsAre
  <2>2. RootId(root) = ReviewLoopId(repo, Advisory)
    BY <2>1 DEF RootId
  <2> HIDE DEF root
  <2>3. {e \in ExecutionsIn(past2, {Advisory}) : e.id = RootId(root)} = ExecutionsOf(past2, root)
    BY <2>1, OfTheRoot
  <2>4. \A e \in ExecutionsOf(past2, root) : e.loop = Advisory
    BY <2>1 DEF ExecutionsOf
  <2>5. /\ some \in SUBSET ExecutionsOf(past2, root)
        /\ ~Full("advisory") => some = ExecutionsOf(past2, root)
    BY <1>3, <2>2, <2>3, <2>4 DEF OfRoot
  <2> HIDE DEF some
  <2> QED BY <2>1, <2>5 DEF root, some, KindOf
<1>8. ASSUME NEW row \in RootRows
      PROVE  \E root \in Roots :
              /\ <<row.repo, row.loop>> = root
              /\ ~Full(KindOf(row.loop)) =>
                   root \in (IF row.live THEN page.live ELSE page.dead)
              /\ row.recentFailures <= Cardinality(Deaths(root))
              /\ row.recentFailures \in Nat
  <2>1. CASE row \in ScanLoops(Repos, Loops, page.ledger["scans"])
    <3>1. PICK repo \in Repos, loop \in Loops : row = ScanRow(repo, loop, page.ledger["scans"])
      BY <2>1 DEF ScanLoops
    <3> DEFINE root == <<repo, loop>>
    <3>2. PICK some \in SUBSET ExecutionsOf(past, root) :
            /\ row = RootRow(repo, loop, some)
            /\ ~Full("scans") => some = ExecutionsOf(past, root)
      BY <1>6, <3>1
    <3>3. root \in Roots /\ root[1] = repo /\ root[2] = loop /\ KindOf(root[2]) = "scans"
      BY <1>6
    <3> HIDE DEF root
    <3>4. row = RootRow(root[1], root[2], some) /\ row.loop = root[2]
      BY <3>2, <3>3 DEF RootRow
    <3>5. Were(past, root)
      BY <1>2, <3>3
    <3>6. RowTells(past, root, some)
      BY <1>5, <3>2, <3>3, <3>5
    <3> QED BY <3>2, <3>3, <3>4, <3>6
  <2>2. CASE row \in AdvisoryLiveness(Advisory, Repos, page.ledger["advisory"])
    <3>1. PICK repo \in Repos :
            row = RootRow(repo, Advisory, OfRoot(page.ledger["advisory"], Advisory, repo))
      BY <2>2 DEF AdvisoryLiveness
    <3> DEFINE root == <<repo, Advisory>>
    <3>2. PICK some \in SUBSET ExecutionsOf(past2, root) :
            /\ row = RootRow(repo, Advisory, some)
            /\ ~Full("advisory") => some = ExecutionsOf(past2, root)
      BY <1>7, <3>1
    <3>3. /\ root \in Roots /\ root[1] = repo /\ root[2] = Advisory
          /\ KindOf(root[2]) = "advisory"
      BY <1>7
    <3> HIDE DEF root
    <3>4. row = RootRow(root[1], root[2], some) /\ row.loop = root[2]
      BY <3>2, <3>3 DEF RootRow
    <3>5. Were(past2, root)
      BY <1>3, <3>3
    <3>6. RowTells(past2, root, some)
      BY <1>5, <3>2, <3>3, <3>5
    <3> QED BY <3>2, <3>3, <3>4, <3>6
  <2> QED BY <1>4, <2>1, <2>2
<1>9. ASSUME NEW root \in page.asked.flapping, ~Full(KindOf(root[2]))
      PROVE  \E row \in RootRows : <<row.repo, row.loop>> = root /\ row.recentFailures >= 2
  <2>1. /\ root \in Roots /\ root = <<root[1], root[2]>> /\ root[1] \in Repos
        /\ root[2] \in Loops \/ root[2] = Advisory
    <3>1. root \in Roots
      BY <1>1, AskedIs
    <3> QED BY <3>1, RootsAre
  <2>2. CASE root[2] \in Loops
    <3> DEFINE row == ScanRow(root[1], root[2], page.ledger["scans"])
    <3>1. row = RootRow(root[1], root[2], ExecutionsOf(past, root))
      BY <1>6, <1>9, <2>1, <2>2
    <3>2. row \in RootRows
      BY <1>4, <2>1, <2>2 DEF ScanLoops
    <3> HIDE DEF row
    <3> QED BY <1>2, <1>5, <1>9, <2>1, <3>1, <3>2
  <2>3. CASE root[2] = Advisory
    <3> DEFINE row == RootRow(root[1], Advisory, OfRoot(page.ledger["advisory"], Advisory, root[1]))
    <3>1. OfRoot(page.ledger["advisory"], Advisory, root[1]) = ExecutionsOf(past2, root)
      BY <1>7, <1>9, <2>1, <2>3
    <3>2. row = RootRow(root[1], root[2], ExecutionsOf(past2, root))
      BY <2>3, <3>1
    <3>3. ExecutionsOf(past2, root) # {}
      <4>1. Cardinality(DeathsIn(past2, root)) >= 2
        BY <1>3, <2>1, <1>9 DEF Were
      <4>2. ASSUME DeathsIn(past2, root) = {} PROVE FALSE
        <5>1. Cardinality(DeathsIn(past2, root)) = 0
          BY <4>2, FS_EmptySet
        <5> QED BY <4>1, <5>1
      <4> QED BY <4>2 DEF DeathsIn, ExecutionsOf
    <3>4. row \in RootRows
      BY <1>4, <2>1, <3>1, <3>3 DEF AdvisoryLiveness
    <3> HIDE DEF row
    <3> QED BY <1>3, <1>5, <1>9, <2>1, <3>2, <3>4
  <2> QED BY <2>1, <2>2, <2>3
<1> QED BY <1>8, <1>9

\* A root is shown dead or live only if it was so at some moment since the
\* request, if two roots have two ids and the list of its kind is not full.
LEMMA LiveWasLive == PanelInductive /\ RootsApart => LivenessWasSo
<1> SUFFICES ASSUME PanelInductive, RootsApart, IsShown, ~page.temporalError,
                    NEW row \in RootRows, ~Full(KindOf(row.loop))
             PROVE  <<row.repo, row.loop>> \in (IF row.live THEN page.live ELSE page.dead)
  BY DEF LivenessWasSo
<1>1. PICK root \in Roots : /\ <<row.repo, row.loop>> = root
                            /\ root \in (IF row.live THEN page.live ELSE page.dead)
  BY RootRowsAre
<1> QED BY <1>1

THEOREM LivenessShownWasSo ==
  ASSUME RootsApart
  PROVE  Spec => []LivenessWasSo
<1>1. PanelInductive => LivenessWasSo
  BY LiveWasLive
<1> QED BY <1>1, PanelInductiveHolds, PTL

\* A root is shown to flap only if it did die twice, and each that had is, unless
\* the list of its kind is full.
LEMMA FlapsDied == PanelInductive /\ RootsApart => FlapsForCause
<1> DEFINE shown == {<<f.repo, f.loop>> : f \in Shown.flapping}
<1> SUFFICES ASSUME PanelInductive, RootsApart, IsShown, ~page.temporalError
             PROVE  /\ \A root \in shown : Cardinality(Deaths(root)) >= 2
                    /\ \A root \in page.asked.flapping :
                         root \in shown \/ Full(KindOf(root[2]))
  BY DEF FlapsForCause
<1>1. Shown.flapping =
        {[repo |-> r.repo, loop |-> r.loop, failures |-> r.recentFailures, live |-> r.live] :
           r \in {s \in RootRows : s.recentFailures >= 2}}
  BY ShownIs DEF RootRows, Flapping, FlapThreshold
<1>2. \A root \in shown : \E row \in RootRows :
        root = <<row.repo, row.loop>> /\ row.recentFailures >= 2
  BY <1>1
<1>3. ASSUME NEW row \in RootRows, row.recentFailures >= 2
      PROVE  <<row.repo, row.loop>> \in shown
  <2> DEFINE f == [repo |-> row.repo, loop |-> row.loop,
                   failures |-> row.recentFailures, live |-> row.live]
  <2>1. f \in Shown.flapping
    BY <1>1, <1>3
  <2>2. f.repo = row.repo /\ f.loop = row.loop
    OBVIOUS
  <2> HIDE DEF f
  <2> QED BY <2>1, <2>2
<1> HIDE DEF shown
<1>4. ASSUME NEW root \in shown PROVE Cardinality(Deaths(root)) >= 2
  <2>1. PICK row \in RootRows : root = <<row.repo, row.loop>> /\ row.recentFailures >= 2
    BY <1>2
  <2>2. /\ root \in Roots /\ row.recentFailures <= Cardinality(Deaths(root))
        /\ row.recentFailures \in Nat
    BY <2>1, RootRowsAre
  <2>3. Cardinality(Deaths(root)) \in Nat
    BY <2>2, DeathsAre DEF PanelInductive
  <2> QED BY <2>1, <2>2, <2>3
<1>5. \A root \in page.asked.flapping : root \in shown \/ Full(KindOf(root[2]))
  BY <1>3, RootRowsAre
<1> QED BY <1>4, <1>5

THEOREM FlapsOnlyForCause ==
  ASSUME RootsApart
  PROVE  Spec => []FlapsForCause
<1>1. PanelInductive => FlapsForCause
  BY FlapsDied
<1> QED BY <1>1, PanelInductiveHolds, PTL

-----------------------------------------------------------------------------
(* Types.                                                                  *)

\* Of some numbers that are bounded one is the greatest: of the intervals from
\* each to the bound one is the least.
LEMMA GreatestIs ==
  ASSUME NEW T \in SUBSET Nat, T # {}, NEW n \in Nat, \A t \in T : t <= n
  PROVE  \E m \in T : \A t \in T : t <= m
<1> DEFINE F == {t..n : t \in T}
<1>1. F \subseteq FiniteSubsetsOf(Nat) /\ F # {}
  <2>1. \A t \in T : t..n \in SUBSET Nat /\ IsFiniteSet(t..n)
    BY FS_Interval
  <2> QED BY <2>1 DEF FiniteSubsetsOf
<1>2. IsWellFoundedOn(StrictSubsetOrdering(Nat), FiniteSubsetsOf(Nat))
  BY FS_StrictSubsetOrderingWellFounded
<1>3. PICK x \in F : \A y \in F : <<y, x>> \notin StrictSubsetOrdering(Nat)
  <2> HIDE DEF F
  <2> QED BY <1>1, <1>2, WFMin
<1>4. PICK m \in T : x = m..n
  OBVIOUS
<1>5. ASSUME NEW t \in T, m < t PROVE FALSE
  <2>1. t..n \subseteq m..n /\ m \in m..n /\ m \notin t..n
    BY <1>5
  <2>2. t..n \in SUBSET Nat /\ m..n \in SUBSET Nat
    OBVIOUS
  <2>3. <<t..n, m..n>> \in StrictSubsetOrdering(Nat)
    BY <2>1, <2>2 DEF StrictSubsetOrdering
  <2>4. t..n \in F
    OBVIOUS
  <2> QED BY <1>3, <1>4, <2>3, <2>4
<1>6. \A t \in T : t <= m
  BY <1>5
<1> QED BY <1>6

LEMMA LatestIs ==
  ASSUME NEW execs \in SUBSET RootEntries, execs # {}, \A e \in execs : e.start <= MaxRootEvents + 1
  PROVE  \E e \in Latest(execs) : e.status \in RootStatuses
<1> DEFINE T == {e.start : e \in execs}
<1>1. T \in SUBSET Nat /\ T # {} /\ \A t \in T : t <= MaxRootEvents + 1
  BY DEF RootEntries
<1>2. \A e \in execs : e.start \in T
  OBVIOUS
<1>3. \A t \in T : \E e \in execs : e.start = t
  OBVIOUS
<1> HIDE DEF T
<1>4. MaxRootEvents + 1 \in Nat
  BY Constants
<1>5. PICK m \in T : \A t \in T : t <= m
  BY <1>1, <1>4, GreatestIs
<1>6. PICK e \in execs : e.start = m
  BY <1>3
<1>7. e \in Latest(execs)
  BY <1>2, <1>5, <1>6 DEF Latest
<1> QED BY <1>7 DEF RootEntries

LEMMA RowStatus ==
  ASSUME NEW execs \in SUBSET RootEntries, \A e \in execs : e.start <= MaxRootEvents + 1,
         NEW repo, NEW loop
  PROVE  /\ execs # {} => RootRow(repo, loop, execs).status \in RootStatuses
         /\ execs = {} => RootRow(repo, loop, execs).status = "none"
<1>1. CASE execs # {}
  <2> DEFINE e == CHOOSE x \in Latest(execs) : TRUE
  <2>1. e \in Latest(execs)
    BY <1>1, LatestIs
  <2>2. e \in RootEntries
    BY <2>1 DEF Latest
  <2>3. RootRow(repo, loop, execs).status = e.status
    BY <1>1 DEF RootRow
  <2> HIDE DEF e
  <2> QED BY <1>1, <2>2, <2>3 DEF RootEntries
<1>2. CASE execs = {}
  BY <1>2 DEF RootRow
<1> QED BY <1>1, <1>2

LEMMA TypesHold == PanelInductive => TypeOK
<1> SUFFICES ASSUME PanelInductive PROVE TypeOK
  OBVIOUS
<1>1. WorldTypes /\ page \in Pages /\ RootEntriesStand
  BY DEF PanelInductive, WorldInductive, PageInductive, PageTrue
<1>2. RootStatuses \subseteq Statuses
  BY Constants DEF RootStatuses, Statuses
<1>3. /\ pulls \subseteq Pulls /\ page.prs \subseteq Pulls
      /\ faults \in 0..MaxFaults /\ rootEvents \in 0..MaxRootEvents
      /\ page.at \in {"idle", "reading", "shown"} /\ page.next \in Kinds \cup {"done"}
  BY <1>1 DEF WorldTypes, Pages
<1>4. \A root \in Roots : \A i \in DOMAIN roots[root] : roots[root][i] \in Statuses
  <2> SUFFICES ASSUME NEW root \in Roots, NEW i \in DOMAIN roots[root]
               PROVE  roots[root][i] \in Statuses
    OBVIOUS
  <2>1. roots[root] \in Seq(RootStatuses)
    BY <1>1 DEF WorldTypes
  <2>2. roots[root][i] \in RootStatuses
    BY <2>1, SequenceIs
  <2> QED BY <1>2, <2>2
<1>5. \A row \in Shown.scanLoops : row.status \in Statuses \cup {"none"}
  <2> SUFFICES ASSUME NEW repo \in Repos, NEW loop \in Loops
               PROVE  ScanRow(repo, loop, page.ledger["scans"]).status \in Statuses \cup {"none"}
    BY ShownIs DEF ScanLoops
  <2> DEFINE execs == {s \in page.ledger["scans"] : s.id = ScanWorkflowId(repo, loop)}
  <2>1. execs \in SUBSET RootEntries /\ \A e \in execs : e.start <= MaxRootEvents + 1
    BY <1>1 DEF RootEntriesStand
  <2>2. ScanRow(repo, loop, page.ledger["scans"]) = RootRow(repo, loop, execs)
    BY DEF ScanRow
  <2> HIDE DEF execs
  <2> QED BY <1>2, <2>1, <2>2, RowStatus
<1>6. \A view \in Shown.advisory : \A row \in view.loops : row.status \in Statuses
  <2> SUFFICES ASSUME NEW row \in AdvisoryLiveness(Advisory, Repos, page.ledger["advisory"])
               PROVE  row.status \in Statuses
    BY ShownIs
  <2>1. PICK repo \in Repos :
          /\ OfRoot(page.ledger["advisory"], Advisory, repo) # {}
          /\ row = RootRow(repo, Advisory, OfRoot(page.ledger["advisory"], Advisory, repo))
    BY DEF AdvisoryLiveness
  <2> DEFINE execs == OfRoot(page.ledger["advisory"], Advisory, repo)
  <2>2. execs \in SUBSET RootEntries /\ \A e \in execs : e.start <= MaxRootEvents + 1
    BY <1>1 DEF RootEntriesStand, OfRoot
  <2>3. execs # {} /\ row = RootRow(repo, Advisory, execs)
    BY <2>1
  <2> HIDE DEF execs
  <2> QED BY <1>2, <2>2, <2>3, RowStatus
<1> QED BY <1>3, <1>4, <1>5, <1>6 DEF TypeOK

\* Types, of what there is and of what is shown.
THEOREM PanelTypes == Spec => []TypeOK
<1> QED BY PanelInductiveHolds, TypesHold, PTL

-----------------------------------------------------------------------------
(* The page and the gate.                                                  *)

\* The pull requests that a class is judged by, and the four counts of them.
Judged(repo, loop) ==
  {p \in page.prs : /\ p.repo = repo /\ p.loop = loop /\ p.state \in {"merged", "closed"}
                    /\ Within(DecidedAt(p), 0, Policy.windowDays)
                    /\ Environment = "" \/ p.env = Environment}
Counts(judged, outcomes) ==
  LET merged == {p \in judged : p.state = "merged"}
      Came(p, determined) == outcomes[<<p.repo, p.number>>] \in determined
  IN [decided    |-> Cardinality(judged),
      merged     |-> Cardinality(merged),
      determined |-> Cardinality({p \in merged : Came(p, Determined)}),
      defects    |-> Cardinality({p \in merged : Came(p, {"broke", "reverted"})})]

\* The rows of a set of pull requests are as many, whatever bumps are joined.
LEMMA RowsCount ==
  ASSUME PanelInductive, NEW S \in SUBSET page.prs, NEW all, NEW outcomes
  PROVE  Cardinality({BumpRow(p, all, outcomes) : p \in S}) = Cardinality(S)
<1> DEFINE f == [p \in S |-> BumpRow(p, all, outcomes)]
<1>1. IsFiniteSet(S)
  BY FS_Subset DEF PanelInductive, PageInductive, PageTrue, PrsStand
<1>2. ASSUME NEW p \in S, NEW q \in S, f[p] = f[q] PROVE p = q
  <2>1. /\ p.repo = q.repo /\ p.number = q.number /\ p.state = q.state
        /\ p.opened = q.opened /\ p.merged = q.merged
    BY <1>2 DEF BumpRow
  <2>2. PICK p2 \in pulls : Same(p, p2)
    BY DEF PanelInductive, PageInductive, PageTrue, PrsStand
  <2>3. PICK q2 \in pulls : Same(q, q2)
    BY DEF PanelInductive, PageInductive, PageTrue, PrsStand
  <2>4. p2 = q2
    BY <2>1, <2>2, <2>3 DEF Same, PanelInductive, WorldInductive, PullsInStep
  <2>5. p.loop = q.loop /\ p.env = q.env /\ p.to = q.to /\ p.verdict = q.verdict
    BY <2>2, <2>3, <2>4 DEF Same
  <2>6. p \in Pulls /\ q \in Pulls
    BY DEF PanelInductive, PageInductive, Pages
  <2> QED BY <2>1, <2>5, <2>6 DEF Pulls
<1>3. f = [p \in S |-> f[p]]
  OBVIOUS
<1>4. {BumpRow(p, all, outcomes) : p \in S} = {f[p] : p \in S}
  OBVIOUS
<1> HIDE DEF f
<1>5. Cardinality({f[p] : p \in S}) = Cardinality(S)
  BY <1>1, <1>2, <1>3, Images
<1> QED BY <1>4, <1>5

LEMMA StandingIs ==
  ASSUME PanelInductive, NEW S \in SUBSET page.prs, NEW all, NEW outcomes
  PROVE  Standing({BumpRow(p, all, outcomes) : p \in S}) = Counts(S, outcomes)
<1> DEFINE rows == {BumpRow(p, all, outcomes) : p \in S}
           merged == {p \in S : p.state = "merged"}
           Came(determined) == {p \in merged : outcomes[<<p.repo, p.number>>] \in determined}
           mergedRows == {r \in rows : r.state = "merged"}
<1>1. \A p \in S : LET r == BumpRow(p, all, outcomes)
                   IN r.state = p.state /\ r.postMerge = outcomes[<<p.repo, p.number>>]
  BY DEF BumpRow
<1>2. mergedRows = {BumpRow(p, all, outcomes) : p \in merged}
  BY <1>1
<1>3. \A determined : {r \in mergedRows : r.postMerge \in determined}
                        = {BumpRow(p, all, outcomes) : p \in Came(determined)}
  <2> SUFFICES ASSUME NEW determined
               PROVE  {r \in mergedRows : r.postMerge \in determined}
                        = {BumpRow(p, all, outcomes) : p \in Came(determined)}
    OBVIOUS
  <2> DEFINE came == Came(determined)
  <2>1. /\ \A p \in merged : BumpRow(p, all, outcomes).postMerge \in determined <=> p \in came
        /\ came \subseteq merged
    BY <1>1
  <2> HIDE DEF came, merged, mergedRows
  <2>2. {r \in mergedRows : r.postMerge \in determined} = {BumpRow(p, all, outcomes) : p \in came}
    BY <1>2, <2>1
  <2> QED BY <2>2 DEF came
<1>4. Cardinality(rows) = Cardinality(S) /\ Cardinality(mergedRows) = Cardinality(merged)
  BY <1>2, RowsCount
<1>5. \A determined : Cardinality({r \in mergedRows : r.postMerge \in determined})
                        = Cardinality(Came(determined))
  <2> SUFFICES ASSUME NEW determined
               PROVE  Cardinality({r \in mergedRows : r.postMerge \in determined})
                        = Cardinality(Came(determined))
    OBVIOUS
  <2> DEFINE came == Came(determined)
  <2>1. came \in SUBSET page.prs
    OBVIOUS
  <2>2. {r \in mergedRows : r.postMerge \in determined} = {BumpRow(p, all, outcomes) : p \in came}
    BY <1>3
  <2> HIDE DEF came
  <2>3. Cardinality({BumpRow(p, all, outcomes) : p \in came}) = Cardinality(came)
    BY <2>1, RowsCount
  <2> QED BY <2>2, <2>3 DEF came
<1>6. Standing(rows) =
        [decided    |-> Cardinality(rows), merged |-> Cardinality(mergedRows),
         determined |-> Cardinality({r \in mergedRows : r.postMerge \in Determined}),
         defects    |-> Cardinality({r \in mergedRows : r.postMerge \in {"broke", "reverted"}})]
  BY DEF Standing
<1>7. Counts(S, outcomes) =
        [decided    |-> Cardinality(S), merged |-> Cardinality(merged),
         determined |-> Cardinality(Came(Determined)),
         defects    |-> Cardinality(Came({"broke", "reverted"}))]
  BY DEF Counts
<1> HIDE DEF rows, merged, Came, mergedRows
<1>8. Standing(rows) = Counts(S, outcomes)
  BY <1>4, <1>5, <1>6, <1>7
<1> QED BY <1>8 DEF rows

\* The rows that are counted are those of the pull requests that judge the class.
LEMMA JudgedRows ==
  ASSUME NEW S \in SUBSET page.prs, NEW all, NEW outcomes, NEW repo, NEW loop,
         Judged(repo, loop) \subseteq S
  PROVE  UnderEnvironment(InWindow(0, {BumpRow(p, all, outcomes) : p \in S}, repo, loop, Policy),
                          Environment)
           = {BumpRow(p, all, outcomes) : p \in Judged(repo, loop)}
<1> DEFINE rows == {BumpRow(p, all, outcomes) : p \in S}
           judged == UnderEnvironment(InWindow(0, rows, repo, loop, Policy), Environment)
           Judges(r) == /\ r.repo = repo /\ r.loop = loop /\ r.state \in {"merged", "closed"}
                        /\ Within(DecidedAt(r), 0, Policy.windowDays)
                        /\ Environment = "" \/ r.env = Environment
<1>1. judged = {r \in rows : Judges(r)}
  BY DEF UnderEnvironment, InWindow
<1>2. \A p \in S : Judges(BumpRow(p, all, outcomes)) <=> Judges(p)
  <2> SUFFICES ASSUME NEW p \in S PROVE Judges(BumpRow(p, all, outcomes)) <=> Judges(p)
    OBVIOUS
  <2> DEFINE r == BumpRow(p, all, outcomes)
  <2>1. /\ r.repo = p.repo /\ r.loop = p.loop /\ r.state = p.state /\ r.env = p.env
        /\ r.merged = p.merged /\ r.opened = p.opened
    BY DEF BumpRow
  <2> HIDE DEF r
  <2>2. DecidedAt(r) = DecidedAt(p)
    BY <2>1 DEF DecidedAt
  <2>3. Judges(r) <=> Judges(p)
    BY <2>1, <2>2
  <2> QED BY <2>3 DEF r
<1>3. \A p \in S : p \in Judged(repo, loop) <=> Judges(p)
  BY DEF Judged
<1> HIDE DEF Judges
<1>4. judged = {BumpRow(p, all, outcomes) : p \in {q \in S : Judges(q)}}
  BY <1>1, <1>2
<1>5. {q \in S : Judges(q)} = Judged(repo, loop)
  BY <1>3
<1> QED BY <1>4, <1>5

LEMMA PageAndGate == PanelInductive => PanelAndGateAgree
<1> SUFFICES ASSUME PanelInductive, NEW g \in Shown.classGates,
                    \A p \in {q \in page.prs : q.repo = g.repo} :
                      p.loop = g.loop /\ IsCanary(p.to) => p.state = "open"
             PROVE  g.earned <=> EarnedNow(0, {q \in page.prs : q.repo = g.repo}, page.outcomes,
                                           g.repo, g.loop, Policy, Environment)
  BY DEF PanelAndGateAgree
<1> DEFINE all == page.ledger["bumps"]
           mine == {q \in page.prs : q.repo = g.repo}
           genuine == {p \in page.prs : ~IsCanary(BumpRow(p, all, page.outcomes).to)}
           judged == Judged(g.repo, g.loop)
<1>1. Shown.bumps = {BumpRow(p, all, page.outcomes) : p \in genuine}
  BY ShownIs DEF Genuine, BumpRows
<1>2. g.earned = ClassEarned(Standing(UnderEnvironment(
                   InWindow(0, Shown.bumps, g.repo, g.loop, Policy), Environment)), Policy)
  <2>1. PICK repo \in Read.repos, loop \in Loops : g = ClassGateRow(Read, Shown.bumps, repo, loop)
    BY ShownIs DEF ClassGates
  <2>2. Read.now = 0 /\ Read.policy = Policy /\ Read.environment = Environment
    BY DEF Read
  <2>3. /\ g.repo = repo /\ g.loop = loop
        /\ g.earned = ClassEarned(Standing(UnderEnvironment(
             InWindow(Read.now, Shown.bumps, repo, loop, Read.policy), Read.environment)), Read.policy)
    BY <2>1 DEF ClassGateRow
  <2> QED BY <2>2, <2>3
<1>3. EarnedNow(0, mine, page.outcomes, g.repo, g.loop, Policy, Environment)
        = ClassEarned(Standing(UnderEnvironment(
            InWindow(0, {BumpRow(p, {}, page.outcomes) : p \in mine}, g.repo, g.loop, Policy),
            Environment)), Policy)
  BY DEF EarnedNow, ClassGate, BumpRows
<1>4. judged \subseteq mine
  BY DEF Judged
<1>5. judged \subseteq genuine
  <2> SUFFICES ASSUME NEW p \in judged PROVE ~IsCanary(BumpRow(p, all, page.outcomes).to)
    BY DEF Judged
  <2>1. p \in mine /\ p.loop = g.loop /\ p.state # "open"
    BY DEF Judged
  <2>2. ~IsCanary(p.to)
    BY <2>1
  <2>3. BumpRow(p, all, page.outcomes).to \in {p.to, "unused"}
    BY DEF BumpRow
  <2> QED BY <2>2, <2>3 DEF IsCanary, CanaryTarget
<1>6. judged \in SUBSET page.prs /\ genuine \in SUBSET page.prs /\ mine \in SUBSET page.prs
  BY DEF Judged
<1> HIDE DEF mine, genuine, judged
<1>7. UnderEnvironment(InWindow(0, Shown.bumps, g.repo, g.loop, Policy), Environment)
        = {BumpRow(p, all, page.outcomes) : p \in judged}
  BY <1>1, <1>5, <1>6, JudgedRows DEF judged
<1>8. UnderEnvironment(InWindow(0, {BumpRow(p, {}, page.outcomes) : p \in mine},
                                g.repo, g.loop, Policy), Environment)
        = {BumpRow(p, {}, page.outcomes) : p \in judged}
  BY <1>4, <1>6, JudgedRows DEF judged
<1>9. Standing({BumpRow(p, all, page.outcomes) : p \in judged}) = Counts(judged, page.outcomes)
  BY <1>6, StandingIs
<1>10. Standing({BumpRow(p, {}, page.outcomes) : p \in judged}) = Counts(judged, page.outcomes)
  BY <1>6, StandingIs
<1>11. g.earned = EarnedNow(0, mine, page.outcomes, g.repo, g.loop, Policy, Environment)
  BY <1>2, <1>3, <1>7, <1>8, <1>9, <1>10
<1> QED BY <1>11 DEF mine

\* Of a class that no planted bump was decided in, the page and the acting gate
\* say the same of the same answers.
THEOREM PageAndGateSayTheSame == Spec => []PanelAndGateAgree
<1> QED BY PanelInductiveHolds, PageAndGate, PTL

-----------------------------------------------------------------------------
(* The tabs together.                                                      *)

\* The union of some parts.
Whole(part, t) == UNION {part[v] : v \in t}

\* The parts of all but one, and the one's.
LEMMA OneApart ==
  ASSUME NEW V, IsFiniteSet(V), NEW part, \A v \in V : IsFiniteSet(part[v]),
         \A v, w \in V : v # w => part[v] \cap part[w] = {},
         NEW s \in SUBSET V, NEW x \in s
  PROVE  /\ IsFiniteSet(Whole(part, s))
         /\ Cardinality(Whole(part, s)) = Cardinality(part[x]) + Cardinality(Whole(part, s \ {x}))
<1> DEFINE all  == Whole(part, s)
           rest == Whole(part, s \ {x})
<1>1. ASSUME NEW t \in SUBSET V PROVE IsFiniteSet(Whole(part, t))
  <2>1. IsFiniteSet(t)
    BY FS_Subset
  <2>2. IsFiniteSet({part[v] : v \in t})
    <3> DEFINE g == [v \in t |-> part[v]]
               T == {part[v] : v \in t}
    <3>1. g \in Surjection(t, T)
      BY DEF Surjection
    <3> HIDE DEF g, T
    <3>2. IsFiniteSet(T)
      BY <2>1, <3>1, FS_Surjection
    <3> QED BY <3>2 DEF T
  <2> QED BY <2>2, FS_UNION DEF Whole
<1>2. all = part[x] \cup rest
  BY DEF Whole
<1>3. part[x] \cap rest = {}
  BY DEF Whole
<1>4. IsFiniteSet(rest) /\ IsFiniteSet(all) /\ IsFiniteSet(part[x])
  BY <1>1
<1> HIDE DEF rest, all
<1>5. Cardinality(all) = Cardinality(part[x]) + Cardinality(rest) - Cardinality({})
  <2>1. Cardinality(part[x] \cup rest) =
          Cardinality(part[x]) + Cardinality(rest) - Cardinality(part[x] \cap rest)
    BY <1>4, FS_Union
  <2> QED BY <1>2, <1>3, <2>1
<1>6. Cardinality({}) = 0 /\ Cardinality(part[x]) \in Nat /\ Cardinality(rest) \in Nat
  BY <1>4, FS_EmptySet, FS_CardinalityType
<1>7. Cardinality(all) = Cardinality(part[x]) + Cardinality(rest)
  BY <1>5, <1>6
<1> QED BY <1>4, <1>7 DEF rest, all

\* A sum over a finite set, element by element, is there to be taken; of the
\* sizes of parts without a common element it is the size of their union.
Summed(f, V, val) ==
  f = [s \in SUBSET V |-> IF s = {} THEN 0
                          ELSE val[CHOOSE x \in s : TRUE] + f[s \ {CHOOSE x \in s : TRUE}]]
LEMMA SumOfParts ==
  ASSUME NEW V, IsFiniteSet(V), NEW part, \A v \in V : IsFiniteSet(part[v]),
         \A v, w \in V : v # w => part[v] \cap part[w] = {},
         NEW val, \A v \in V : val[v] = Cardinality(part[v])
  PROVE  /\ \E f : Summed(f, V, val)
         /\ \A f : Summed(f, V, val) => f[V] = Cardinality(Whole(part, V))
<1> DEFINE Size(t) == Cardinality(Whole(part, t))
           One(t)  == CHOOSE x \in t : TRUE
<1>1. ASSUME NEW s \in SUBSET V, s # {}
      PROVE  /\ One(s) \in s /\ s \ {One(s)} \in SUBSET V
             /\ Size(s) = val[One(s)] + Size(s \ {One(s)})
  <2>1. One(s) \in s
    BY <1>1
  <2> HIDE DEF One
  <2>2. ASSUME NEW x \in s
        PROVE  Size(s) = Cardinality(part[x]) + Size(s \ {x})
    BY OneApart
  <2> HIDE DEF Size
  <2> QED BY <2>1, <2>2
<1>2. Size({}) = 0
  <2>1. Whole(part, {}) = {}
    BY DEF Whole
  <2> QED BY <2>1, FS_EmptySet
<1> HIDE DEF Size, One
<1>3. \E f : Summed(f, V, val)
  <2> DEFINE g == [s \in SUBSET V |-> Size(s)]
  <2>1. g = [s \in SUBSET V |-> IF s = {} THEN 0 ELSE val[One(s)] + g[s \ {One(s)}]]
    BY <1>1, <1>2
  <2> HIDE DEF g
  <2> QED BY <2>1 DEF Summed, One
<1>4. ASSUME NEW f, Summed(f, V, val) PROVE f[V] = Size(V)
  <2> DEFINE wrong == {s \in SUBSET V : f[s] # Size(s)}
  <2>1. f = [s \in SUBSET V |-> IF s = {} THEN 0 ELSE val[One(s)] + f[s \ {One(s)}]]
    BY <1>4 DEF Summed, One
  <2>2. wrong \subseteq FiniteSubsetsOf(V)
    BY FS_Subset DEF FiniteSubsetsOf
  <2>3. SUFFICES ASSUME wrong # {} PROVE FALSE
    OBVIOUS
  <2>4. IsWellFoundedOn(StrictSubsetOrdering(V), FiniteSubsetsOf(V))
    BY FS_StrictSubsetOrderingWellFounded
  <2>5. PICK s \in wrong : \A t \in wrong : <<t, s>> \notin StrictSubsetOrdering(V)
    <3> HIDE DEF wrong
    <3> QED BY <2>2, <2>3, <2>4, WFMin
  <2>6. s # {}
    BY <1>2, <2>1
  <2>7. s \in SUBSET V /\ s \ {One(s)} \in SUBSET V /\ One(s) \in s
    BY <1>1, <2>6
  <2>8. <<s \ {One(s)}, s>> \in StrictSubsetOrdering(V)
    BY <2>7 DEF StrictSubsetOrdering
  <2>9. f[s \ {One(s)}] = Size(s \ {One(s)})
    BY <2>5, <2>7, <2>8
  <2>10. f[s] = val[One(s)] + f[s \ {One(s)}]
    BY <2>1, <2>6, <2>7
  <2> QED BY <1>1, <2>6, <2>7, <2>9, <2>10
<1> QED BY <1>3, <1>4 DEF Size

LEMMA LoopsFinite == IsFiniteSet(Loops)
<1>1. IsFiniteSet({"dependency-patch"})
  BY FS_Singleton
<1>2. IsFiniteSet({"dependency-patch"} \cup {"security-patch"})
  BY <1>1, FS_AddElement
<1>3. IsFiniteSet({"dependency-patch"} \cup {"security-patch"} \cup {"dead-code"})
  BY <1>2, FS_AddElement
<1>4. CommitLoops = {"dependency-patch"} \cup {"security-patch"} \cup {"dead-code"}
  BY DEF CommitLoops
<1> QED BY <1>3, <1>4, FS_Subset, Constants

\* The tabs, and the rows that each is about.
Planted == {r \in BumpRows(page.prs, page.ledger["bumps"], page.outcomes) : IsCanary(r.to)}
LEMMA TabsAre ==
  ASSUME PanelInductive
  PROVE  /\ IsFiniteSet(Shown.bumpLoops)
         /\ \A v, w \in Shown.bumpLoops : v.loop = w.loop => v = w
         /\ \A l \in Loops : \E v \in Shown.bumpLoops : v.loop = l
         /\ \A v \in Shown.bumpLoops :
              /\ v.trackRecord.opened = Cardinality(OfLoop(Shown.bumps, v.loop))
              /\ v.probes = Probes(OfLoop(Planted, v.loop))
<1> DEFINE V == Shown.bumpLoops
           View(l) == LoopView(Read, Shown.bumps, Planted, l)
<1>1. V = {View(l) : l \in Loops}
  <2>1. /\ Read.prs = page.prs /\ Read.bumps = page.ledger["bumps"]
        /\ Read.outcomes = page.outcomes /\ Read.loops = Loops
    BY DEF Read
  <2>2. /\ Shown.bumps = Genuine(BumpRows(Read.prs, Read.bumps, Read.outcomes))
        /\ V = {LoopView(Read, Genuine(BumpRows(Read.prs, Read.bumps, Read.outcomes)),
                         {r \in BumpRows(Read.prs, Read.bumps, Read.outcomes) : IsCanary(r.to)}, l) :
                  l \in Read.loops}
    BY DEF Shown, Assemble
  <2> QED BY <2>1, <2>2 DEF Planted
<1>2. \A l : /\ View(l).loop = l
             /\ View(l).trackRecord.opened = Cardinality(OfLoop(Shown.bumps, l))
             /\ View(l).probes = Probes(OfLoop(Planted, l))
  BY DEF LoopView, TrackRecord
<1> HIDE DEF V, View
<1>3. IsFiniteSet(V)
  <2> DEFINE g == [l \in Loops |-> View(l)]
  <2>1. g \in Surjection(Loops, V)
    BY <1>1 DEF Surjection
  <2> HIDE DEF g
  <2> QED BY <2>1, LoopsFinite, FS_Surjection
<1>4. /\ \A v, w \in V : v.loop = w.loop => v = w
      /\ \A l \in Loops : \E v \in V : v.loop = l
      /\ \A v \in V : /\ v.trackRecord.opened = Cardinality(OfLoop(Shown.bumps, v.loop))
                      /\ v.probes = Probes(OfLoop(Planted, v.loop))
  BY <1>1, <1>2
<1> QED BY <1>3, <1>4 DEF V

\* A planted bump is one of three things.
LEMMA ProbesAddUp ==
  ASSUME NEW rows, IsFiniteSet(rows), \A r \in rows : r.state \in {"open", "merged", "closed"}
  PROVE  Probes(rows)["caught"] + Probes(rows)["escaped"] + Probes(rows)["pending"]
           = Cardinality(rows)
<1> DEFINE in(state) == {r \in rows : r.state = state}
           closed == in("closed")
           merged == in("merged")
           open   == in("open")
<1>1. /\ \A r \in rows : /\ ScoreProbe(r.state) = "caught" <=> r.state = "closed"
                         /\ ScoreProbe(r.state) = "escaped" <=> r.state = "merged"
                         /\ ScoreProbe(r.state) = "pending" <=> r.state = "open"
  BY DEF ScoreProbe
<1>2. /\ Probes(rows)["caught"] = Cardinality({r \in rows : ScoreProbe(r.state) = "caught"})
      /\ Probes(rows)["escaped"] = Cardinality({r \in rows : ScoreProbe(r.state) = "escaped"})
      /\ Probes(rows)["pending"] = Cardinality({r \in rows : ScoreProbe(r.state) = "pending"})
  BY DEF Probes
<1>3. /\ {r \in rows : ScoreProbe(r.state) = "caught"} = closed
      /\ {r \in rows : ScoreProbe(r.state) = "escaped"} = merged
      /\ {r \in rows : ScoreProbe(r.state) = "pending"} = open
  BY <1>1
<1>4. /\ rows = (closed \cup merged) \cup open /\ closed \cap merged = {}
      /\ (closed \cup merged) \cap open = {}
  OBVIOUS
<1>5. IsFiniteSet(closed) /\ IsFiniteSet(merged) /\ IsFiniteSet(open)
  BY FS_Subset
<1> HIDE DEF closed, merged, open
<1>6. /\ IsFiniteSet(closed \cup merged)
      /\ Cardinality(closed \cup merged) = Cardinality(closed) + Cardinality(merged) - Cardinality({})
  <2>1. /\ IsFiniteSet(closed \cup merged)
        /\ Cardinality(closed \cup merged) = Cardinality(closed) + Cardinality(merged)
                                             - Cardinality(closed \cap merged)
    BY <1>5, FS_Union
  <2> QED BY <1>4, <2>1
<1>7. Cardinality(rows) = Cardinality(closed \cup merged) + Cardinality(open) - Cardinality({})
  <2> DEFINE decided == closed \cup merged
  <2>1. IsFiniteSet(decided)
    BY <1>6
  <2>2. rows = decided \cup open /\ decided \cap open = {}
    BY <1>4
  <2> HIDE DEF decided
  <2>3. Cardinality(decided \cup open) = Cardinality(decided) + Cardinality(open)
                                         - Cardinality(decided \cap open)
    BY <1>5, <2>1, FS_Union
  <2>4. Cardinality(rows) = Cardinality(decided) + Cardinality(open) - Cardinality({})
    BY <2>2, <2>3
  <2> QED BY <2>4 DEF decided
<1>8. /\ Cardinality({}) = 0 /\ Cardinality(closed) \in Nat /\ Cardinality(merged) \in Nat
      /\ Cardinality(open) \in Nat
  BY <1>5, FS_EmptySet, FS_CardinalityType
<1>9. Cardinality(closed) + Cardinality(merged) + Cardinality(open) = Cardinality(rows)
  BY <1>6, <1>7, <1>8
<1> QED BY <1>2, <1>3, <1>9

LEMMA TabsAddUp ==
  ASSUME PanelInductive
  PROVE  Cardinality(page.prs) =
           TabSum(LAMBDA v : v.trackRecord.opened, Shown.bumpLoops) +
           TabSum(LAMBDA v : v.probes["caught"] + v.probes["escaped"] + v.probes["pending"],
                  Shown.bumpLoops)
<1> DEFINE all == page.ledger["bumps"]
           rows == BumpRows(page.prs, all, page.outcomes)
           V == Shown.bumpLoops
           One(s) == CHOOSE x \in s : TRUE
           Opened(f) == f = [s \in SUBSET V |->
             IF s = {} THEN 0 ELSE One(s).trackRecord.opened + f[s \ {One(s)}]]
           Three(v) == v.probes["caught"] + v.probes["escaped"] + v.probes["pending"]
           Probed(f) == f = [s \in SUBSET V |->
             IF s = {} THEN 0 ELSE Three(One(s)) + f[s \ {One(s)}]]
           opened == [v \in V |-> v.trackRecord.opened]
           probed == [v \in V |-> Three(v)]
           genuineOf == [v \in V |-> OfLoop(Shown.bumps, v.loop)]
           plantedOf == [v \in V |-> OfLoop(Planted, v.loop)]
<1>2. IsFiniteSet(page.prs) /\ page.prs \subseteq Pulls
  BY DEF PanelInductive, PageInductive, PageTrue, PrsStand, Pages
<1>3. IsFiniteSet(rows) /\ Cardinality(rows) = Cardinality(page.prs)
  <2> DEFINE g == [p \in page.prs |-> BumpRow(p, all, page.outcomes)]
  <2>1. g \in Surjection(page.prs, rows)
    BY DEF Surjection, BumpRows
  <2> HIDE DEF g
  <2>2. IsFiniteSet(rows)
    BY <1>2, <2>1, FS_Surjection
  <2>3. page.prs \in SUBSET page.prs
    OBVIOUS
  <2> QED BY <2>2, <2>3, RowsCount DEF BumpRows
<1>4. \A r \in rows : r.loop \in Loops /\ r.state \in {"open", "merged", "closed"}
  <2> SUFFICES ASSUME NEW p \in page.prs
               PROVE  LET r == BumpRow(p, all, page.outcomes)
                      IN r.loop \in Loops /\ r.state \in {"open", "merged", "closed"}
    BY DEF BumpRows
  <2> QED BY <1>2 DEF BumpRow, Pulls
<1>5. Shown.bumps = {r \in rows : ~IsCanary(r.to)} /\ Planted = {r \in rows : IsCanary(r.to)}
  BY ShownIs DEF Genuine, Planted
<1>6. /\ rows = Shown.bumps \cup Planted /\ Shown.bumps \cap Planted = {}
      /\ IsFiniteSet(Shown.bumps) /\ IsFiniteSet(Planted)
  <2> HIDE DEF rows
  <2> QED BY <1>3, <1>5, FS_Subset
<1>7. Cardinality(rows) = Cardinality(Shown.bumps) + Cardinality(Planted)
  <2> DEFINE genuine == Shown.bumps
  <2>1. /\ rows = genuine \cup Planted /\ genuine \cap Planted = {}
        /\ IsFiniteSet(genuine) /\ IsFiniteSet(Planted)
    BY <1>6
  <2> HIDE DEF genuine, rows
  <2>2. Cardinality(genuine \cup Planted) =
          Cardinality(genuine) + Cardinality(Planted) - Cardinality(genuine \cap Planted)
    BY <2>1, FS_Union
  <2>3. Cardinality(rows) = Cardinality(genuine) + Cardinality(Planted) - Cardinality({})
    BY <2>1, <2>2
  <2>4. Cardinality({}) = 0 /\ Cardinality(genuine) \in Nat /\ Cardinality(Planted) \in Nat
    BY <2>1, FS_EmptySet, FS_CardinalityType
  <2>5. Cardinality(rows) = Cardinality(genuine) + Cardinality(Planted)
    BY <2>3, <2>4
  <2> QED BY <2>5 DEF genuine
<1>8. /\ IsFiniteSet(V) /\ \A v, w \in V : v.loop = w.loop => v = w
      /\ \A l \in Loops : \E v \in V : v.loop = l
      /\ \A v \in V : /\ v.trackRecord.opened = Cardinality(OfLoop(Shown.bumps, v.loop))
                      /\ v.probes = Probes(OfLoop(Planted, v.loop))
  BY TabsAre
<1>9. ASSUME NEW some \in SUBSET rows
      PROVE  LET of == [v \in V |-> OfLoop(some, v.loop)]
             IN /\ \A v, w \in V : v # w => of[v] \cap of[w] = {}
                /\ Whole(of, V) = some
  <2> HIDE DEF rows, V
  <2>1. \A r \in some : \E v \in V : v.loop = r.loop
    BY <1>4, <1>8
  <2> QED BY <1>8, <2>1 DEF OfLoop, Whole
<1>10. \A some \in SUBSET rows : \A v : IsFiniteSet(OfLoop(some, v.loop))
  <2> HIDE DEF rows
  <2> QED BY <1>3, FS_Subset DEF OfLoop
<1>11. /\ Shown.bumps \in SUBSET rows /\ Planted \in SUBSET rows
  BY <1>5
<1>12. \A v \in V : opened[v] = Cardinality(genuineOf[v])
  BY <1>8
<1>13. \A v \in V : probed[v] = Cardinality(plantedOf[v])
  <2> SUFFICES ASSUME NEW v \in V PROVE Three(v) = Cardinality(OfLoop(Planted, v.loop))
    OBVIOUS
  <2>1. \A r \in OfLoop(Planted, v.loop) : r.state \in {"open", "merged", "closed"}
    BY <1>4, <1>11 DEF OfLoop
  <2>2. IsFiniteSet(OfLoop(Planted, v.loop))
    BY <1>10, <1>11
  <2> QED BY <1>8, <2>1, <2>2, ProbesAddUp
<1> HIDE DEF rows, V
<1>14. (CHOOSE f : Opened(f))[V] = Cardinality(Shown.bumps)
  <2>1. \A s \in SUBSET V : s # {} => One(s) \in V /\ opened[One(s)] = One(s).trackRecord.opened
    OBVIOUS
  <2>2. \A f : Opened(f) <=> Summed(f, V, opened)
    <3> HIDE DEF opened
    <3> QED BY <2>1 DEF Summed
  <2>3. /\ \A v \in V : IsFiniteSet(genuineOf[v])
        /\ \A v, w \in V : v # w => genuineOf[v] \cap genuineOf[w] = {}
        /\ Whole(genuineOf, V) = Shown.bumps
    BY <1>9, <1>10, <1>11
  <2> HIDE DEF opened, genuineOf
  <2>4. /\ \E f : Summed(f, V, opened)
        /\ \A f : Summed(f, V, opened) => f[V] = Cardinality(Whole(genuineOf, V))
    BY <1>8, <1>12, <2>3, SumOfParts
  <2>5. Opened(CHOOSE f : Opened(f))
    <3> HIDE DEF Opened
    <3> QED BY <2>2, <2>4
  <2> HIDE DEF Opened
  <2> QED BY <2>2, <2>3, <2>4, <2>5
<1>15. (CHOOSE f : Probed(f))[V] = Cardinality(Planted)
  <2>1. \A s \in SUBSET V : s # {} => One(s) \in V /\ probed[One(s)] = Three(One(s))
    OBVIOUS
  <2>2. \A f : Probed(f) <=> Summed(f, V, probed)
    <3> HIDE DEF probed, Three
    <3> QED BY <2>1 DEF Summed
  <2>3. /\ \A v \in V : IsFiniteSet(plantedOf[v])
        /\ \A v, w \in V : v # w => plantedOf[v] \cap plantedOf[w] = {}
        /\ Whole(plantedOf, V) = Planted
    BY <1>9, <1>10, <1>11
  <2> HIDE DEF probed, plantedOf
  <2>4. /\ \E f : Summed(f, V, probed)
        /\ \A f : Summed(f, V, probed) => f[V] = Cardinality(Whole(plantedOf, V))
    BY <1>8, <1>13, <2>3, SumOfParts
  <2>5. Probed(CHOOSE f : Probed(f))
    <3> HIDE DEF Probed
    <3> QED BY <2>2, <2>4
  <2> HIDE DEF Probed
  <2> QED BY <2>2, <2>3, <2>4, <2>5
<1>16. Cardinality(page.prs) = (CHOOSE f : Opened(f))[V] + (CHOOSE f : Probed(f))[V]
  BY <1>3, <1>7, <1>14, <1>15
<1> QED BY <1>16 DEF V, TabSum, MapThenSumSet, MapThenFoldSet

\* A class is judged by what was decided of it and was not planted, and by all
\* of that: nothing is too old yet.
LEMMA ClassesAddUp ==
  ASSUME PanelInductive, NEW g \in Shown.classGates
  PROVE  g.standing.decided + g.priorEnvDecided =
           Cardinality({p \in page.prs : /\ p.repo = g.repo /\ p.loop = g.loop
                                         /\ p.state # "open" /\ ~IsCanary(p.to)})
<1> DEFINE all == page.ledger["bumps"]
           decided == {p \in page.prs : /\ p.repo = g.repo /\ p.loop = g.loop
                                        /\ p.state # "open" /\ ~IsCanary(p.to)}
           inWindow == InWindow(0, Shown.bumps, g.repo, g.loop, Policy)
           judged == UnderEnvironment(inWindow, Environment)
<1>1. /\ g.standing = Standing(judged)
      /\ g.priorEnvDecided = Cardinality(inWindow) - Cardinality(judged)
  <2>1. PICK repo \in Read.repos, loop \in Loops : g = ClassGateRow(Read, Shown.bumps, repo, loop)
    BY ShownIs DEF ClassGates
  <2>2. Read.now = 0 /\ Read.policy = Policy /\ Read.environment = Environment
    BY DEF Read
  <2>3. /\ g.repo = repo /\ g.loop = loop
        /\ g.standing = Standing(UnderEnvironment(
             InWindow(Read.now, Shown.bumps, repo, loop, Read.policy), Read.environment))
        /\ g.priorEnvDecided = Cardinality(InWindow(Read.now, Shown.bumps, repo, loop, Read.policy))
             - Cardinality(UnderEnvironment(
                 InWindow(Read.now, Shown.bumps, repo, loop, Read.policy), Read.environment))
    BY <2>1 DEF ClassGateRow
  <2> QED BY <2>2, <2>3
<1>2. g.standing.decided = Cardinality(judged)
  BY <1>1 DEF Standing
<1>3. \A p \in page.prs : /\ p.state \in {"open", "merged", "closed"} /\ p.opened = 0
                          /\ p.merged \in {0, NoTime}
                          /\ p.loop = "dead-code" => ~IsCanary(p.to)
  <2> SUFFICES ASSUME NEW p \in page.prs
               PROVE  /\ p.state \in {"open", "merged", "closed"} /\ p.opened = 0
                      /\ p.merged \in {0, NoTime}
                      /\ p.loop = "dead-code" => ~IsCanary(p.to)
    OBVIOUS
  <2>1. p \in Pulls
    BY DEF PanelInductive, PageInductive, Pages
  <2>2. PICK q \in pulls : Same(p, q)
    BY DEF PanelInductive, PageInductive, PageTrue, PrsStand
  <2>3. p.loop = "dead-code" => ~IsCanary(p.to)
    BY <2>2 DEF Same, PanelInductive, WorldInductive, PullsInStep, IsCanary
  <2> QED BY <2>1, <2>3 DEF Pulls
<1>4. Policy.windowDays \in Nat
  BY PanelAssumption DEF AutonomyPolicies
<1>5. inWindow = {BumpRow(p, all, page.outcomes) : p \in decided}
  <2> DEFINE Counted(r) == /\ r.repo = g.repo /\ r.loop = g.loop
                           /\ r.state \in {"merged", "closed"}
                           /\ Within(DecidedAt(r), 0, Policy.windowDays)
             row(p) == BumpRow(p, all, page.outcomes)
  <2>1. inWindow = {r \in {row(p) : p \in page.prs} : ~IsCanary(r.to) /\ Counted(r)}
    BY ShownIs DEF InWindow, Genuine, BumpRows
  <2>2. \A p \in page.prs : ~IsCanary(row(p).to) /\ Counted(row(p)) <=> p \in decided
    <3> SUFFICES ASSUME NEW p \in page.prs
                 PROVE  ~IsCanary(row(p).to) /\ Counted(row(p)) <=> p \in decided
      OBVIOUS
    <3> DEFINE r == row(p)
    <3>1. /\ r.repo = p.repo /\ r.loop = p.loop /\ r.state = p.state
          /\ r.merged = p.merged /\ r.opened = p.opened
          /\ r.to = IF p.loop = "dead-code" THEN "unused" ELSE p.to
      BY DEF BumpRow
    <3> HIDE DEF r
    <3>2. Within(DecidedAt(r), 0, Policy.windowDays)
      BY <1>3, <1>4, <3>1 DEF Within, DecidedAt, NoTime
    <3>3. IsCanary(r.to) <=> IsCanary(p.to)
      BY <1>3, <3>1 DEF IsCanary, CanaryTarget
    <3>4. ~IsCanary(r.to) /\ Counted(r) <=> p \in decided
      BY <1>3, <3>1, <3>2, <3>3
    <3> QED BY <3>4 DEF r
  <2>3. decided \subseteq page.prs
    OBVIOUS
  <2> HIDE DEF inWindow, decided, Counted, row
  <2>4. inWindow = {row(p) : p \in decided}
    BY <2>1, <2>2, <2>3
  <2> QED BY <2>4 DEF row
<1>6. decided \in SUBSET page.prs
  OBVIOUS
<1>7. IsFiniteSet(decided)
  BY <1>6, FS_Subset DEF PanelInductive, PageInductive, PageTrue, PrsStand
<1>8. judged \subseteq inWindow
  BY DEF UnderEnvironment
<1> HIDE DEF decided, inWindow, judged
<1>9. Cardinality(inWindow) = Cardinality(decided)
  BY <1>5, <1>6, RowsCount
<1>10. IsFiniteSet(inWindow)
  <2> DEFINE f == [p \in decided |-> BumpRow(p, all, page.outcomes)]
  <2>1. f \in Surjection(decided, inWindow)
    BY <1>5 DEF Surjection
  <2> HIDE DEF f
  <2> QED BY <1>7, <2>1, FS_Surjection
<1>11. Cardinality(judged) \in Nat /\ Cardinality(inWindow) \in Nat
  BY <1>8, <1>10, FS_Subset, FS_CardinalityType
<1>12. g.standing.decided + g.priorEnvDecided = Cardinality(decided)
  BY <1>1, <1>2, <1>9, <1>11
<1> QED BY <1>12 DEF decided

\* Over the tabs each pull request is counted once, as a bump or as a planted
\* one, and no class is judged by a planted one.
THEOREM EachIsCountedOnce == Spec => []CountedOnce
<1>1. PanelInductive => CountedOnce
  BY TabsAddUp, ClassesAddUp DEF CountedOnce
<1> QED BY <1>1, PanelInductiveHolds, PTL

-----------------------------------------------------------------------------
(* What an id tells.                                                       *)

\* Words of the program's own, and those of the texts it is given.
Letters == STRING \cup Marks

LEMMA TextsAre ==
  /\ Marks \subseteq Letters /\ STRING \subseteq Letters /\ Hyphen \in Letters
  /\ <<Hyphen>> \in Seq(Letters) /\ Loops \cup {Advisory} \subseteq NamedLoops
  /\ \A r \in Repos : RepoParts(r) \in Seq(Seq(Letters))
  /\ \A p \in Proposable : Slug(p.package) \in Seq(Letters) /\ p.target \in Letters
  /\ \A r \in Reviewable : /\ r.number \in Letters \ {Hyphen}
                           /\ r.head \in Letters \ {Hyphen}
<1>1. Marks \subseteq Letters /\ STRING \subseteq Letters
  BY DEF Letters
<1>2. Hyphen \in Letters
  BY <1>1 DEF Marks, Hyphen
<1>3. ASSUME NEW s \in Texts PROVE s \in Seq(Letters)
  <2> HIDE DEF Letters
  <2> QED BY <1>1, <1>3, SeqMonotonic DEF Texts
<1>4. Loops \cup {Advisory} \subseteq NamedLoops
  BY Constants DEF CommitLoops, AdvisoryLoops, NamedLoops
<1> HIDE DEF Letters
<1>5. <<Hyphen>> \in Seq(Letters)
  BY <1>2
<1>6. ASSUME NEW r \in Repos PROVE RepoParts(r) \in Seq(Seq(Letters))
  <2>1. Slug(r.owner) \in Seq(Letters) /\ Slug(r.name) \in Seq(Letters)
    BY <1>3, SlugAssumption
  <2> QED BY <2>1 DEF RepoParts
<1>7. ASSUME NEW p \in Proposable PROVE Slug(p.package) \in Seq(Letters) /\ p.target \in Letters
  BY <1>1, <1>3, SlugAssumption
<1>8. ASSUME NEW r \in Reviewable
      PROVE  r.number \in Letters \ {Hyphen} /\ r.head \in Letters \ {Hyphen}
  BY <1>1, SlugAssumption
<1> QED BY <1>1, <1>2, <1>4, <1>5, <1>6, <1>7, <1>8

\* The id of a bump after its first words: the loop, if it has a segment, the
\* repository and the rest.
LEMMA BumpIdTells ==
  ASSUME NEW i \in Proposable
  PROVE  LET full == Join(RepoParts(i.repo))
         IN /\ BumpId \in Seq(Letters) /\ full \in Seq(Letters)
            /\ \E rest \in Seq(Letters) :
                 IdOf(i) = Cat(BumpId, Cat(Cat(
                   IF i.loop = "dependency-patch" THEN full
                   ELSE Cat(Cat(Words(i.loop), <<Hyphen>>), full), <<Hyphen>>), rest))
<1> DEFINE full == Join(RepoParts(i.repo))
           h    == <<Hyphen>>
           w    == Words(i.loop)
           body == IF i.loop = "dependency-patch" THEN full ELSE Cat(Cat(w, h), full)
           head == Join(BumpHead(i.repo, i.loop))
           item == [kind |-> "bump", package |-> i.package, target |-> i.target]
           p    == Slug(i.package)
           t    == <<i.target>>
           rest == Cat(Cat(p, h), t)
<1>1. i.repo \in Repos /\ i.loop \in Loops
  BY Constants
<1>2. /\ Marks \subseteq Letters /\ RepoParts(i.repo) \in Seq(Seq(Letters))
      /\ i.loop \in NamedLoops /\ h \in Seq(Letters) /\ p \in Seq(Letters)
      /\ i.target \in Letters
  BY <1>1, TextsAre
<1>3. BumpId \in Seq(Letters)
  <2>1. ASSUME NEW S, Marks \subseteq S PROVE <<"froot", "-", "bump", "-">> \in Seq(S)
    BY <2>1 DEF Marks
  <2> QED BY <1>2, <2>1 DEF BumpId
<1>4. full \in Seq(Letters) /\ w \in Seq(Letters) /\ t \in Seq(Letters)
  <2>1. t \in Seq(Letters)
    BY <1>2
  <2> HIDE DEF t
  <2> QED BY <1>2, <2>1, FullNameIs, WordsAre
<1>5. head \in Seq(Letters) /\ head = Cat(BumpId, body)
  BY <1>2, BumpHeadIs DEF BumpId
<1>6. IdOf(i) = Cat(Cat(Cat(Cat(head, h), p), h), t)
  <2>1. item.kind = "bump" /\ item.package = i.package /\ item.target = i.target
    OBVIOUS
  <2>2. IdOf(i) = BumpWorkflowId(i.repo, item, i.loop)
    BY DEF IdOf
  <2> DEFINE repo == i.repo
             loop == i.loop
             to   == i.target
  <2>3. /\ RepoParts(repo) \in Seq(Seq(Letters)) /\ loop \in NamedLoops
        /\ Slug(item.package) = p /\ p \in Seq(Letters) /\ item.target = to /\ to \in Letters
    BY <1>2, <2>1
  <2> HIDE DEF item, repo, loop, to, p, t
  <2>4. BumpWorkflowId(repo, item, loop) =
          Cat(Cat(Cat(Cat(Join(BumpHead(repo, loop)), <<Hyphen>>), p), <<Hyphen>>), <<to>>)
    BY <1>2, <2>1, <2>3, BumpIdEnds
  <2> QED BY <2>2, <2>4 DEF repo, loop, to, t
<1> HIDE DEF full, h, w, head, p, t
<1>7. body \in Seq(Letters)
  <2>1. Cat(w, h) \in Seq(Letters)
    BY <1>2, <1>4, Laws
  <2> QED BY <1>4, <2>1, Laws
<1> HIDE DEF body
<1>8. /\ Cat(head, h) \in Seq(Letters) /\ Cat(p, h) \in Seq(Letters) /\ rest \in Seq(Letters)
      /\ Cat(body, h) \in Seq(Letters)
  <2>1. Cat(head, h) \in Seq(Letters) /\ Cat(p, h) \in Seq(Letters) /\ Cat(body, h) \in Seq(Letters)
    BY <1>2, <1>5, <1>7, Laws
  <2> QED BY <1>4, <2>1, Laws
<1>9. Cat(Cat(Cat(Cat(head, h), p), h), t) = Cat(Cat(head, h), rest)
  <2>1. Cat(Cat(Cat(head, h), p), h) = Cat(Cat(head, h), Cat(p, h))
    BY <1>2, <1>8, Laws
  <2> QED BY <1>4, <1>8, <2>1, Laws
<1>10. Cat(Cat(head, h), rest) = Cat(BumpId, Cat(Cat(body, h), rest))
  <2> HIDE DEF rest
  <2>1. Cat(head, h) = Cat(BumpId, Cat(body, h))
    BY <1>2, <1>3, <1>5, <1>7, Laws
  <2> QED BY <1>3, <1>8, <2>1, Laws
<1> HIDE DEF rest
<1> QED BY <1>3, <1>4, <1>6, <1>8, <1>9, <1>10 DEF body, full, h, w

\* The loops that a text carries, if any; or else the one without a segment.
LEMMA FailureLoopIs ==
  ASSUME NEW id
  PROVE  LET named == {l \in Loops \ {"dependency-patch"} : NamedIn(id, l)}
         IN /\ named # {} => FailureLoop(id, Loops) = named
            /\ named = {} => FailureLoop(id, Loops) \subseteq {"dependency-patch"}
<1> DEFINE named == {l \in Loops \ {"dependency-patch"} : NamedIn(id, l)}
           begins == IsPrefix(BumpId, id)
<1>1. FailureLoop(id, Loops) =
        CASE named # {} -> named
          [] named = {} /\ begins -> Loops \cap {"dependency-patch"}
          [] OTHER -> {}
  BY DEF FailureLoop
<1> HIDE DEF named, begins
<1>2. named # {} => FailureLoop(id, Loops) = named
  BY <1>1
<1>3. named = {} /\ begins => FailureLoop(id, Loops) = Loops \cap {"dependency-patch"}
  BY <1>1
<1>4. named = {} /\ ~begins => FailureLoop(id, Loops) = {}
  BY <1>1
<1>5. named = {} => FailureLoop(id, Loops) \subseteq {"dependency-patch"}
  BY <1>3, <1>4
<1> QED BY <1>2, <1>5 DEF named

\* A failed bump is on no tab but its loop's.
LEMMA FailureTells ==
  ASSUME NamesTell, NEW i \in Proposable, NEW l \in FailureLoop(IdOf(i), Loops)
  PROVE  l = i.loop
<1> DEFINE full == Join(RepoParts(i.repo))
           h    == <<Hyphen>>
           w    == Words(i.loop)
           body == IF i.loop = "dependency-patch" THEN full ELSE Cat(Cat(w, h), full)
           id   == IdOf(i)
<1>1. PICK rest \in Seq(Letters) : id = Cat(BumpId, Cat(Cat(body, h), rest))
  BY BumpIdTells
<1>2. /\ BumpId \in Seq(Letters) /\ full \in Seq(Letters) /\ h \in Seq(Letters)
      /\ i.loop \in Loops /\ i.repo \in Repos
  BY BumpIdTells, TextsAre, Constants
<1>3. \A k \in Loops : Words(k) \in Seq(Letters)
  BY TextsAre, WordsAre
<1> DEFINE after == Cat(Cat(body, h), rest)
<1>4. /\ body \in Seq(Letters) /\ Cat(body, h) \in Seq(Letters) /\ after \in Seq(Letters)
      /\ Cat(w, h) \in Seq(Letters) /\ Cat(full, h) \in Seq(Letters)
      /\ Cat(Cat(full, h), rest) \in Seq(Letters)
  <2> HIDE DEF h, full, w
  <2>1. Cat(w, h) \in Seq(Letters) /\ Cat(full, h) \in Seq(Letters)
    BY <1>2, <1>3, Laws DEF w
  <2>2. body \in Seq(Letters)
    BY <1>2, <2>1, Laws
  <2> HIDE DEF body
  <2>3. Cat(body, h) \in Seq(Letters)
    BY <1>2, <2>2, Laws
  <2> QED BY <2>1, <2>2, <2>3, Laws
<1>5. ASSUME NEW k \in Loops
      PROVE  /\ Cat(Words(k), h) \in Seq(Letters)
             /\ NamedIn(id, k) <=> IsPrefix(Cat(Words(k), h), after)
  <2> DEFINE v == Words(k)
  <2>1. NamedIn(id, k) <=> IsPrefix(Cat(Cat(BumpId, v), h), id)
    BY DEF NamedIn, Cat
  <2> HIDE DEF h, v, after
  <2>2. v \in Seq(Letters)
    BY <1>3 DEF v
  <2>3. Cat(v, h) \in Seq(Letters) /\ Cat(Cat(BumpId, v), h) = Cat(BumpId, Cat(v, h))
    BY <1>2, <2>2, Laws
  <2>4. IsPrefix(Cat(BumpId, Cat(v, h)), Cat(BumpId, after)) => IsPrefix(Cat(v, h), after)
    BY <1>2, <1>4, <2>3, Begins
  <2>5. ASSUME IsPrefix(Cat(v, h), after)
        PROVE  IsPrefix(Cat(BumpId, Cat(v, h)), Cat(BumpId, after))
    <3> DEFINE vh == Cat(v, h)
    <3>1. vh \in Seq(Letters)
      BY <2>3
    <3> HIDE DEF vh
    <3>2. PICK u \in Seq(Letters) : after = Cat(vh, u)
      BY <1>4, <2>5, <3>1, PrefixIs DEF vh, Cat
    <3>3. Cat(BumpId, after) = Cat(Cat(BumpId, vh), u) /\ Cat(BumpId, vh) \in Seq(Letters)
      BY <1>2, <3>1, <3>2, Laws
    <3> QED BY <3>1, <3>3, Begins DEF vh
  <2>6. id = Cat(BumpId, after)
    BY <1>1 DEF after
  <2> QED BY <2>1, <2>3, <2>4, <2>5, <2>6 DEF v
<1> DEFINE named == {k \in Loops \ {"dependency-patch"} : NamedIn(id, k)}
<1>6. /\ named # {} => FailureLoop(id, Loops) = named
      /\ named = {} => FailureLoop(id, Loops) \subseteq {"dependency-patch"}
  BY FailureLoopIs
<1>7. CASE i.loop = "dependency-patch"
  <2>1. ASSUME NEW k \in named PROVE FALSE
    <3>1. IsPrefix(Cat(Words(k), h), after) /\ Cat(Words(k), h) \in Seq(Letters)
      BY <1>5
    <3>2. after = Cat(Cat(full, h), rest)
      BY <1>7
    <3>3. IsPrefix(Cat(full, h), after)
      <4> HIDE DEF full, h, after
      <4> QED BY <1>4, <3>2, Begins
    <3>4. IsPrefix(Cat(full, h), Cat(Words(k), h)) \/ IsPrefix(Cat(Words(k), h), Cat(full, h))
      <4> HIDE DEF full, h, after
      <4> QED BY <1>4, <3>1, <3>3, Begins
    <3> QED BY <1>2, <3>4 DEF NamesTell, FullName, Cat
  <2> HIDE DEF named, id
  <2> QED BY <1>6, <1>7, <2>1 DEF id
<1>8. CASE i.loop # "dependency-patch"
  <2>1. IsPrefix(Cat(w, h), after)
    <3> HIDE DEF h, w, full
    <3>1. after = Cat(Cat(Cat(Cat(w, h), full), h), rest)
      BY <1>8
    <3>2. Cat(Cat(Cat(w, h), full), h) = Cat(Cat(w, h), Cat(full, h))
      BY <1>2, <1>4, Laws
    <3>3. after = Cat(Cat(w, h), Cat(Cat(full, h), rest))
      BY <1>4, <3>1, <3>2, Laws
    <3> HIDE DEF after
    <3> QED BY <1>4, <3>3, Begins
  <2>2. i.loop \in named
    BY <1>2, <1>5, <1>8, <2>1
  <2>3. ASSUME NEW k \in named PROVE k = i.loop
    <3>1. IsPrefix(Cat(Words(k), h), after) /\ Cat(Words(k), h) \in Seq(Letters)
      BY <1>5
    <3>2. IsPrefix(Cat(w, h), Cat(Words(k), h)) \/ IsPrefix(Cat(Words(k), h), Cat(w, h))
      <4> HIDE DEF w, h, after
      <4> QED BY <1>4, <2>1, <3>1, Begins
    <3>3. k \in {"security-patch", "dead-code"} /\ i.loop \in {"security-patch", "dead-code"}
      BY <1>2, <1>8, Constants DEF CommitLoops
    <3> QED BY <3>2, <3>3, TextsAre, SegmentsApart
  <2> HIDE DEF named, id
  <2> QED BY <1>6, <2>2, <2>3 DEF id
<1> QED BY <1>7, <1>8

\* What the ids of all reviews of a repository begin with.
LEMMA AdvisoryPrefixIs ==
  ASSUME NEW repo \in Repos
  PROVE  LET stem == Cat(<<"froot", "-", "pr", "-">>,
                         Cat(Cat(Words(Advisory), <<Hyphen>>), FullName(repo)))
         IN /\ stem \in Seq(Letters)
            /\ PrAdvisoryPrefix(Advisory, repo) = Cat(stem, <<Hyphen>>)
            /\ \A number, sha \in Letters :
                 ReviewId(repo, Advisory, number, sha) =
                   Cat(Cat(Cat(Cat(stem, <<Hyphen>>), <<number>>), <<Hyphen>>), <<sha>>)
<1> DEFINE fh   == <<"froot", "-">>
           rh   == <<"froot", "-", "pr", "-">>
           tail == Cat(Cat(Words(Advisory), <<Hyphen>>), FullName(repo))
           id   == ReviewLoopId(repo, Advisory)
<1>1. /\ Marks \subseteq Letters /\ Hyphen \in Letters /\ Advisory \in NamedLoops
      /\ RepoParts(repo) \in Seq(Seq(Letters))
  BY TextsAre
<1>2. ASSUME NEW number \in Letters, NEW sha \in Letters
      PROVE  /\ tail \in Seq(Letters) /\ Cat(rh, tail) \in Seq(Letters) /\ id = Cat(fh, tail)
             /\ ReviewId(repo, Advisory, number, sha) =
                  Cat(Cat(Cat(Cat(Cat(rh, tail), <<Hyphen>>), <<number>>), <<Hyphen>>), <<sha>>)
  BY <1>1, <1>2, ReviewIdIs DEF FullName
<1>3. /\ tail \in Seq(Letters) /\ Cat(rh, tail) \in Seq(Letters) /\ id = Cat(fh, tail)
  BY <1>1, <1>2
<1>4. fh \in Seq(Letters) /\ Len(fh) = 2
  <2>1. ASSUME NEW S, Marks \subseteq S PROVE <<"froot", "-">> \in Seq(S)
    BY <2>1 DEF Marks
  <2> QED BY <1>1, <2>1
<1>5. SubSeq(id, 3, Len(id)) = tail
  <2> DEFINE rest == SubSeq(id, 3, Len(id))
  <2> HIDE DEF tail, id, fh
  <2>1. id = fh \o tail /\ id \in Seq(Letters)
    BY <1>3, <1>4, Associative DEF Cat
  <2>2. IsPrefix(fh, id)
    BY <1>3, <1>4, <2>1, PrefixIs
  <2>3. id = fh \o SubSeq(id, Len(fh) + 1, Len(id))
    BY <1>4, <2>1, <2>2, PrefixAndRest
  <2>4. id = fh \o rest
    BY <1>4, <2>3
  <2>5. rest \in Seq(Letters)
    BY <2>1, SubSeqProperties, LenProperties
  <2> HIDE DEF rest
  <2> QED BY <1>3, <1>4, <2>1, <2>4, <2>5, CancelLeft DEF rest
<1>6. PrAdvisoryPrefix(Advisory, repo) = rh \o SubSeq(id, 3, Len(id)) \o <<Hyphen>>
  BY DEF PrAdvisoryPrefix
<1>7. PrAdvisoryPrefix(Advisory, repo) = Cat(Cat(rh, tail), <<Hyphen>>)
  <2> HIDE DEF id, tail, rh
  <2> QED BY <1>5, <1>6 DEF Cat
<1> HIDE DEF id
<1> QED BY <1>2, <1>3, <1>7

\* A review is told of its own repository.
LEMMA ReviewTells ==
  ASSUME NamesTell, NEW i \in Reviewable
  PROVE  AttributeRepo(Advisory, IdOfReview(i), Repos) = {i.repo}
<1>0. \A t, u, v, w \in Seq(Letters) : Cat(Cat(Cat(t, u), v), w) = Cat(t, Cat(Cat(u, v), w))
  BY Glued
<1> DEFINE h       == <<Hyphen>>
           rh      == <<"froot", "-", "pr", "-">>
           wh      == Cat(Words(Advisory), h)
           stem(r) == Cat(rh, Cat(wh, FullName(r)))
           P(r)    == PrAdvisoryPrefix(Advisory, r)
           n       == i.number
           s       == i.head
           id      == IdOfReview(i)
<1>1. /\ i.repo \in Repos /\ n \in Letters /\ n # Hyphen /\ s \in Letters /\ s # Hyphen
      /\ Hyphen \in Letters /\ h \in Seq(Letters)
  BY TextsAre, Constants
<1>2. /\ \A r \in Repos : stem(r) \in Seq(Letters) /\ P(r) = Cat(stem(r), h)
      /\ id = Cat(Cat(Cat(Cat(stem(i.repo), h), <<n>>), h), <<s>>)
  BY <1>1, AdvisoryPrefixIs DEF IdOfReview
<1>3. wh \in Seq(Letters) /\ \A r \in Repos : FullName(r) \in Seq(Letters)
  <2>1. Advisory \in NamedLoops /\ Marks \subseteq Letters
        /\ \A r \in Repos : RepoParts(r) \in Seq(Seq(Letters))
    BY TextsAre
  <2>2. Words(Advisory) \in Seq(Letters)
    BY <2>1, WordsAre
  <2>3. \A r \in Repos : FullName(r) \in Seq(Letters)
    BY <2>1, FullNameIs DEF FullName
  <2> HIDE DEF h
  <2> QED BY <1>1, <2>2, <2>3, Laws
<1>4. rh \in Seq(Letters)
  <2>1. ASSUME NEW S, Marks \subseteq S PROVE <<"froot", "-", "pr", "-">> \in Seq(S)
    BY <2>1 DEF Marks
  <2> QED BY <2>1, TextsAre
<1>5. <<n>> \in Seq(Letters) /\ <<s>> \in Seq(Letters)
  BY <1>1
<1> DEFINE p == stem(i.repo)
           nn == <<n>>
           ss == <<s>>
<1>6. /\ p \in Seq(Letters) /\ Cat(p, h) \in Seq(Letters)
      /\ Cat(Cat(p, h), nn) \in Seq(Letters) /\ Cat(Cat(Cat(p, h), nn), h) \in Seq(Letters)
      /\ id \in Seq(Letters) /\ IsPrefix(Cat(p, h), id)
  <2> HIDE DEF p, h, nn, ss, id
  <2>1. p \in Seq(Letters) /\ nn \in Seq(Letters) /\ ss \in Seq(Letters)
        /\ id = Cat(Cat(Cat(Cat(p, h), nn), h), ss)
    BY <1>1, <1>2, <1>5 DEF p, nn, ss
  <2>2. Cat(p, h) \in Seq(Letters)
    BY <1>1, <2>1, Laws
  <2>3. Cat(Cat(p, h), nn) \in Seq(Letters) /\ IsPrefix(Cat(p, h), Cat(Cat(p, h), nn))
    BY <2>1, <2>2, Laws, Begins
  <2>4. /\ Cat(Cat(Cat(p, h), nn), h) \in Seq(Letters)
        /\ IsPrefix(Cat(p, h), Cat(Cat(Cat(p, h), nn), h))
    BY <1>1, <2>2, <2>3, Laws, Begins
  <2>5. id \in Seq(Letters) /\ IsPrefix(Cat(p, h), id)
    BY <2>1, <2>2, <2>4, Laws, Begins
  <2> QED BY <2>1, <2>2, <2>3, <2>4, <2>5
<1> DEFINE fits == {r \in Repos : IsPrefix(P(r), id)}
<1>7. i.repo \in fits /\ \A r \in Repos : P(r) \in Seq(Letters) /\ Len(P(r)) \in Nat
  <2>1. \A r \in Repos : Cat(stem(r), h) \in Seq(Letters)
    <3> HIDE DEF stem, h
    <3> QED BY <1>1, <1>2, Laws
  <2>2. \A r \in Repos : P(r) \in Seq(Letters)
    <3> HIDE DEF stem, h, P
    <3> QED BY <1>2, <2>1
  <2>3. P(i.repo) = Cat(p, h)
    BY <1>1, <1>2
  <2> HIDE DEF P, id, p, h
  <2> QED BY <1>1, <1>6, <2>2, <2>3, LenProperties
<1>8. ASSUME NEW r \in fits, Len(P(i.repo)) <= Len(P(r))
      PROVE  r = i.repo
  <2> DEFINE q == stem(r)
  <2>1. /\ q \in Seq(Letters) /\ P(r) = Cat(q, h) /\ P(i.repo) = Cat(p, h)
        /\ IsPrefix(P(r), id) /\ IsPrefix(P(i.repo), id)
    BY <1>1, <1>2, <1>7
  <2>2. IsPrefix(P(i.repo), P(r))
    <3> HIDE DEF P, id
    <3> QED BY <1>1, <1>6, <1>7, <1>8, <2>1, Comparable
  <2>3. q = p \/ q = Cat(Cat(p, h), <<n>>)
    <3>1. IsPrefix(Cat(p, h), Cat(q, h))
      <4> HIDE DEF P, p, q, h
      <4> QED BY <2>1, <2>2
    <3>2. IsPrefix(Cat(q, h), Cat(Cat(Cat(Cat(p, h), <<n>>), h), <<s>>))
      <4> HIDE DEF P, q, h, id
      <4> QED BY <1>2, <2>1
    <3>3. p \in Seq(Letters)
      BY <1>6
    <3> HIDE DEF p, q, n, s
    <3> QED BY <1>1, <2>1, <3>1, <3>2, <3>3, PrefixOfTail
  <2> DEFINE f == FullName(i.repo)
             g == FullName(r)
  <2>4. /\ q = Cat(rh, Cat(wh, g)) /\ p = Cat(rh, Cat(wh, f))
        /\ f \in Seq(Letters) /\ g \in Seq(Letters)
    BY <1>1, <1>3
  <2>5. nn = <<n>> /\ nn \in Seq(Letters)
    BY <1>5
  <2> HIDE DEF p, q, f, g, rh, wh, h, nn
  <2>6. Cat(wh, f) \in Seq(Letters) /\ Cat(wh, g) \in Seq(Letters)
    BY <1>3, <2>4, Laws
  <2>7. CASE q = p
    <3>1. Cat(rh, Cat(wh, g)) = Cat(rh, Cat(wh, f))
      BY <2>4, <2>7
    <3>2. Cat(wh, g) = Cat(wh, f)
      BY <1>4, <2>6, <3>1, Laws
    <3>3. g = f
      BY <1>3, <2>4, <3>2, Laws
    <3> QED BY <1>1, <1>8, <3>3 DEF NamesTell, f, g
  <2>8. CASE q = Cat(Cat(p, h), nn)
    <3>1. Cat(Cat(f, h), nn) \in Seq(Letters) /\ Cat(f, h) \in Seq(Letters)
      <4>1. Cat(f, h) \in Seq(Letters)
        BY <1>1, <2>4, Laws
      <4> QED BY <2>5, <4>1, Laws
    <3>2. Cat(Cat(p, h), nn) = Cat(rh, Cat(Cat(Cat(wh, f), h), nn))
      <4>1. /\ rh \in Seq(Letters) /\ Cat(wh, f) \in Seq(Letters) /\ h \in Seq(Letters)
            /\ nn \in Seq(Letters) /\ p = Cat(rh, Cat(wh, f))
        BY <1>1, <1>4, <2>4, <2>5, <2>6
      <4> QED BY <1>0, <4>1
    <3>3. Cat(Cat(Cat(wh, f), h), nn) = Cat(wh, Cat(Cat(f, h), nn))
      <4>1. wh \in Seq(Letters) /\ f \in Seq(Letters) /\ h \in Seq(Letters) /\ nn \in Seq(Letters)
        BY <1>1, <1>3, <2>4, <2>5
      <4> QED BY <1>0, <4>1
    <3>4. Cat(rh, Cat(wh, g)) = Cat(rh, Cat(wh, Cat(Cat(f, h), nn)))
      BY <2>4, <2>8, <3>2, <3>3
    <3>5. Cat(wh, Cat(Cat(f, h), nn)) \in Seq(Letters)
      BY <1>3, <3>1, Laws
    <3>6. Cat(wh, g) = Cat(wh, Cat(Cat(f, h), nn))
      BY <1>4, <2>6, <3>4, <3>5, Laws
    <3>7. g = Cat(Cat(f, h), nn)
      BY <1>3, <2>4, <3>1, <3>6, Laws
    <3> QED BY <1>8, <3>7 DEF NamesTell, f, g, h, nn, Cat
  <2> QED BY <2>3, <2>5, <2>7, <2>8
<1>9. AttributeRepo(Advisory, id, Repos) =
        {r \in fits : \A t \in fits : Len(P(t)) <= Len(P(r))}
  BY DEF AttributeRepo
<1> DEFINE L(r) == Len(P(r))
<1>10. /\ \A r \in fits : L(r) \in Nat /\ (L(i.repo) <= L(r) => r = i.repo)
       /\ i.repo \in fits
  <2> HIDE DEF P, id
  <2> QED BY <1>7, <1>8
<1>11. AttributeRepo(Advisory, id, Repos) = {r \in fits : \A t \in fits : L(t) <= L(r)}
  BY <1>9
<1> HIDE DEF L, fits, id
<1>12. \A t \in fits : L(t) <= L(i.repo)
  BY <1>10
<1> QED BY <1>10, <1>11, <1>12 DEF id

LEMMA TabFailures ==
  ASSUME NEW view \in Shown.bumpLoops, NEW f \in view.failures
  PROVE  /\ f \in Failures(page.ledger["bumps"]) /\ view.loop \in Loops
         /\ view.loop \in FailureLoop(f.id, Loops)
<1> DEFINE bumped     == BumpRows(Read.prs, Read.bumps, Read.outcomes)
           View(rows, canaries, l) == LoopView(Read, rows, canaries, l)
<1>1. Read.bumps = page.ledger["bumps"] /\ Read.loops = Loops
  BY DEF Read
<1>2. Shown.bumpLoops =
        {LoopView(Read, Genuine(bumped), {r \in bumped : IsCanary(r.to)}, l) : l \in Read.loops}
  BY DEF Shown, Assemble
<1>3. PICK l \in Loops : view = View(Genuine(bumped), {r \in bumped : IsCanary(r.to)}, l)
  <2> HIDE DEF bumped
  <2> QED BY <1>1, <1>2
<1>4. \A rows, canaries, k :
        /\ View(rows, canaries, k).loop = k
        /\ View(rows, canaries, k).failures =
             {x \in Failures(Read.bumps) : k \in FailureLoop(x.id, Read.loops)}
  BY DEF LoopView
<1> HIDE DEF View, bumped
<1> QED BY <1>1, <1>3, <1>4

LEMMA TellsItsOwn == PanelInductive /\ NamesTell => ToldOfTheirOwn
<1> SUFFICES ASSUME PanelInductive, NamesTell
             PROVE  /\ \A view \in Shown.bumpLoops : \A f \in view.failures :
                         \E i \in Started(bumps) : IdOf(i) = f.id /\ i.loop = view.loop
                    /\ \A view \in Shown.advisory : \A row \in view.rows :
                         \E i \in Started(reviews) :
                            IdOfReview(i) = row.id /\ row.repo = {i.repo}
  BY DEF ToldOfTheirOwn
<1>1. BumpsStand /\ ReviewsStand /\ WorldTypes
  BY DEF PanelInductive, PageInductive, PageTrue, WorldInductive
<1>2. Started(bumps) \subseteq Proposable /\ Started(reviews) \subseteq Reviewable
  BY <1>1 DEF WorldTypes, Started
<1>3. ASSUME NEW view \in Shown.bumpLoops, NEW f \in view.failures
      PROVE  \E i \in Started(bumps) : IdOf(i) = f.id /\ i.loop = view.loop
  <2>1. /\ f \in Failures(page.ledger["bumps"]) /\ view.loop \in FailureLoop(f.id, Loops)
    BY <1>3, TabFailures
  <2>2. PICK b \in page.ledger["bumps"] : f.id = b.id
    BY <2>1 DEF Failures, Failed
  <2>3. PICK i \in Started(bumps) : b.id = IdOf(i)
    BY <1>1, <2>2 DEF BumpsStand
  <2>4. view.loop \in FailureLoop(IdOf(i), Loops)
    BY <2>1, <2>2, <2>3
  <2>5. view.loop = i.loop
    BY <1>2, <2>3, <2>4, FailureTells
  <2> QED BY <2>2, <2>3, <2>5
<1>4. ASSUME NEW view \in Shown.advisory, NEW row \in view.rows
      PROVE  \E i \in Started(reviews) : IdOfReview(i) = row.id /\ row.repo = {i.repo}
  <2>1. row \in AdvisoryRows(Advisory, page.ledger["reviews"], Repos)
    BY <1>4, ShownIs
  <2>2. PICK e \in page.ledger["reviews"] : row = AdvisoryRow(Advisory, e, Repos)
    BY <2>1 DEF AdvisoryRows
  <2>3. row.id = e.id /\ row.repo = AttributeRepo(Advisory, e.id, Repos)
    BY <2>2 DEF AdvisoryRow
  <2>4. PICK i \in Started(reviews) : e.id = IdOfReview(i)
    BY <1>1, <2>2 DEF ReviewsStand
  <2>5. AttributeRepo(Advisory, IdOfReview(i), Repos) = {i.repo}
    BY <1>2, <2>4, ReviewTells
  <2> QED BY <2>3, <2>4, <2>5
<1> QED BY <1>3, <1>4

\* If no two repositories' names join alike, none has that of one with a number
\* of its pull requests after it and none is called like a loop, then a failure
\* is on the tab of its own loop and a review under its own repository.
THEOREM TellsOfTheirOwn ==
  ASSUME NamesTell
  PROVE  Spec => []ToldOfTheirOwn
<1>1. PanelInductive => ToldOfTheirOwn
  BY TellsItsOwn
<1> QED BY <1>1, PanelInductiveHolds, PTL
=============================================================================
