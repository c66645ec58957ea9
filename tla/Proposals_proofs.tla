--------------------------- MODULE Proposals_proofs ---------------------------
(***************************************************************************)
(* What the scanner's names and targets are good for, whatever packages,   *)
(* versions, vulnerabilities and repositories there are: a branch name     *)
(* says which package it is for, so that reconcile closes only what is     *)
(* overtaken, and a security bump goes to the lowest version that clears.  *)
(***************************************************************************)
EXTENDS Proposals, Names_proofs

-----------------------------------------------------------------------------
(* Names.                                                                  *)

Alphabet ==
  STRING \cup DOMAIN Semver \cup Marks
Texts == Seq(Alphabet)

LEMMA SlugsAreTexts ==
  ASSUME NEW p \in Packages
  PROVE  Slug(p) \in Texts
<1>1. STRING \subseteq Alphabet
  BY DEF Alphabet
<1> QED BY <1>1, SlugAssumption, SeqMonotonic DEF Texts

LEMMA MarksAreTexts ==
  /\ <<"froot", "/">> \in Texts /\ <<"/">> \in Texts /\ <<Hyphen>> \in Texts
  /\ \A v \in DOMAIN Semver : v \in Alphabet /\ <<v>> \in Texts
  /\ \A loop \in BumpLoops : Words(loop) \in Texts /\ Words(loop) # <<>>
  /\ Marks \subseteq Alphabet /\ Hyphen \in Alphabet
<1>1. Marks \subseteq Alphabet /\ DOMAIN Semver \subseteq Alphabet
  BY DEF Alphabet
<1>2. ASSUME NEW S, Marks \subseteq S
      PROVE  /\ <<"froot", "/">> \in Seq(S) /\ <<"/">> \in Seq(S) /\ <<"-">> \in Seq(S)
             /\ "-" \in S
  BY <1>2 DEF Marks
<1>3. ASSUME NEW v \in Alphabet PROVE <<v>> \in Texts
  BY DEF Texts
<1>4. BumpLoops \subseteq NamedLoops
  BY DEF BumpLoops, NamedLoops
<1>5. ASSUME NEW loop \in BumpLoops PROVE Words(loop) \in Texts /\ Words(loop) # <<>>
  BY <1>1, <1>4, WordsAre DEF Texts
<1>6. /\ <<"froot", "/">> \in Texts /\ <<"/">> \in Texts /\ <<Hyphen>> \in Texts
      /\ Hyphen \in Alphabet
  BY <1>1, <1>2 DEF Texts, Hyphen
<1> QED BY <1>1, <1>3, <1>5, <1>6

LEMMA Glue ==
  ASSUME NEW s \in Texts, NEW t \in Texts, NEW u \in Texts
  PROVE  /\ Cat(s, t) \in Texts /\ Cat(Cat(s, t), u) = Cat(s, Cat(t, u))
         /\ Cat(s, t) = Cat(s, u) => t = u
         /\ Cat(s, u) = Cat(t, u) => s = t
         /\ s # <<>> => Head(Cat(s, t)) = Head(s)
<1> HIDE DEF Alphabet
<1>1. s \in Seq(Alphabet) /\ t \in Seq(Alphabet) /\ u \in Seq(Alphabet)
  BY DEF Texts
<1> QED BY <1>1, Laws DEF Texts

\* The two bump loops have namespaces of their own.
LEMMA LoopsApart ==
  ASSUME NEW k \in BumpLoops, NEW l \in BumpLoops, NEW s \in Texts, NEW t \in Texts,
         InLoop(k, s) = InLoop(l, t)
  PROVE  k = l /\ s = t
<1> DEFINE froot == <<"froot", "/">>
           slash == <<"/">>
<1>1. froot \in Texts /\ slash \in Texts
      /\ \A loop \in BumpLoops : Words(loop) \in Texts /\ Words(loop) # <<>>
  BY MarksAreTexts
<1>2. \A loop, text : InLoop(loop, text) = Cat(Cat(Cat(froot, Words(loop)), slash), text)
  BY DEF InLoop, Cat
<1> HIDE DEF froot, slash
<1>3. ASSUME NEW loop \in BumpLoops, NEW text \in Texts
      PROVE  /\ InLoop(loop, text) = Cat(froot, Cat(Words(loop), Cat(slash, text)))
             /\ Cat(slash, text) \in Texts /\ Cat(Words(loop), Cat(slash, text)) \in Texts
             /\ Head(Cat(Words(loop), Cat(slash, text))) = Head(Words(loop))
  <2>1. Cat(slash, text) \in Texts /\ Cat(froot, Words(loop)) \in Texts
    BY <1>1, Glue
  <2>2. /\ Cat(Words(loop), Cat(slash, text)) \in Texts
        /\ Head(Cat(Words(loop), Cat(slash, text))) = Head(Words(loop))
    BY <1>1, <2>1, Glue
  <2>3. InLoop(loop, text) = Cat(Cat(froot, Words(loop)), Cat(slash, text))
    BY <1>1, <1>2, <2>1, Glue
  <2> QED BY <1>1, <2>1, <2>2, <2>3, Glue
<1>4. Cat(Words(k), Cat(slash, s)) = Cat(Words(l), Cat(slash, t))
  BY <1>1, <1>3, Glue
<1>5. Head(Words(k)) = Head(Words(l))
  BY <1>3, <1>4
<1>6. k = l
  <2>1. /\ Words("dependency-patch") = <<"dependency", "-", "patch">>
        /\ Words("security-patch") = <<"security", "-", "patch">>
    BY DEF Words
  <2>2. Head(Words("dependency-patch")) = "dependency" /\ Head(Words("security-patch")) = "security"
    BY <2>1
  <2> QED BY <1>5, <2>2 DEF BumpLoops
<1>7. Cat(slash, s) = Cat(slash, t)
  BY <1>1, <1>3, <1>4, <1>6, Glue
<1> QED BY <1>1, <1>6, <1>7, Glue

LEMMA BranchNameIs ==
  ASSUME NEW item \in Items, NEW loop
  PROVE  BranchName(item, loop) =
           InLoop(loop, Cat(Cat(Slug(item.package), <<Hyphen>>), <<item.target>>))
<1> DEFINE p == Slug(item.package)
           t == <<item.target>>
<1>1. item.kind = "bump" /\ item.package \in Packages /\ item.target \in DOMAIN Semver
  BY DEF Items
<1>2. TailParts(item) = <<p, t>> /\ p \in Texts /\ t \in Texts
  BY <1>1, SlugsAreTexts, MarksAreTexts DEF TailParts
<1> HIDE DEF p, t
<1>3. <<p>> \in Seq(Texts) /\ <<p>> # <<>> /\ <<p, t>> = Append(<<p>>, t)
  BY <1>2
<1>4. Join(<<p, t>>) = Cat(Cat(p, <<Hyphen>>), t)
  BY <1>2, <1>3, JoinOne, JoinGrows DEF Cat
<1> QED BY <1>2, <1>4 DEF BranchName, p, t

\* A branch that begins with a package's prefix and goes on with a version is of
\* that loop, of a package with that slug, and for that version.
LEMMA BranchTells ==
  ASSUME NEW item \in Items, NEW k \in BumpLoops, NEW l \in BumpLoops, NEW p \in Packages,
         NEW v \in TargetIn(BranchName(item, k), BranchPackagePrefix(p, l))
  PROVE  k = l /\ Slug(item.package) = Slug(p) /\ item.target = v
<1> DEFINE branch == BranchName(item, k)
           prefix == BranchPackagePrefix(p, l)
           tail   == Cat(Slug(p), <<Hyphen>>)
           own    == Cat(Cat(Slug(item.package), <<Hyphen>>), <<item.target>>)
<1>1. item.package \in Packages /\ item.target \in DOMAIN Semver
  BY DEF Items
<1>2. /\ Slug(p) \in Texts /\ Slug(item.package) \in Texts /\ <<Hyphen>> \in Texts
      /\ <<item.target>> \in Texts
  BY <1>1, SlugsAreTexts, MarksAreTexts
<1>3. tail \in Texts /\ own \in Texts
  BY <1>2, Glue
<1>4. /\ v \in DOMAIN Semver /\ IsPrefix(prefix, branch)
      /\ SubSeq(branch, Len(prefix) + 1, Len(branch)) = <<v>>
  BY DEF TargetIn, StartsWith, ParseVersion, Rest
<1>5. v \in Alphabet /\ <<v>> \in Texts /\ item.target \in Alphabet
  BY <1>1, <1>4, MarksAreTexts
<1>6. branch = InLoop(k, own) /\ prefix = InLoop(l, tail)
  BY BranchNameIs DEF BranchPackagePrefix, Cat
<1> HIDE DEF branch, prefix, tail, own
<1>7. ASSUME NEW loop \in BumpLoops, NEW text \in Texts
      PROVE  /\ InLoop(loop, text) \in Texts
             /\ Cat(InLoop(loop, text), <<v>>) = InLoop(loop, Cat(text, <<v>>))
  <2> DEFINE head == Cat(Cat(<<"froot", "/">>, Words(loop)), <<"/">>)
  <2>1. head \in Texts
    BY MarksAreTexts, Glue
  <2>2. \A t : InLoop(loop, t) = Cat(head, t)
    BY DEF InLoop, Cat
  <2> HIDE DEF head
  <2> QED BY <1>5, <2>1, <2>2, Glue
<1>8. branch \in Texts /\ prefix \in Texts
  BY <1>3, <1>6, <1>7
<1>9. branch = Cat(prefix, <<v>>)
  <2>1. branch \in Seq(Alphabet) /\ prefix \in Seq(Alphabet)
    BY <1>8 DEF Texts
  <2> QED BY <1>4, <2>1, PrefixAndRest DEF Cat
<1>10. Cat(tail, <<v>>) \in Texts
  BY <1>3, <1>5, Glue
<1>11. InLoop(k, own) = InLoop(l, Cat(tail, <<v>>))
  BY <1>3, <1>6, <1>7, <1>9
<1>12. k = l /\ own = Cat(tail, <<v>>)
  BY <1>3, <1>10, <1>11, LoopsApart
<1>13. Cat(Cat(Slug(item.package), <<Hyphen>>), <<item.target>>) =
         Cat(Cat(Slug(p), <<Hyphen>>), <<v>>)
  BY <1>12 DEF own, tail
<1> HIDE DEF Alphabet
<1>14. Slug(item.package) = Slug(p) /\ item.target = v
  BY <1>2, <1>5, <1>13, MarksAreTexts, TailsApart DEF Texts
<1> QED BY <1>12, <1>14

\* Two bumps of one id are of one class, of one slug and to one version, if no
\* two classes' names join alike.
LEMMA IdTells ==
  ASSUME IdsApart, NEW r \in Repos, NEW s \in Repos, NEW k \in Loops, NEW l \in Loops,
         NEW c \in Items, NEW d \in Items,
         BumpWorkflowId(r, c, k) = BumpWorkflowId(s, d, l)
  PROVE  r = s /\ k = l /\ Slug(c.package) = Slug(d.package) /\ c.target = d.target
<1> DEFINE stem(repo, loop, item) ==
             Cat(Cat(Join(BumpHead(repo, loop)), <<Hyphen>>), Slug(item.package))
<1>1. Marks \subseteq Alphabet /\ Hyphen \in Alphabet /\ Loops \subseteq NamedLoops
  BY MarksAreTexts, ProposalsAssumption DEF BumpLoops, NamedLoops
<1>2. ASSUME NEW repo \in Repos PROVE RepoParts(repo) \in Seq(Seq(Alphabet))
  <2>1. Slug(repo.owner) \in Seq(STRING) /\ Slug(repo.name) \in Seq(STRING)
    BY SlugAssumption
  <2>2. Slug(repo.owner) \in Seq(Alphabet) /\ Slug(repo.name) \in Seq(Alphabet)
    <3>1. STRING \subseteq Alphabet
      BY DEF Alphabet
    <3> QED BY <2>1, <3>1, SeqMonotonic
  <2> QED BY <2>2 DEF RepoParts
<1>3. ASSUME NEW item \in Items
      PROVE  /\ item.kind = "bump" /\ item.package \in Packages
             /\ Slug(item.package) \in Seq(Alphabet) /\ item.target \in Alphabet
  BY SlugsAreTexts, MarksAreTexts DEF Items, Texts
<1>4. ASSUME NEW repo \in Repos, NEW loop \in Loops, NEW item \in Items
      PROVE  /\ stem(repo, loop, item) \in Seq(Alphabet)
             /\ IdStem(repo, loop, item.package) = stem(repo, loop, item)
             /\ BumpWorkflowId(repo, item, loop) =
                  Cat(Cat(stem(repo, loop, item), <<Hyphen>>), <<item.target>>)
  <2>1. RepoParts(repo) \in Seq(Seq(Alphabet)) /\ loop \in NamedLoops
    BY <1>1, <1>2
  <2> HIDE DEF Alphabet
  <2>2. /\ item.kind = "bump" /\ Slug(item.package) \in Seq(Alphabet)
        /\ item.target \in Alphabet
    BY <1>3
  <2>3. IdStem(repo, loop, item.package) = Join(BumpHead(repo, loop) \o <<Slug(item.package)>>)
    BY DEF IdStem, BumpHead
  <2> QED BY <1>1, <2>1, <2>2, <2>3, BumpIdIs
<1> HIDE DEF Alphabet
<1>5. stem(r, k, c) = stem(s, l, d) /\ c.target = d.target
  <2> HIDE DEF stem
  <2>1. Cat(Cat(stem(r, k, c), <<Hyphen>>), <<c.target>>) =
        Cat(Cat(stem(s, l, d), <<Hyphen>>), <<d.target>>)
    BY <1>4
  <2>2. /\ stem(r, k, c) \in Seq(Alphabet) /\ stem(s, l, d) \in Seq(Alphabet)
        /\ c.target \in Alphabet /\ d.target \in Alphabet
    BY <1>3, <1>4
  <2> QED BY <1>1, <2>1, <2>2, TailsApart
<1>6. r = s /\ k = l
  <2>1. IdStem(r, k, c.package) = IdStem(s, l, d.package)
    <3> HIDE DEF stem
    <3> QED BY <1>4, <1>5
  <2> QED BY <1>3, <2>1 DEF IdsApart
<1>7. Slug(c.package) = Slug(d.package)
  <2> DEFINE head == Cat(Join(BumpHead(r, k)), <<Hyphen>>)
  <2>1. Cat(head, Slug(c.package)) = Cat(head, Slug(d.package))
    BY <1>5, <1>6
  <2>2. head \in Seq(Alphabet)
    <3>1. Join(BumpHead(r, k)) \in Seq(Alphabet)
      BY <1>1, <1>2, BumpHeadIs
    <3>2. <<Hyphen>> \in Seq(Alphabet)
      BY <1>1
    <3> QED BY <3>1, <3>2, Laws
  <2> HIDE DEF head
  <2> QED BY <1>3, <2>1, <2>2, Laws
<1> QED BY <1>5, <1>6, <1>7

-----------------------------------------------------------------------------
(* Versions and targets.                                                   *)

LEMMA BelowIs ==
  ASSUME NEW v \in DOMAIN Semver, NEW w \in DOMAIN Semver
  PROVE  LET a == Semver[v]
             b == Semver[w]
         IN Below(v, w) <=>
              \/ a[1] < b[1]
              \/ a[1] = b[1] /\ a[2] < b[2]
              \/ a[1] = b[1] /\ a[2] = b[2] /\ a[3] < b[3]
              \/ a[1] = b[1] /\ a[2] = b[2] /\ a[3] = b[3] /\ a[4] < b[4]
<1> DEFINE a == Semver[v]
           b == Semver[w]
           Upto(i) == a[i] < b[i] /\ \A j \in 1..(i - 1) : a[j] = b[j]
<1>1. Below(v, w) <=> Upto(1) \/ Upto(2) \/ Upto(3) \/ Upto(4)
  <2>1. Below(v, w) <=> \E i \in 1..4 : Upto(i)
    BY DEF Below
  <2>2. 1..4 = {1, 2, 3, 4}
    OBVIOUS
  <2> HIDE DEF Upto
  <2> QED BY <2>1, <2>2
<1>2. /\ 1..(1 - 1) = {} /\ 1..(2 - 1) = {1} /\ 1..(3 - 1) = {1, 2} /\ 1..(4 - 1) = {1, 2, 3}
  OBVIOUS
<1>3. /\ Upto(1) <=> a[1] < b[1]
      /\ Upto(2) <=> a[2] < b[2] /\ a[1] = b[1]
      /\ Upto(3) <=> a[3] < b[3] /\ a[1] = b[1] /\ a[2] = b[2]
      /\ Upto(4) <=> a[4] < b[4] /\ a[1] = b[1] /\ a[2] = b[2] /\ a[3] = b[3]
  BY <1>2
<1> HIDE DEF Upto
<1> QED BY <1>1, <1>3

LEMMA NotBelow ==
  ASSUME NEW u \in DOMAIN Semver, NEW v \in DOMAIN Semver, NEW w \in DOMAIN Semver,
         ~Below(u, v), ~Below(v, w)
  PROVE  ~Below(u, w)
<1> DEFINE a == Semver[u]
           b == Semver[v]
           c == Semver[w]
<1>1. /\ a[1] \in Nat /\ a[2] \in Nat /\ a[3] \in Nat /\ a[4] \in Nat
      /\ b[1] \in Nat /\ b[2] \in Nat /\ b[3] \in Nat /\ b[4] \in Nat
      /\ c[1] \in Nat /\ c[2] \in Nat /\ c[3] \in Nat /\ c[4] \in Nat
  BY SemverAssumption
<1> HIDE DEF a, b, c
<1> QED BY <1>1, BelowIs DEF a, b, c

\* The item's target is the lowest version at which what it names is cleared.
Lowest(item) ==
  \A v \in DOMAIN Semver :
    (\A id \in item.clears : LeftSpans(id, item, v)) <=> ~Below(v, item.target)
Advisories == UNION {{AdvisoryFromRecord(id, p, Ranges) : p \in DOMAIN Vulns[id]} : id \in Ids}

\* What is read of a record, and the fix it has for a version.
LEMMA FixOf ==
  ASSUME NEW a \in Advisories, NEW current \in DOMAIN Semver
  PROVE  /\ a.id \in Ids /\ a.package \in DOMAIN Vulns[a.id] /\ a.package \in Packages
         /\ a.ranges = Ranges[a.id][a.package]
         /\ \A f \in ClearingVersion(current, a) :
              /\ f \in DOMAIN Semver
              /\ \E span \in Spans(a.id, a.package) : Clears(current, span) /\ f = span.fixed
         /\ OneFix => \A f \in ClearingVersion(current, a), span \in Spans(a.id, a.package) :
                        Clears(current, span) => span.fixed = f
<1>0. PICK id \in Ids : \E p \in DOMAIN Vulns[id] : a = AdvisoryFromRecord(id, p, Ranges)
  BY DEF Advisories
<1>1. PICK p \in DOMAIN Vulns[id] : a = AdvisoryFromRecord(id, p, Ranges)
  BY <1>0
<1>2. /\ a.id = id /\ a.package = p /\ a.ranges = Ranges[id][p] /\ p \in Packages
  BY <1>1, ProposalsAssumption DEF AdvisoryFromRecord
<1>3. ASSUME NEW f \in ClearingVersion(current, a)
      PROVE  /\ f \in DOMAIN Semver
             /\ \E span \in Spans(id, p) : Clears(current, span) /\ f = span.fixed
  <2>1. PICK i \in DOMAIN a.ranges : Clears(current, a.ranges[i]) /\ f = a.ranges[i].fixed
    BY DEF ClearingVersion
  <2>2. a.ranges[i] \in Spans(id, p)
    BY <1>2 DEF Spans
  <2> QED BY <2>1, <2>2 DEF Clears, Parses
<1>4. ASSUME OneFix, NEW f \in ClearingVersion(current, a), NEW span \in Spans(id, p),
             Clears(current, span)
      PROVE  span.fixed = f
  BY <1>3, <1>4 DEF OneFix
<1> QED BY <1>2, <1>3, <1>4

LEMMA SecurityIsLowest ==
  ASSUME NEW p \in Packages, NEW current \in DOMAIN Semver, NEW advisories \in SUBSET Advisories,
         NEW c \in SecurityCandidate(p, current, advisories)
  PROVE  c \in Items /\ (OneFix => Lowest(c))
<1> DEFINE cleared == {a \in advisories : a.package = p /\ ClearingVersion(current, a) # {}}
           fixes   == UNION {ClearingVersion(current, a) : a \in cleared}
<1>1. PICK target \in SecurityTarget(fixes) :
        c = Candidate(p, current, target, {a.id : a \in cleared})
  BY DEF SecurityCandidate
<1>2. /\ c.package = p /\ c.current = current /\ c.target = target
      /\ c.clears = {a.id : a \in cleared} /\ c.kind = "bump"
      /\ c = [kind |-> "bump", package |-> p, current |-> current, target |-> target,
              clears |-> {a.id : a \in cleared}]
  BY <1>1 DEF Candidate
<1>3. target \in fixes /\ \A f \in fixes : ~Below(target, f)
  BY <1>1 DEF SecurityTarget, Highest
<1>4. fixes \subseteq DOMAIN Semver /\ {a.id : a \in cleared} \subseteq Ids
  BY FixOf
<1>5. c \in Items
  BY <1>2, <1>3, <1>4 DEF Items
<1>6. ASSUME OneFix, NEW v \in DOMAIN Semver, \A id \in c.clears : LeftSpans(id, c, v)
      PROVE  ~Below(v, target)
  <2>1. PICK a \in cleared : target \in ClearingVersion(current, a)
    BY <1>3
  <2>2. PICK span \in Spans(a.id, a.package) : Clears(current, span) /\ target = span.fixed
    BY <2>1, FixOf
  <2>3. LeftSpans(a.id, c, v) /\ a.package = p
    BY <1>2, <1>6, <2>1
  <2> QED BY <1>2, <2>2, <2>3 DEF LeftSpans
<1>7. ASSUME OneFix, NEW v \in DOMAIN Semver, ~Below(v, target), NEW id \in c.clears
      PROVE  LeftSpans(id, c, v)
  <2>1. PICK a \in cleared : a.id = id
    BY <1>2
  <2>2. PICK f : f \in ClearingVersion(current, a)
    BY <2>1
  <2>3. f \in fixes /\ a.package = p
    BY <2>1, <2>2
  <2>4. ASSUME NEW span \in Spans(id, p), Clears(current, span) PROVE ~Below(v, span.fixed)
    <3>1. span.fixed = f
      BY <1>7, <2>1, <2>2, <2>3, <2>4, FixOf
    <3> QED BY <1>3, <1>4, <1>7, <2>3, <3>1, NotBelow
  <2> QED BY <1>2, <2>4 DEF LeftSpans
<1> QED BY <1>2, <1>5, <1>6, <1>7 DEF Lowest

-----------------------------------------------------------------------------
(* What a tick, a bump and a pull request are.                             *)

GithubPulls ==
  {pull \in [repo : Repos, loop : Loops,
             branch : UNION {{BranchName(item, l) : item \in Items} : l \in Loops},
             item : Items, state : {"open", "merged", "closed"}] :
     pull.branch = BranchName(pull.item, pull.loop)}
Bumps ==
  {b \in [id : UNION {UNION {{BumpWorkflowId(r, item, l) : item \in Items} : l \in Loops}
                       : r \in Repos},
          repo : Repos, loop : Loops, item : Items, opened : BOOLEAN] :
     b.id = BumpWorkflowId(b.repo, b.item, b.loop)}
Locks == [Packages -> DOMAIN Semver]
Ticks ==
  [at : TickPlaces, repo : Repos, loop : Loops, purpose : Purposes, open : SUBSET GithubPulls,
   lock : Locks, todo : SUBSET (Packages \X Ids), read : SUBSET Advisories, items : SUBSET Items]

Proposable(item, loop) ==
  IsCandidate(item) /\ (loop = "security-patch" /\ OneFix => Lowest(item))

ProposalsInductive ==
  /\ installed \in [Repos -> Locks] /\ disclosed \subseteq Ids /\ faults \in 0..MaxFaults
  /\ tick \in Ticks /\ At("fetch") = (tick.todo # {})
  /\ tick.at \in {"idle", "list", "checkout"} => tick.read = {}
  /\ \A pull \in tick.open : pull.repo = tick.repo
  /\ \A q \in tick.todo : q[1] \in DOMAIN Vulns[q[2]]
  /\ \A item \in tick.items : Proposable(item, tick.loop)
  /\ tick.at # "dispatch" => tick.items = {}
  /\ bumps \subseteq Bumps /\ \A b \in bumps : Proposable(b.item, b.loop)
  /\ pulls \subseteq GithubPulls

LEMMA ConstantsAre ==
  /\ Repos # {} /\ Loops # {} /\ Loops \subseteq BumpLoops /\ MaxFaults \in Nat
  /\ Locked \in Locks /\ Available \in [Packages -> SUBSET DOMAIN Semver] /\ Known \subseteq Ids
  BY ProposalsAssumption DEF Locks

LEMMA IdleTickIs ==
  /\ IdleTick \in Ticks
  /\ IdleTick.at = "idle" /\ IdleTick.todo = {} /\ IdleTick.read = {} /\ IdleTick.open = {}
  /\ IdleTick.items = {} /\ IdleTick.purpose = "dispatch" /\ IdleTick.lock = Locked
<1>1. (CHOOSE r \in Repos : TRUE) \in Repos /\ (CHOOSE l \in Loops : TRUE) \in Loops
  BY ConstantsAre
<1> QED BY <1>1, ConstantsAre DEF IdleTick, Ticks, TickPlaces, Purposes

LEMMA TickIs ==
  ASSUME tick \in Ticks
  PROVE  /\ tick.at \in TickPlaces /\ tick.repo \in Repos /\ tick.loop \in Loops
         /\ tick.purpose \in Purposes /\ tick.open \subseteq GithubPulls /\ tick.lock \in Locks
         /\ tick.todo \subseteq Packages \X Ids /\ tick.read \subseteq Advisories
         /\ tick.items \subseteq Items
  BY DEF Ticks

LEMMA SelectedAre ==
  ASSUME ProposalsInductive, NEW c \in Selected
  PROVE  c \in Items /\ (tick.loop = "security-patch" /\ OneFix => Lowest(c))
<1>1. tick.lock \in Locks /\ tick.read \subseteq Advisories
  BY TickIs DEF ProposalsInductive
<1>2. CASE tick.loop = "security-patch"
  <2>1. PICK p \in Packages : c \in SecurityCandidate(p, tick.lock[p], tick.read)
    BY <1>1, <1>2 DEF Selected, SelectSecurityCandidates, Locks
  <2> QED BY <1>1, <2>1, SecurityIsLowest DEF Locks
<1>3. CASE tick.loop # "security-patch"
  <2>1. PICK p \in Packages :
          \E v \in Highest({w \in Available[p] : IsPatchBumpOf(w, tick.lock[p])}) :
            c = Candidate(p, tick.lock[p], v, {})
    BY <1>1, <1>3 DEF Selected, SelectPatchCandidates, Locks
  <2>2. PICK v \in Available[p] : c = Candidate(p, tick.lock[p], v, {})
    BY <2>1 DEF Highest
  <2>3. v \in DOMAIN Semver /\ tick.lock[p] \in DOMAIN Semver
    BY <1>1, ConstantsAre DEF Locks
  <2> QED BY <1>3, <2>2, <2>3 DEF Candidate, Items
<1> QED BY <1>2, <1>3

LEMMA InitProposals ==
  ASSUME Init
  PROVE  ProposalsInductive
<1>1. /\ installed \in [Repos -> Locks] /\ disclosed \subseteq Ids /\ faults \in 0..MaxFaults
  BY ConstantsAre DEF Init
<1> QED BY <1>1, IdleTickIs DEF Init, ProposalsInductive, At

\* A step of the tick that neither starts a bump nor closes a pull request.
LEMMA TickGoes ==
  ASSUME ProposalsInductive, tick' \in Ticks, UNCHANGED <<installed, disclosed, bumps, pulls>>,
         faults' \in 0..MaxFaults,
         At("fetch")' = (tick'.todo # {}),
         tick'.at \in {"idle", "list", "checkout"} => tick'.read = {},
         \A pull \in tick'.open : pull.repo = tick'.repo,
         \A q \in tick'.todo : q[1] \in DOMAIN Vulns[q[2]],
         \A item \in tick'.items : Proposable(item, tick'.loop),
         tick'.at # "dispatch" => tick'.items = {}
  PROVE  ProposalsInductive'
  BY DEF ProposalsInductive

LEMMA FaultsAre ==
  ASSUME ProposalsInductive, UNCHANGED faults \/ (faults < MaxFaults /\ faults' = faults + 1)
  PROVE  faults' \in 0..MaxFaults
<1>1. faults \in 0..MaxFaults /\ MaxFaults \in Nat
  BY ConstantsAre DEF ProposalsInductive
<1> QED BY <1>1

LEMMA AffectingAre ==
  ASSUME ProposalsInductive, NEW lock
  PROVE  /\ Affecting(lock) \subseteq Packages \X Ids
         /\ \A q \in Affecting(lock) : q[1] \in DOMAIN Vulns[q[2]]
  BY DEF Affecting, ProposalsInductive

LEMMA StartKeeps ==
  ASSUME ProposalsInductive, NEW repo \in Repos, NEW loop \in Loops, StartTick(repo, loop)
  PROVE  ProposalsInductive'
<1>1. /\ tick' = [IdleTick EXCEPT !.at = "checkout", !.repo = repo, !.loop = loop]
      /\ UNCHANGED <<installed, disclosed, bumps, pulls, faults>>
  BY DEF StartTick, Go
<1>2. /\ tick' \in Ticks /\ tick'.at = "checkout" /\ tick'.todo = {} /\ tick'.read = {}
      /\ tick'.open = {} /\ tick'.items = {}
  BY <1>1, IdleTickIs DEF Ticks, TickPlaces
<1>3. faults' \in 0..MaxFaults
  BY <1>1, FaultsAre
<1> QED BY <1>1, <1>2, <1>3, TickGoes DEF At

LEMMA ListKeeps ==
  ASSUME ProposalsInductive, ListOpen
  PROVE  ProposalsInductive'
<1>1. /\ tick' = [tick EXCEPT !.at = "checkout", !.open = OpenOf(tick.repo)]
      /\ UNCHANGED <<installed, disclosed, bumps, pulls, faults>> /\ tick.at = "list"
  BY DEF ListOpen, Go, At
<1>2. OpenOf(tick.repo) \subseteq GithubPulls /\ tick \in Ticks
  BY DEF OpenOf, ProposalsInductive
<1>3. /\ tick' \in Ticks /\ tick'.at = "checkout" /\ tick'.todo = tick.todo
      /\ tick'.read = tick.read /\ tick'.open = OpenOf(tick.repo) /\ tick'.items = tick.items
      /\ tick'.repo = tick.repo /\ tick'.loop = tick.loop
  BY <1>1, <1>2 DEF Ticks, TickPlaces
<1>4. tick.read = {} /\ tick.todo = {}
  BY <1>1 DEF ProposalsInductive, At
<1>5. faults' \in 0..MaxFaults
  BY <1>1, FaultsAre
<1>6. \A item \in tick.items : Proposable(item, tick.loop)
  BY DEF ProposalsInductive
<1>7. tick.items = {}
  BY <1>1 DEF ProposalsInductive, At
<1> QED BY <1>1, <1>3, <1>4, <1>5, <1>6, <1>7, TickGoes DEF At, OpenOf

LEMMA CheckoutKeeps ==
  ASSUME ProposalsInductive, Checkout \/ QueryBatchFails
  PROVE  ProposalsInductive'
<1> DEFINE lock == installed[tick.repo]
           todo == IF tick.loop = "security-patch" THEN Affecting(lock) ELSE {}
<1>1. /\ tick \in Ticks /\ tick.at = "checkout"
      /\ UNCHANGED <<installed, disclosed, bumps, pulls>>
      /\ UNCHANGED faults \/ (faults < MaxFaults /\ faults' = faults + 1)
  BY DEF Checkout, QueryBatchFails, Go, At, ProposalsInductive
<1>2. tick.read = {} /\ tick.todo = {}
  BY <1>1 DEF ProposalsInductive, At
<1>3. lock \in Locks
  BY <1>1, TickIs DEF ProposalsInductive
<1>4. todo \subseteq Packages \X Ids /\ \A q \in todo : q[1] \in DOMAIN Vulns[q[2]]
  BY AffectingAre
<1>5. \/ tick' = [tick EXCEPT !.lock = lock, !.at = IF todo # {} THEN "fetch" ELSE "select",
                    !.todo = todo]
      \/ tick' = [tick EXCEPT !.at = "select", !.lock = lock]
  BY DEF Checkout, QueryBatchFails, Go
<1>6. /\ tick' \in Ticks /\ tick'.open = tick.open /\ tick'.items = tick.items
      /\ tick'.repo = tick.repo /\ tick'.loop = tick.loop
      /\ \/ tick'.at = "fetch" /\ tick'.todo = todo /\ todo # {}
         \/ tick'.at = "select" /\ tick'.todo = {}
  <2> HIDE DEF lock, todo
  <2>1. CASE tick' = [tick EXCEPT !.at = "select", !.lock = lock]
    BY <1>1, <1>2, <1>3, <2>1 DEF Ticks, TickPlaces
  <2>2. CASE /\ tick' = [tick EXCEPT !.lock = lock, !.at = "fetch", !.todo = todo]
             /\ todo # {}
    BY <1>1, <1>3, <1>4, <2>2 DEF Ticks, TickPlaces
  <2>3. CASE /\ tick' = [tick EXCEPT !.lock = lock, !.at = "select", !.todo = todo]
             /\ todo = {}
    BY <1>1, <1>3, <1>4, <2>3 DEF Ticks, TickPlaces
  <2> QED BY <1>5, <2>1, <2>2, <2>3
<1> HIDE DEF lock, todo
<1>7. faults' \in 0..MaxFaults
  BY <1>1, FaultsAre
<1>8. /\ \A item \in tick.items : Proposable(item, tick.loop)
      /\ \A pull \in tick.open : pull.repo = tick.repo
  BY DEF ProposalsInductive
<1>9. At("fetch")' = (tick'.todo # {})
  BY <1>6 DEF At
<1>10. \A q \in tick'.todo : q[1] \in DOMAIN Vulns[q[2]]
  BY <1>4, <1>6
<1>11. tick'.items = {}
  BY <1>1, <1>6 DEF ProposalsInductive
<1> QED BY <1>1, <1>6, <1>7, <1>8, <1>9, <1>10, <1>11, TickGoes

LEMMA FetchKeeps ==
  ASSUME ProposalsInductive, FetchVuln \/ FetchVulnFails
  PROVE  ProposalsInductive'
<1>1. /\ tick \in Ticks /\ tick.at = "fetch" /\ UNCHANGED <<installed, disclosed, bumps, pulls>>
      /\ UNCHANGED faults \/ (faults < MaxFaults /\ faults' = faults + 1)
  BY DEF FetchVuln, FetchVulnFails, Fetched, Go, At, ProposalsInductive
<1>2. PICK q \in tick.todo, advisories \in SUBSET Advisories :
        tick' = [tick EXCEPT !.at = IF tick.todo = {q} THEN "select" ELSE "fetch",
                   !.todo = @ \ {q}, !.read = @ \cup advisories]
  <2>1. CASE FetchVuln
    <3>1. PICK q \in tick.todo : Fetched(q, {AdvisoryFromRecord(q[2], q[1], Ranges)})
      BY <2>1 DEF FetchVuln
    <3>2. q[2] \in Ids /\ q[1] \in DOMAIN Vulns[q[2]]
      BY <1>1, TickIs DEF ProposalsInductive
    <3>3. {AdvisoryFromRecord(q[2], q[1], Ranges)} \in SUBSET Advisories
      BY <3>2 DEF Advisories
    <3> QED BY <3>1, <3>3 DEF Fetched, Go
  <2>2. CASE FetchVulnFails
    <3>1. PICK q \in tick.todo : Fetched(q, {})
      BY <2>2 DEF FetchVulnFails
    <3> QED BY <3>1 DEF Fetched, Go
  <2> QED BY <2>1, <2>2
<1>3. /\ tick' \in Ticks /\ tick'.open = tick.open /\ tick'.items = tick.items
      /\ tick'.repo = tick.repo /\ tick'.loop = tick.loop
      /\ tick'.todo = tick.todo \ {q}
      /\ tick'.at = IF tick.todo = {q} THEN "select" ELSE "fetch"
  BY <1>1, <1>2 DEF Ticks, TickPlaces
<1>4. faults' \in 0..MaxFaults
  BY <1>1, FaultsAre
<1>5. /\ \A item \in tick.items : Proposable(item, tick.loop)
      /\ \A pull \in tick.open : pull.repo = tick.repo
      /\ \A r \in tick.todo : r[1] \in DOMAIN Vulns[r[2]]
  BY DEF ProposalsInductive
<1>6. At("fetch")' = (tick'.todo # {}) /\ tick'.at \in {"fetch", "select"}
  BY <1>3 DEF At
<1>7. tick'.items = {}
  BY <1>1, <1>3 DEF ProposalsInductive
<1> QED BY <1>1, <1>3, <1>4, <1>5, <1>6, <1>7, TickGoes

LEMMA BackToIdle ==
  ASSUME ProposalsInductive, SelectFails
  PROVE  ProposalsInductive'
<1>1. tick' = IdleTick /\ UNCHANGED <<installed, disclosed, bumps, pulls, faults>>
  BY DEF SelectFails, Go
<1>2. faults' \in 0..MaxFaults
  BY <1>1, FaultsAre
<1> QED BY <1>1, <1>2, IdleTickIs, TickGoes DEF At

LEMMA SelectKeeps ==
  ASSUME ProposalsInductive, SelectToDispatch
  PROVE  ProposalsInductive'
<1>1. /\ tick' = [tick EXCEPT !.at = "dispatch", !.items = Selected]
      /\ UNCHANGED <<installed, disclosed, bumps, pulls, faults>>
      /\ tick.at = "select" /\ ~Raises
  BY DEF SelectToDispatch, Go, At
<1>2. /\ Selected \subseteq Items /\ \A c \in Selected : Proposable(c, tick.loop)
  BY <1>1, SelectedAre DEF Raises, Proposable
<1>3. tick \in Ticks /\ tick.todo = {} /\ \A pull \in tick.open : pull.repo = tick.repo
  BY <1>1 DEF ProposalsInductive, At
<1>4. /\ tick' \in Ticks /\ tick'.at = "dispatch" /\ tick'.items = Selected
      /\ tick'.open = tick.open /\ tick'.repo = tick.repo /\ tick'.loop = tick.loop
      /\ tick'.todo = {}
  BY <1>1, <1>2, <1>3 DEF Ticks, TickPlaces
<1>5. faults' \in 0..MaxFaults
  BY <1>1, FaultsAre
<1> QED BY <1>1, <1>2, <1>3, <1>4, <1>5, TickGoes DEF At

LEMMA DispatchKeeps ==
  ASSUME ProposalsInductive, DispatchBump
  PROVE  ProposalsInductive'
<1>1. /\ tick.at = "dispatch" /\ UNCHANGED <<installed, disclosed, pulls, faults>> /\ tick \in Ticks
  BY DEF DispatchBump, Go, At, ProposalsInductive
<1>2. PICK item \in tick.items :
        /\ tick' = [tick EXCEPT !.items = @ \ {item}]
        /\ bumps' = bumps \/ bumps' = bumps \cup {BumpOf(item)}
  BY DEF DispatchBump, Go
<1>3. /\ tick' \in Ticks /\ tick'.items = tick.items \ {item} /\ tick'.at = "dispatch"
      /\ tick'.open = tick.open /\ tick'.repo = tick.repo /\ tick'.loop = tick.loop
      /\ tick'.todo = tick.todo
  BY <1>1, <1>2 DEF Ticks
<1>4. /\ item \in Items /\ Proposable(item, tick.loop) /\ tick.repo \in Repos /\ tick.loop \in Loops
      /\ \A other \in tick.items : Proposable(other, tick.loop)
  BY <1>1, TickIs DEF ProposalsInductive
<1>5. /\ BumpOf(item) \in Bumps /\ BumpOf(item).item = item /\ BumpOf(item).loop = tick.loop
  BY <1>4 DEF BumpOf, Bumps
<1>6. bumps' \subseteq Bumps /\ \A b \in bumps' : Proposable(b.item, b.loop)
  BY <1>2, <1>4, <1>5 DEF ProposalsInductive
<1>7. At("fetch")' = (tick'.todo # {})
  BY <1>1, <1>3 DEF ProposalsInductive, At
<1>8. /\ installed' \in [Repos -> Locks] /\ disclosed' \subseteq Ids /\ faults' \in 0..MaxFaults
      /\ pulls' \subseteq GithubPulls
      /\ \A pull \in tick'.open : pull.repo = tick'.repo
      /\ \A q \in tick'.todo : q[1] \in DOMAIN Vulns[q[2]]
      /\ \A other \in tick'.items : Proposable(other, tick'.loop)
  BY <1>1, <1>3, <1>4 DEF ProposalsInductive
<1> QED BY <1>3, <1>6, <1>7, <1>8 DEF ProposalsInductive

LEMMA TurnKeeps ==
  ASSUME ProposalsInductive, TurnToReconcile
  PROVE  ProposalsInductive'
<1>1. /\ tick' = [IdleTick EXCEPT !.at = "list", !.repo = tick.repo, !.loop = tick.loop,
                    !.purpose = "reconcile"]
      /\ UNCHANGED <<installed, disclosed, bumps, pulls, faults>>
  BY DEF TurnToReconcile, Go
<1>2. tick.repo \in Repos /\ tick.loop \in Loops
  BY TickIs DEF ProposalsInductive
<1>3. /\ tick' \in Ticks /\ tick'.at = "list" /\ tick'.todo = {} /\ tick'.read = {}
      /\ tick'.open = {} /\ tick'.items = {}
  BY <1>1, <1>2, IdleTickIs DEF Ticks, TickPlaces, Purposes
<1>4. faults' \in 0..MaxFaults
  BY <1>1, FaultsAre
<1> QED BY <1>1, <1>3, <1>4, TickGoes DEF At

LEMMA ReconcileKeeps ==
  ASSUME ProposalsInductive, Reconcile
  PROVE  ProposalsInductive'
<1>1. /\ tick' = IdleTick /\ UNCHANGED <<installed, disclosed, bumps, faults>>
      /\ pulls' = Closes(Reconciliations(tick.open, Selected, tick.loop))
  BY DEF Reconcile, Go
<1>2. pulls' \subseteq GithubPulls
  <2>1. ASSUME NEW pull \in pulls PROVE [pull EXCEPT !.state = "closed"] \in GithubPulls
    BY DEF ProposalsInductive, GithubPulls
  <2> QED BY <1>1, <2>1 DEF Closes, ProposalsInductive
<1>3. IdleTick \in Ticks /\ (At("fetch")' = (tick'.todo # {}))
  BY <1>1, IdleTickIs DEF At
<1> QED BY <1>1, <1>2, <1>3, IdleTickIs DEF ProposalsInductive

LEMMA OutsideKeeps ==
  ASSUME ProposalsInductive, Outside
  PROVE  ProposalsInductive'
<1>1. CASE BumpOpens
  <2>1. PICK b \in bumps :
          /\ bumps' = (bumps \ {b}) \cup {[b EXCEPT !.opened = TRUE]}
          /\ pulls' = pulls \cup {PullOf(b)}
    BY <1>1 DEF BumpOpens
  <2>2. b \in Bumps /\ b.item \in Items /\ b.loop \in Loops /\ b.repo \in Repos
    BY DEF ProposalsInductive, Bumps
  <2>3. [b EXCEPT !.opened = TRUE] \in Bumps /\ [b EXCEPT !.opened = TRUE].item = b.item
        /\ [b EXCEPT !.opened = TRUE].loop = b.loop
    BY <2>2 DEF Bumps
  <2>4. PullOf(b) \in GithubPulls
    BY <2>2 DEF PullOf, GithubPulls
  <2>5. UNCHANGED <<installed, disclosed, tick, faults>>
    BY <1>1 DEF BumpOpens
  <2> QED BY <2>1, <2>3, <2>4, <2>5 DEF ProposalsInductive, At
<1>2. CASE MergePull
  <2>1. PICK pull \in pulls :
          /\ pulls' = (pulls \ {pull}) \cup {[pull EXCEPT !.state = "merged"]}
          /\ installed' = [installed EXCEPT ![pull.repo][pull.item.package] = pull.item.target]
    BY <1>2 DEF MergePull
  <2>2. pull \in GithubPulls /\ pull.repo \in Repos /\ pull.item \in Items
    BY DEF ProposalsInductive, GithubPulls
  <2>3. [pull EXCEPT !.state = "merged"] \in GithubPulls
    BY <2>2 DEF GithubPulls
  <2>4. installed' \in [Repos -> Locks]
    <3>1. pull.item.package \in Packages /\ pull.item.target \in DOMAIN Semver
      BY <2>2 DEF Items
    <3> QED BY <2>1, <2>2, <3>1 DEF ProposalsInductive, Locks
  <2>5. UNCHANGED <<disclosed, tick, bumps, faults>>
    BY <1>2 DEF MergePull
  <2> QED BY <2>1, <2>3, <2>4, <2>5 DEF ProposalsInductive, At
<1>3. CASE Disclose
  BY <1>3 DEF Disclose, ProposalsInductive, At
<1> QED BY <1>1, <1>2, <1>3 DEF Outside

LEMMA NextProposals ==
  ASSUME ProposalsInductive, [Next]_vars
  PROVE  ProposalsInductive'
<1>1. CASE UNCHANGED vars
  BY <1>1 DEF vars, ProposalsInductive, At
<1> QED BY <1>1, StartKeeps, ListKeeps, CheckoutKeeps, FetchKeeps, BackToIdle, SelectKeeps,
           DispatchKeeps, TurnKeeps, ReconcileKeeps, OutsideKeeps DEF Next, Tick, OsvFails

-----------------------------------------------------------------------------
(* The theorems.                                                           *)

\* Whatever OSV leaves unanswered and whoever merges what meanwhile, ticks hold
\* stable upgrades, the lowest that clear where records have one fix, and every
\* pull request carries the name of its own bump (workflow/activities.py,
\* policy/candidates.py).
THEOREM ProposalsInductiveHolds == Spec => []ProposalsInductive
<1>1. Init => ProposalsInductive
  BY InitProposals
<1>2. ProposalsInductive /\ [Next]_vars => ProposalsInductive'
  BY NextProposals
<1> QED BY <1>1, <1>2, PTL DEF Spec

\* Types: whatever became a work item is a stable upgrade, and a tick has read
\* nothing before its checkout (domain/candidate.py).
THEOREM ProposalTypes == Spec => []TypeOK
<1>1. ASSUME ProposalsInductive PROVE TypeOK
  <2>1. \A b \in bumps : b.item \in Items /\ IsCandidate(b.item)
    BY <1>1 DEF ProposalsInductive, Bumps, Proposable
  <2>2. tick \in Ticks
    BY <1>1 DEF ProposalsInductive
  <2> QED BY <1>1, <2>1, <2>2, TickIs DEF ProposalsInductive, TypeOK, Locks
<1> QED BY <1>1, ProposalsInductiveHolds, PTL

\* A step of reconcile that closes only what a newer target overtook.
ClosesOvertaken ==
  \A pull \in pulls \ pulls' : tick'.at = "idle" /\ At("select") =>
    /\ pull.loop = tick.loop /\ pull.repo = tick.repo
    /\ \E c \in Selected : /\ Slugs[c.package] = Slugs[pull.item.package]
                           /\ Below(pull.item.target, c.target)

\* Whatever packages are called, reconcile closes a pull request only for a newer
\* target of the same package by slug, of its own loop and repository
\* (policy/reconcile.py, _match_pr and reconciliations).
THEOREM NewestIsKept == Spec => ReconcileKeepsNewest
<1>1. ASSUME ProposalsInductive, [Next]_vars,
             NEW pull \in pulls \ pulls', tick'.at = "idle", At("select")
      PROVE  /\ pull.loop = tick.loop /\ pull.repo = tick.repo
             /\ \E c \in Selected : /\ Slugs[c.package] = Slugs[pull.item.package]
                                    /\ Below(pull.item.target, c.target)
  <2>1. Reconcile
    <3>1. pulls' # pulls /\ tick' # tick
      BY <1>1 DEF At
    <3> QED BY <1>1, <3>1 DEF Next, Tick, OsvFails, Outside, StartTick, ListOpen, Checkout,
          FetchVuln, FetchVulnFails, QueryBatchFails, SelectFails, SelectToDispatch, DispatchBump,
          TurnToReconcile, BumpOpens, MergePull, Disclose, vars
  <2>2. pull \in Reconciliations(tick.open, Selected, tick.loop)
    BY <1>1, <2>1 DEF Reconcile, Closes
  <2>3. pull \in tick.open /\ \E m \in MatchPr(pull, Selected, tick.loop) : Below(m[2], m[1].target)
    BY <2>2 DEF Reconciliations
  <2>4. PICK c \in Selected, v \in DOMAIN Semver :
          /\ v \in TargetIn(pull.branch, PackagePrefixes[tick.loop][c.package])
          /\ Below(v, c.target)
    BY <2>3 DEF MatchPr
  <2>5. /\ tick.loop \in Loops /\ tick.loop \in BumpLoops /\ pull \in GithubPulls
        /\ pull.repo = tick.repo
    BY <1>1, <2>3, TickIs, ConstantsAre DEF ProposalsInductive
  <2>6. /\ pull.branch = BranchName(pull.item, pull.loop) /\ pull.item \in Items
        /\ pull.loop \in BumpLoops /\ pull.item.package \in Packages
    BY <2>5, ConstantsAre DEF GithubPulls, Items
  <2>7. c.package \in Packages
    BY <1>1, SelectedAre DEF Items
  <2>8. v \in TargetIn(BranchName(pull.item, pull.loop), BranchPackagePrefix(c.package, tick.loop))
    BY <2>4, <2>5, <2>6, <2>7 DEF PackagePrefixes
  <2>9. /\ pull.loop = tick.loop /\ Slug(pull.item.package) = Slug(c.package)
        /\ pull.item.target = v
    BY <2>5, <2>6, <2>7, <2>8, BranchTells
  <2>10. Slugs[c.package] = Slugs[pull.item.package]
    BY <2>6, <2>7, <2>9 DEF Slugs
  <2> QED BY <2>4, <2>5, <2>9, <2>10
<1>2. ProposalsInductive /\ [Next]_vars => [ClosesOvertaken]_vars
  BY <1>1 DEF ClosesOvertaken
<1>3. ReconcileKeepsNewest <=> [][ClosesOvertaken]_vars
  BY DEF ReconcileKeepsNewest, ClosesOvertaken
<1> QED BY <1>2, <1>3, ProposalsInductiveHolds, PTL DEF Spec

\* Where the spans of a record that hold the same version have one fix, a security
\* bump goes to the lowest version that clears what it names
\* (policy/candidates.py, _clearing_version and select_security_candidates).
THEOREM TargetIsLowest ==
  ASSUME OneFix
  PROVE  Spec => []LowestThatClears
<1>1. ProposalsInductive => LowestThatClears
  BY DEF ProposalsInductive, Proposable, Lowest, LowestThatClears
<1> QED BY <1>1, ProposalsInductiveHolds, PTL

\* Where no two classes have names that join alike, a candidate that is dispatched
\* has a bump of its own class, its slug and its target, whatever packages and
\* repositories are called and whichever ids there already are
\* (policy/naming.py, workflow/activities.py start_bump).
THEOREM NamesAreTheirOwn ==
  ASSUME IdsApart
  PROVE  Spec => CandidateHasItsBump
<1> DEFINE Has == \A c \in tick.items \ tick'.items :
             \E b \in bumps' : /\ b.repo = tick.repo /\ b.loop = tick.loop
                                /\ SameSlug(b.item, c)
<1>1. ASSUME ProposalsInductive, [Next]_vars, NEW c \in tick.items \ tick'.items
      PROVE  \E b \in bumps' : /\ b.repo = tick.repo /\ b.loop = tick.loop
                                /\ SameSlug(b.item, c)
  <2>1. tick.at = "dispatch" /\ tick' # tick
    BY <1>1 DEF ProposalsInductive
  <2>2. DispatchBump
    BY <1>1, <2>1 DEF At, Next, Tick, OsvFails, Outside, StartTick, ListOpen, Checkout,
          FetchVuln, FetchVulnFails, QueryBatchFails, SelectFails, SelectToDispatch, Reconcile,
          TurnToReconcile, BumpOpens, MergePull, Disclose, vars
  <2>3. /\ tick \in Ticks /\ c \in Items /\ tick.repo \in Repos /\ tick.loop \in Loops
        /\ bumps \subseteq Bumps
    BY <1>1, TickIs DEF ProposalsInductive
  <2>4. PICK item \in tick.items :
          /\ tick' = [tick EXCEPT !.items = @ \ {item}]
          /\ bumps' = IF \E b \in bumps : b.id = BumpOf(item).id
                      THEN bumps ELSE bumps \cup {BumpOf(item)}
    BY <2>2 DEF DispatchBump, Go
  <2>5. item = c
    BY <1>1, <2>3, <2>4 DEF Ticks
  <2>6. /\ BumpOf(c).repo = tick.repo /\ BumpOf(c).loop = tick.loop /\ BumpOf(c).item = c
        /\ BumpOf(c).id = BumpWorkflowId(tick.repo, c, tick.loop)
    BY DEF BumpOf
  <2>7. CASE \E b \in bumps : b.id = BumpOf(c).id
    <3>1. PICK b \in bumps : b.id = BumpOf(c).id
      BY <2>7
    <3>2. /\ b.repo \in Repos /\ b.loop \in Loops /\ b.item \in Items
          /\ b.id = BumpWorkflowId(b.repo, b.item, b.loop)
      BY <2>3 DEF Bumps
    <3>3. /\ b.repo = tick.repo /\ b.loop = tick.loop
          /\ Slug(b.item.package) = Slug(c.package) /\ b.item.target = c.target
      <4>1. BumpWorkflowId(b.repo, b.item, b.loop) = BumpWorkflowId(tick.repo, c, tick.loop)
        BY <2>6, <3>1, <3>2
      <4> DEFINE r == tick.repo
                 k == tick.loop
                 s == b.repo
                 l == b.loop
                 d == b.item
      <4>2. /\ r \in Repos /\ k \in Loops /\ s \in Repos /\ l \in Loops
            /\ c \in Items /\ d \in Items
            /\ BumpWorkflowId(s, d, l) = BumpWorkflowId(r, c, k)
        BY <2>3, <3>2, <4>1
      <4> HIDE DEF r, k, s, l, d
      <4>3. s = r /\ l = k /\ Slug(d.package) = Slug(c.package) /\ d.target = c.target
        BY <4>2, IdTells
      <4> QED BY <4>3 DEF r, k, s, l, d
    <3>4. b.item.package \in Packages /\ c.package \in Packages
      BY <2>3, <3>2 DEF Items
    <3> QED BY <2>4, <2>5, <2>7, <3>3, <3>4 DEF SameSlug, Slugs
  <2>8. CASE ~ \E b \in bumps : b.id = BumpOf(c).id
    BY <2>4, <2>5, <2>6, <2>8 DEF SameSlug
  <2> QED BY <2>7, <2>8
<1>2. ProposalsInductive /\ [Next]_vars => [Has]_vars
  BY <1>1
<1>3. CandidateHasItsBump <=> [][Has]_vars
  BY DEF CandidateHasItsBump
<1> QED BY <1>2, <1>3, ProposalsInductiveHolds, PTL DEF Spec
=============================================================================
