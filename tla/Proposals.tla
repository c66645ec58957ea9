------------------------------- MODULE Proposals -------------------------------
(***************************************************************************)
(* From a signal to a name: the dependency-patch and security-patch loops  *)
(* of some repositories scan a lockfile, ask the registry or OSV, select   *)
(* targets, dispatch a bump under the name of each, and close the pull     *)
(* requests whose branch says that they are overtaken.  OSV may answer in  *)
(* part; advisories are disclosed and pull requests merged meanwhile.       *)
(*                                                                         *)
(* One tick is followed at a time: ticks that overlap, and the requests of *)
(* a close, are in ScanLoop.  A bump is its start and its pull request:    *)
(* what is between is in BumpWorkflow.                                     *)
(***************************************************************************)
EXTENDS Names, Selection, SequencesExt

CONSTANTS
  Repos,      (* [owner, name], texts                                      *)
  Loops,      (* of the two bump loops                                     *)
  Packages,   (* the direct dependencies of each, texts                    *)
  Locked,     (* [Packages -> version], at first                           *)
  Available,  (* [Packages -> versions that the registry has]              *)
  Vulns,      (* [id -> [package -> OSV events]]                           *)
  Known,      (* those that OSV knows at first                             *)
  MaxFaults,  (* bound: requests to OSV that fail                          *)
  MaxMerges   (* bound: pull requests that are merged                      *)

Ids == DOMAIN Vulns
BumpLoops == {"dependency-patch", "security-patch"}

ASSUME ProposalsAssumption ==
  /\ Repos # {} /\ Loops \subseteq BumpLoops /\ Loops # {}
  /\ Locked \in [Packages -> DOMAIN Semver]
  /\ Available \in [Packages -> SUBSET DOMAIN Semver]
  /\ \A id \in Ids : DOMAIN Vulns[id] \subseteq Packages
  /\ Known \subseteq Ids
  /\ MaxFaults \in Nat /\ MaxMerges \in Nat

\* The slug of a text is a text.
ASSUME SlugAssumption ==
  /\ \A p \in Packages : Slug(p) \in Seq(STRING)
  /\ \A r \in Repos : Slug(r.owner) \in Seq(STRING) /\ Slug(r.name) \in Seq(STRING)

VARIABLES
  installed,  (* [Repos -> [Packages -> version]], the default branches    *)
  disclosed,  (* the vulnerabilities that OSV knows                        *)
  tick,       (* the tick under way                                        *)
  bumps,      (* the bump workflows ever started                           *)
  pulls,      (* the pull requests ever opened                             *)
  faults

vars == <<installed, disclosed, tick, bumps, pulls, faults>>

-----------------------------------------------------------------------------
(* OSV.                                                                    *)

\* The records, read as froot reads them.
Ranges ==
  [id \in Ids |-> [p \in DOMAIN Vulns[id] |-> RangesFromAffected(Vulns[id][p])]]
Spans(id, package) == {Ranges[id][package][i] : i \in DOMAIN Ranges[id][package]}

\* The versions of its packages that a vulnerability affects.  OSV orders what
\* froot cannot parse; such a fix is taken to be ahead.
Affected ==
  [id \in Ids |-> [p \in DOMAIN Vulns[id] |->
     {v \in DOMAIN Semver :
        \E span \in Spans(id, p) : /\ IntroducedReached(v, span.introduced)
                                   /\ Parses(span.fixed) => Below(v, span.fixed)}]]
Affects(id, package, version) == version \in Affected[id][package]
\* What the batch answers; an answer longer than OSV gives at once is cut by
\* the code, which follows no next_page_token, and not here.
Affecting(lock) ==
  {q \in Packages \X disclosed : q[1] \in DOMAIN Vulns[q[2]] /\ Affects(q[2], q[1], lock[q[1]])}

-----------------------------------------------------------------------------
(* Reconcile (policy/reconcile.py).                                        *)

StartsWith(text, prefix) == IsPrefix(prefix, text)
Rest(text, prefix) == SubSeq(text, Len(prefix) + 1, Len(text))
ParseVersion(text) == {v \in DOMAIN Semver : text = <<v>>}

\* The version that is left of the branch after the prefix, if one is.
TargetIn(branch, prefix) ==
  IF StartsWith(branch, prefix) THEN ParseVersion(Rest(branch, prefix)) ELSE {}

\* The candidate and version a branch is for: the longest prefix wins.  The
\* code has the first of equals, by name; here it is either.
PackagePrefixes == [l \in Loops |-> [p \in Packages |-> BranchPackagePrefix(p, l)]]
MatchPr(pull, candidates, loop) ==
  LET prefix(c) == PackagePrefixes[loop][c.package]
      matching  == {c \in candidates : TargetIn(pull.branch, prefix(c)) # {}}
  IN {m \in matching \X DOMAIN Semver :
        /\ m[2] \in TargetIn(pull.branch, prefix(m[1]))
        /\ \A d \in matching : Len(prefix(d)) <= Len(prefix(m[1]))}
Reconciliations(open, candidates, loop) ==
  {pull \in open : \E m \in MatchPr(pull, candidates, loop) : Below(m[2], m[1].target)}

-----------------------------------------------------------------------------
(* The tick.                                                               *)

\* What it is at; for what the signal is read, to dispatch or to reconcile.
TickPlaces == {"idle", "list", "checkout", "fetch", "select", "dispatch"}
Purposes   == {"dispatch", "reconcile"}

IdleTick == [at |-> "idle", repo |-> CHOOSE r \in Repos : TRUE,
             loop |-> CHOOSE l \in Loops : TRUE, purpose |-> "dispatch", open |-> {},
             lock |-> Locked, todo |-> {}, read |-> {}, items |-> {}]

Init ==
  /\ installed = [r \in Repos |-> Locked]
  /\ disclosed = Known
  /\ tick = IdleTick
  /\ bumps = {} /\ pulls = {}
  /\ faults = 0

At(place) == tick.at = place
Go(t) == tick' = t /\ UNCHANGED <<installed, disclosed>>

StartTick(repo, loop) ==
  /\ At("idle")
  /\ Go([IdleTick EXCEPT !.at = "checkout", !.repo = repo, !.loop = loop])
  /\ UNCHANGED <<bumps, pulls, faults>>

\* reconcile_open_prs lists first; the pull requests of all loops, and of people.
OpenOf(repo) == {pull \in pulls : pull.repo = repo /\ pull.state = "open"}
ListOpen ==
  /\ At("list")
  /\ Go([tick EXCEPT !.at = "checkout", !.open = OpenOf(tick.repo)])
  /\ UNCHANGED <<bumps, pulls, faults>>

\* The lockfile; security-patch asks OSV about it, in one batch.
Checkout ==
  /\ At("checkout")
  /\ LET lock == installed[tick.repo]
     IN Go([tick EXCEPT !.lock = lock,
              !.at   = IF tick.loop = "security-patch" /\ Affecting(lock) # {} THEN "fetch" ELSE "select",
              !.todo = IF tick.loop = "security-patch" THEN Affecting(lock) ELSE {}])
  /\ UNCHANGED <<bumps, pulls, faults>>

\* A batch that fails says that there is nothing.
QueryBatchFails ==
  /\ At("checkout") /\ tick.loop = "security-patch" /\ faults < MaxFaults
  /\ Go([tick EXCEPT !.at = "select", !.lock = installed[tick.repo]])
  /\ faults' = faults + 1 /\ UNCHANGED <<bumps, pulls>>

\* Record by record; one that fails is left out.
Fetched(q, advisories) ==
  Go([tick EXCEPT !.at = IF tick.todo = {q} THEN "select" ELSE "fetch",
        !.todo = @ \ {q}, !.read = @ \cup advisories])
FetchVuln ==
  /\ At("fetch")
  /\ \E q \in tick.todo : Fetched(q, {AdvisoryFromRecord(q[2], q[1], Ranges)})
  /\ UNCHANGED <<bumps, pulls, faults>>
FetchVulnFails ==
  /\ At("fetch") /\ faults < MaxFaults
  /\ \E q \in tick.todo : Fetched(q, {})
  /\ faults' = faults + 1 /\ UNCHANGED <<bumps, pulls>>

Selected ==
  IF tick.loop = "security-patch" THEN SelectSecurityCandidates(tick.lock, tick.read)
                                  ELSE SelectPatchCandidates(tick.lock, Available)

\* One target that cannot be a candidate fails the whole selection, its retries
\* and the scan; the watchdog has the loop begin again.
Raises == \E c \in Selected : ~IsCandidate(c)
SelectFails ==
  /\ At("select") /\ Raises
  /\ Go(IdleTick) /\ UNCHANGED <<bumps, pulls, faults>>

SelectToDispatch ==
  /\ At("select") /\ tick.purpose = "dispatch" /\ ~Raises
  /\ Go([tick EXCEPT !.at = "dispatch", !.items = Selected])
  /\ UNCHANGED <<bumps, pulls, faults>>

\* The candidates in some order; an id that was ever started is left alone.
BumpOf(item) ==
  [id |-> BumpWorkflowId(tick.repo, item, tick.loop), repo |-> tick.repo, loop |-> tick.loop,
   item |-> item, opened |-> FALSE]
DispatchBump ==
  /\ At("dispatch")
  /\ \E item \in tick.items :
       LET bump == BumpOf(item)
       IN /\ Go([tick EXCEPT !.items = @ \ {item}])
          /\ bumps' = IF \E b \in bumps : b.id = bump.id THEN bumps ELSE bumps \cup {bump}
  /\ UNCHANGED <<pulls, faults>>

\* Mutant of TurnToReconcile: what was read to dispatch is kept.
TurnToReconcileStale ==
  /\ At("dispatch") /\ tick.items = {}
  /\ Go([tick EXCEPT !.at = "list", !.purpose = "reconcile"])
  /\ UNCHANGED <<bumps, pulls, faults>>

\* After the last, the signal is read again, to reconcile.
TurnToReconcile ==
  /\ At("dispatch") /\ tick.items = {}
  /\ Go([IdleTick EXCEPT !.at = "list", !.repo = tick.repo, !.loop = tick.loop,
            !.purpose = "reconcile"])
  /\ UNCHANGED <<bumps, pulls, faults>>

Closes(closing) ==
  {IF pull \in closing THEN [pull EXCEPT !.state = "closed"] ELSE pull : pull \in pulls}
Reconcile ==
  /\ At("select") /\ tick.purpose = "reconcile" /\ ~Raises
  /\ Go(IdleTick) /\ UNCHANGED <<bumps, faults>>
  /\ \E closing \in {Reconciliations(tick.open, Selected, tick.loop)} : pulls' = Closes(closing)

Tick ==
  \/ \E repo \in Repos, loop \in Loops : StartTick(repo, loop)
  \/ ListOpen \/ Checkout \/ FetchVuln \/ SelectFails \/ SelectToDispatch
  \/ DispatchBump \/ TurnToReconcile \/ Reconcile
OsvFails == QueryBatchFails \/ FetchVulnFails

-----------------------------------------------------------------------------
(* Bumps, people and OSV.                                                  *)

PullOf(b) ==
  [repo |-> b.repo, loop |-> b.loop, branch |-> BranchName(b.item, b.loop), item |-> b.item,
   state |-> "open"]
BumpOpens ==
  /\ \E b \in bumps :
       /\ ~b.opened
       /\ bumps' = (bumps \ {b}) \cup {[b EXCEPT !.opened = TRUE]}
       /\ pulls' = pulls \cup {PullOf(b)}
  /\ UNCHANGED <<installed, disclosed, tick, faults>>

\* Merged where it is an upgrade still.
MergePull ==
  /\ Cardinality({pull \in pulls : pull.state = "merged"}) < MaxMerges
  /\ \E pull \in pulls :
       LET item == pull.item
       IN /\ pull.state = "open" /\ Below(installed[pull.repo][item.package], item.target)
          /\ pulls' = (pulls \ {pull}) \cup {[pull EXCEPT !.state = "merged"]}
          /\ installed' = [installed EXCEPT ![pull.repo][item.package] = item.target]
  /\ UNCHANGED <<disclosed, tick, bumps, faults>>

Disclose ==
  /\ \E id \in Ids \ disclosed : disclosed' = disclosed \cup {id}
  /\ UNCHANGED <<installed, tick, bumps, pulls, faults>>

Outside == BumpOpens \/ MergePull \/ Disclose

Next == Tick \/ OsvFails \/ Outside

\* Every loop of every repository is a durable workflow of its own: its ticks
\* come again and again, and each goes on.
TickFair ==
  /\ \A repo \in Repos, loop \in Loops : SF_vars(StartTick(repo, loop))
  /\ WF_vars(~At("idle") /\ Tick)

Spec == Init /\ [][Next]_vars /\ TickFair

-----------------------------------------------------------------------------
(* Properties.                                                             *)

Items == [kind : {"bump"}, package : Packages, current : DOMAIN Semver,
          target : DOMAIN Semver, clears : SUBSET Ids]

\* Types; whatever became a work item is a stable upgrade, and a tick has read
\* nothing before its checkout.
TypeOK ==
  /\ installed \in [Repos -> [Packages -> DOMAIN Semver]]
  /\ disclosed \subseteq Ids
  /\ tick.at \in TickPlaces /\ tick.purpose \in Purposes
  /\ tick.repo \in Repos /\ tick.loop \in Loops
  /\ tick.todo \subseteq Packages \X Ids /\ At("fetch") = (tick.todo # {})
  /\ tick.at \in {"idle", "list", "checkout"} => tick.read = {}
  /\ \A b \in bumps : b.item \in Items /\ IsCandidate(b.item)
  /\ faults \in 0..MaxFaults

\* One name, one bump: however packages' names begin or resemble one another,
\* two loops touch the same package and two repositories the same version, a
\* dispatched candidate has a bump of its own, unless its name is its slug's and
\* another package of the repository has the same slug.
Slugs == [p \in Packages |-> Slug(p)]
SameSlug(c, d) == Slugs[c.package] = Slugs[d.package] /\ c.target = d.target
CandidateHasItsBump ==
  [][\A c \in tick.items \ tick'.items :
       \E b \in bumps' : /\ b.repo = tick.repo /\ b.loop = tick.loop
                          /\ SameSlug(b.item, c)]_vars

\* What it rests on: no package of one loop of a repository is called what one of
\* another is, once the parts of their names are joined.
IdStem(repo, loop, package) ==
  Join(<<<<"froot", "-", "bump">>>> \o LoopIdSegment(loop) \o RepoParts(repo) \o <<Slug(package)>>)
IdsApart ==
  \A r, s \in Repos : \A k, l \in Loops : \A p, q \in Packages :
    IdStem(r, k, p) = IdStem(s, l, q) => r = s /\ k = l

\* Reconcile closes a pull request only for a newer target, selected in the same
\* tick, of the same package by slug; whatever begins with its name, whatever
\* another loop has open, and however little OSV answered.
ReconcileKeepsNewest ==
  [][\A pull \in pulls \ pulls' : tick'.at = "idle" /\ At("select") =>
       /\ pull.loop = tick.loop /\ pull.repo = tick.repo
       /\ \E c \in Selected : /\ Slugs[c.package] = Slugs[pull.item.package]
                              /\ Below(pull.item.target, c.target)]_vars

\* A security bump goes to the lowest version at which, for each advisory it
\* names, the spans that its package was in are left.
LeftSpans(id, item, v) ==
  \A span \in Spans(id, item.package) : Clears(item.current, span) => ~Below(v, span.fixed)
LowestThatClears ==
  \A b \in bumps : b.loop = "security-patch" =>
    \A v \in DOMAIN Semver :
      (\A id \in b.item.clears : LeftSpans(id, b.item, v)) <=> ~Below(v, b.item.target)

\* What it rests on of a record: spans that hold the same version have one fix.
OneFix ==
  \A id \in Ids : \A p \in DOMAIN Vulns[id] : \A s, t \in Spans(id, p) : \A v \in DOMAIN Semver :
    Clears(v, s) /\ Clears(v, t) => s.fixed = t.fixed

\* Again and again, everything that OSV has disclosed about installed packages is
\* proposed: a bump to the fix or past it, unless the package is not affected.
Answered(repo, p, id) ==
  \/ ~Affects(id, p, installed[repo][p])
  \/ \E b \in bumps : /\ b.repo = repo /\ b.loop = "security-patch"
                       /\ Slugs[b.item.package] = Slugs[p]
                       /\ LeftSpans(id, [package |-> p, current |-> installed[repo][p]], b.item.target)
DisclosedIsProposed ==
  []<>(\A repo \in Repos, id \in disclosed : \A p \in DOMAIN Vulns[id] : Answered(repo, p, id))

-----------------------------------------------------------------------------
(* What the code's own comments say of it.                                 *)

\* policy/candidates.py, _clearing_version: no target when the "fix doesn't parse
\* as a stable semver (conservative: froot won't propose a bump it can't reason
\* about)"; no fix makes the selection fail.
SelectionNeverRaises == At("select") => ~Raises
=============================================================================
