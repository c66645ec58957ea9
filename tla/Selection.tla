------------------------------- MODULE Selection -------------------------------
(***************************************************************************)
(* Candidate selection, pure: versions (domain/version.py), what OSV       *)
(* answers made into advisories (adapters/osv.py), and each loop's notion  *)
(* of the right target (policy/candidates.py).  A version is its text;     *)
(* Semver says what a text parses to, and other texts do not parse.        *)
(***************************************************************************)
EXTENDS Integers, Sequences

CONSTANT Semver  (* [text -> major, minor, patch, 1 or, a prerelease, 0]     *)

ASSUME SemverAssumption == Semver \in [DOMAIN Semver -> Nat \X Nat \X Nat \X {0, 1}]

Parses(text) == text \in DOMAIN Semver

\* A stable release outranks its prereleases.
Below(v, w) ==
  \E i \in 1..4 : /\ Semver[v][i] < Semver[w][i]
                  /\ \A j \in 1..(i - 1) : Semver[v][j] = Semver[w][j]
IsStable(v) == Semver[v][4] = 1
IsPatchBumpOf(v, w) ==
  /\ IsStable(v) /\ IsStable(w)
  /\ Semver[v][1] = Semver[w][1] /\ Semver[v][2] = Semver[w][2]
  /\ Semver[v][3] > Semver[w][3]

Highest(versions) == {v \in versions : \A w \in versions : ~Below(v, w)}

\* A work item; Candidate cannot be made of a target that is not stable and newer.
Candidate(package, current, target, clears) ==
  [kind |-> "bump", package |-> package, current |-> current, target |-> target,
   clears |-> clears]
IsCandidate(c) == IsStable(c.target) /\ Below(c.current, c.target)

-----------------------------------------------------------------------------
(* dependency-patch.                                                       *)

SelectPatchCandidates(installed, available) ==
  UNION {{Candidate(p, installed[p], v, {}) :
            v \in Highest({w \in available[p] : IsPatchBumpOf(w, installed[p])})} :
          p \in DOMAIN installed}

-----------------------------------------------------------------------------
(* security-patch.                                                         *)

FromTheStart == "0"
NoFix == "none"

\* An affected range of OSV is a sequence of events, <<what, version>>: each
\* "introduced" opens a span that the next "fixed" closes, if any does before
\* the next "introduced".
Span(introduced, fixed) == [introduced |-> introduced, fixed |-> fixed]
RangesFromAffected(events) ==
  LET closing(i) == {j \in DOMAIN events : /\ j > i /\ events[j][1] \in {"introduced", "fixed"}
                       /\ \A k \in (i + 1)..(j - 1) : events[k][1] \notin {"introduced", "fixed"}}
      fixes(i) == {events[j][2] : j \in {k \in closing(i) : events[k][1] = "fixed"}}
      span(i)  == Span(events[i][2], IF fixes(i) = {} THEN NoFix ELSE CHOOSE f \in fixes(i) : TRUE)
      opens    == SelectSeq([i \in DOMAIN events |-> i], LAMBDA i : events[i][1] = "introduced")
  IN [k \in DOMAIN opens |-> span(opens[k])]

\* A vulnerability may name several packages; only its own count.
AdvisoryFromRecord(id, package, ranges) ==
  [id |-> id, package |-> package, ranges |-> ranges[id][package]]

IntroducedReached(version, introduced) ==
  \/ introduced = FromTheStart
  \/ Parses(introduced) /\ ~Below(version, introduced)

\* Whether the fix of the span, if it has one that parses, clears the version.
Clears(version, span) ==
  /\ IntroducedReached(version, span.introduced)
  /\ Parses(span.fixed) /\ Below(version, span.fixed)

\* The fix of the first span that clears the version, if any does.
ClearingVersion(version, advisory) ==
  LET clearing == {i \in DOMAIN advisory.ranges : Clears(version, advisory.ranges[i])}
  IN {advisory.ranges[i].fixed : i \in {j \in clearing : \A k \in clearing : j <= k}}

\* Mutant of SecurityTarget: the lowest of the fixes.
SecurityTargetLowest(fixes) == {v \in fixes : \A w \in fixes : ~Below(w, v)}

\* The highest of the fixes.
SecurityTarget(fixes) == Highest(fixes)

\* The candidate of an installed package: the highest of its advisories' fixes
\* clears those that have one.
SecurityCandidate(package, current, advisories) ==
  LET cleared == {a \in advisories : a.package = package /\ ClearingVersion(current, a) # {}}
      fixes   == UNION {ClearingVersion(current, a) : a \in cleared}
  IN {Candidate(package, current, v, {a.id : a \in cleared}) : v \in SecurityTarget(fixes)}
SelectSecurityCandidates(installed, advisories) ==
  UNION {SecurityCandidate(p, installed[p], advisories) : p \in DOMAIN installed}
=============================================================================
