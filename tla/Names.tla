--------------------------------- MODULE Names ---------------------------------
(***************************************************************************)
(* Deterministic names (policy/naming.py).  A text is a sequence of words  *)
(* and marks, as in <<"@", "^", "acme", "/", "ui">> for @Acme/ui; what is  *)
(* compared, prefixed and parsed in the code is so here.                   *)
(***************************************************************************)
EXTENDS Integers, Sequences

Unsafe == {"@", "/", " "}
Hyphen == "-"
Capital == "^"

\* Capitals are lowered, runs of unsafe marks become one hyphen, and none is
\* left at either end.
Slug(text) ==
  LET low   == SelectSeq(text, LAMBDA word : word # Capital)
      safe  == [i \in DOMAIN low |-> IF low[i] \in Unsafe THEN Hyphen ELSE low[i]]
      inner(i) == \E a, b \in DOMAIN low : a <= i /\ i <= b /\ Hyphen \notin {safe[a], safe[b]}
      kept(i)  == inner(i) /\ (low[i] \in Unsafe => low[i - 1] \notin Unsafe)
  IN SelectSeq([i \in DOMAIN low |-> IF kept(i) THEN safe[i] ELSE ""], LAMBDA word : word # "")

Join(parts) ==
  LET upTo[k \in DOMAIN parts] ==
        IF k = 1 THEN parts[1] ELSE upTo[k - 1] \o <<Hyphen>> \o parts[k]
  IN upTo[Len(parts)]

Words(loop) ==
  CASE loop = "dependency-patch"   -> <<"dependency", "-", "patch">>
    [] loop = "security-patch"     -> <<"security", "-", "patch">>
    [] loop = "dead-code"          -> <<"dead", "-", "code">>
    [] loop = "determinism-review" -> <<"review">>
    [] loop = "a11y-review"        -> <<"a11y">>
    [] loop = "doc-refs"           -> <<"docrefs">>
    [] loop = "doc-coherence"      -> <<"doccoh">>

RepoParts(repo) == <<Slug(repo.owner), Slug(repo.name)>>

\* Mutant of TailParts: a bump is named for its package alone.
TailPartsUntargeted(item) == <<Slug(item.package)>>

\* What tells a work item from the others of its loop.  An id slugs the target
\* too; that of a candidate is three numbers and two dots, which are their slug.
TailParts(item) ==
  CASE item.kind = "bump"    -> <<Slug(item.package), <<item.target>>>>
    [] item.kind = "removal" -> <<Slug(item.package), <<"unused">>>>
    [] item.kind = "file"    -> <<Slug(item.path), <<"file">>>>
    [] item.kind = "export"  -> <<Slug(item.path), Slug(item.symbol), <<"export">>>>

\* The first loop has none, so that its ids stay what they were.
LoopIdSegment(loop) == IF loop = "dependency-patch" THEN <<>> ELSE <<Words(loop)>>

\* Mutant of InLoop: the loops name their branches alike.
InLoopNone(loop, text) == <<"froot", "/">> \o text

\* A namespace of branches for each loop.
InLoop(loop, text) == <<"froot", "/">> \o Words(loop) \o <<"/">> \o text
BranchName(item, loop) == InLoop(loop, Join(TailParts(item)))
BranchPackagePrefix(package, loop) == InLoop(loop, Slug(package) \o <<Hyphen>>)

BumpWorkflowId(repo, item, loop) ==
  Join(<<<<"froot", "-", "bump">>>> \o LoopIdSegment(loop) \o RepoParts(repo) \o TailParts(item))
ScanWorkflowId(repo, loop) ==
  Join(<<<<"froot", "-", "scan">>>> \o LoopIdSegment(loop) \o RepoParts(repo))

\* The advisory loops: one root per repository, one review per head.
ReviewLoopId(repo, loop) == Join(<<<<"froot">>, Words(loop)>> \o RepoParts(repo))
ReviewId(repo, loop, number, head) ==
  Join(<<<<"froot", "-", "pr">>, Words(loop)>> \o RepoParts(repo) \o <<<<number>>, <<head>>>>)
=============================================================================
