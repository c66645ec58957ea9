-------------------------------- MODULE Starter --------------------------------
(***************************************************************************)
(* Which root workflows there are to start (starter.py), derived from the  *)
(* registered loops (loops/registry.py); the watchdog starts the same.     *)
(***************************************************************************)
EXTENDS Names

\* The registered loops by disposition: one proposes, the other comments.
CommitLoops   == {"dependency-patch", "security-patch", "dead-code"}
AdvisoryLoops == {"determinism-review", "a11y-review", "doc-refs", "doc-coherence"}

\* One start: an acting loop of FROOT_LOOPS, or an advisory loop whose flag is
\* set, for each repository.
ScanStart(repo, loop) ==
  [repo |-> repo, loop |-> loop, id |-> ScanWorkflowId(repo, loop)]
AdvisoryStart(repo, loop) ==
  [repo |-> repo, loop |-> loop, id |-> ReviewLoopId(repo, loop)]
Plans(repos, loops, enabled) ==
  {ScanStart(r, l) : r \in repos, l \in loops \cap CommitLoops}
  \cup {AdvisoryStart(r, l) : r \in repos, l \in enabled \cap AdvisoryLoops}

\* A root is started if it never ran or its last run failed; one that runs is
\* left alone, and so is one that completed.
Startable(statuses) ==
  IF statuses = <<>> THEN TRUE
  ELSE statuses[Len(statuses)] \in {"terminated", "failed", "canceled", "timed_out"}
=============================================================================
