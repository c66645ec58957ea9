------------------------------- MODULE Autonomy -------------------------------
(***************************************************************************)
(* Earned autonomy, pure (policy/autonomy.py): what record earns a class   *)
(* its merges, and the battery of known-bad records that tests the gate in *)
(* force (gate_probe.py).  Rates are in per cent.                          *)
(***************************************************************************)
EXTENDS Integers

\* The knobs, as AutonomySettings bounds them.
AutonomyPolicies(repos) ==
  [minRate : 0..100, minDecided : Nat \ {0}, windowDays : Nat \ {0},
   minDetermined : Nat \ {0}, maxDefectRate : 0..100, allowlisted : SUBSET repos]

\* The defaults.
AutonomyPolicy ==
  [minRate |-> 95, minDecided |-> 5, windowDays |-> 90,
   minDetermined |-> 3, maxDefectRate |-> 0, allowlisted |-> {}]

\* The record of a class over the window.
Standings == {s \in [decided : Nat, merged : Nat, determined : Nat, defects : Nat] :
                s.merged <= s.decided /\ s.determined <= s.merged /\ s.defects <= s.determined}

\* Mutant of ClassEarned: a defect that is tolerated.
ClassEarnedDespiteDefect(s, policy) ==
  /\ s.decided >= policy.minDecided /\ s.decided # 0
  /\ 100 * s.merged >= policy.minRate * s.decided
  /\ s.determined >= policy.minDetermined
  /\ 100 * (s.defects - 1) <= policy.maxDefectRate * s.determined

\* Evidence for the approval rate, the rate, evidence for the defect rate, the
\* defect rate.
ClassEarned(s, policy) ==
  /\ s.decided >= policy.minDecided /\ s.decided # 0
  /\ 100 * s.merged >= policy.minRate * s.decided
  /\ s.determined >= policy.minDetermined
  /\ 100 * s.defects <= policy.maxDefectRate * s.determined

\* The first blocker of an open pull request: the class, the pull request
\* itself, and the steward's switch last.
HeldReason(repo, verdict, ci, earned, policy) ==
  CASE ~earned                          -> "class not earned"
    [] earned /\ verdict # "clean"      -> "verdict"
    [] earned /\ verdict = "clean" /\ ci # "passed" -> "CI"
    [] earned /\ verdict = "clean" /\ ci = "passed"
         /\ repo \notin policy.allowlisted -> "not enabled"
    [] OTHER                            -> "none"
PrAutonomy(repo, verdict, ci, earned, policy) ==
  HeldReason(repo, verdict, ci, earned, policy) = "none"

-----------------------------------------------------------------------------
(* The self-test.                                                          *)

GateScenario(decided, merged, determined, defects) ==
  [decided |-> decided, merged |-> merged, determined |-> determined, defects |-> defects]
KnownBad == [
  no_record            |-> GateScenario(0, 0, 0, 0),
  thin_record          |-> GateScenario(1, 1, 1, 0),
  low_approval_rate    |-> GateScenario(20, 10, 10, 0),
  unconfirmed_merges   |-> GateScenario(20, 20, 1, 0),
  a_defect_on_record   |-> GateScenario(20, 20, 10, 1)]

\* Mutant of GateEscapes: without the scenario of unconfirmed merges.
GateEscapesUnconfirmed(policy) ==
  {name \in DOMAIN KnownBad \ {"unconfirmed_merges"} : ClassEarned(KnownBad[name], policy)}

\* The bad records that this policy would grant; none is healthy.
GateEscapes(policy) == {name \in DOMAIN KnownBad : ClassEarned(KnownBad[name], policy)}
=============================================================================
