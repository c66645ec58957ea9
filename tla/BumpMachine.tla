----------------------------- MODULE BumpMachine -----------------------------
(***************************************************************************)
(* The pure lifecycle of one bump: its states, the decided events that     *)
(* drive it and the transition function (policy/state_machine.py, with     *)
(* domain/state.py, events.py, effects.py and ci.py).                      *)
(*                                                                         *)
(* A state carries exactly the data the code's frozen model carries, minus *)
(* the work item, which never changes during a bump.  An effect is named   *)
(* by its kind: every argument an effect has is also in the state it is    *)
(* emitted with.                                                           *)
(***************************************************************************)
EXTENDS Naturals, Sequences

Verdicts   == {"clean", "risky", "unknown"}
TerminalCI == {"passed", "failed", "absent", "timed_out"}
CIStatus   == TerminalCI \cup {"pending"}

\* A pull request handle: its number and the head commit it was read with.
PrRefs == [number : Nat, sha : Nat]

\* What is recorded: the verdict, the pull request and a terminal reading.
Outcomes == [verdict : Verdicts, pr : PrRefs, ci : TerminalCI]

Discovered == [kind : {"discovered"}]
Judged     == [kind : {"judged"}, verdict : Verdicts]
AwaitingCi == [kind : {"awaiting_ci"}, verdict : Verdicts, pr : PrRefs]
Carrying   == [kind : {"closing", "gate_reviewing", "merging", "recorded"},
               outcome : Outcomes]

BumpStates == Discovered \cup Judged \cup AwaitingCi \cup Carrying

\* The decided inputs: what an activity, or the wait, came back with.
Events ==
  [kind : {"changelog_judged", "gate_reviewed"}, verdict : Verdicts]
  \cup [kind : {"pull_request_ready"}, pr : PrRefs]
  \cup [kind : {"ci_resolved"}, status : CIStatus]
  \cup [kind : {"pull_request_merged", "pull_request_closed", "outcome_recorded"}]

Effects == {"judge_changelog", "open_pull_request", "await_ci",
            "close_pull_request", "review_bump", "merge_pull_request",
            "record_outcome"}

\* The one effect a transition into a state carries.
EffectOf(kind) ==
  CASE kind = "discovered"     -> "judge_changelog"
    [] kind = "judged"         -> "open_pull_request"
    [] kind = "awaiting_ci"    -> "await_ci"
    [] kind = "closing"        -> "close_pull_request"
    [] kind = "gate_reviewing" -> "review_bump"
    [] kind = "merging"        -> "merge_pull_request"
    [] kind = "recorded"       -> "record_outcome"

Transitions == [kind : {"advanced", "rejected", "ignored"},
                next : BumpStates,
                effects : Seq(Effects)]

-----------------------------------------------------------------------------
Advanced(next, effect) ==
  [kind |-> "advanced", next |-> next, effects |-> <<effect>>]

Rejected(state) == [kind |-> "rejected", next |-> state, effects |-> <<>>]

Carry(kind, outcome) == [kind |-> kind, outcome |-> outcome]

Record(outcome) == Advanced(Carry("recorded", outcome), "record_outcome")

\* Only the one event a state waits for moves it; any other is rejected.
Expecting(state, event, kind, transition) ==
  IF event.kind = kind THEN transition ELSE Rejected(state)

Start == Advanced([kind |-> "discovered"], "judge_changelog")

FromDiscovered(state, event) ==
  IF event.kind # "changelog_judged" THEN Rejected(state)
  ELSE Advanced([kind |-> "judged", verdict |-> event.verdict],
                "open_pull_request")

FromJudged(state, event) ==
  IF event.kind # "pull_request_ready" THEN Rejected(state)
  ELSE Advanced([kind |-> "awaiting_ci", verdict |-> state.verdict,
                 pr |-> event.pr],
                "await_ci")

\* Green, judged clean, class earned: the gate.  Red with close-on-red: close.
\* Every other terminal reading is recorded and left to the human.
\* Mutant: the class's grant is not asked for.
MayGateUnearned(state, status, eligible) ==
  status = "passed" /\ state.verdict = "clean"

MayGate(state, status, eligible) ==
  /\ status = "passed"
  /\ state.verdict = "clean"
  /\ eligible

Resolve(state, status, closeOnRed, eligible) ==
  LET outcome == [verdict |-> state.verdict, pr |-> state.pr, ci |-> status]
  IN  IF MayGate(state, status, eligible)
      THEN Advanced(Carry("gate_reviewing", outcome), "review_bump")
      ELSE IF status = "failed" /\ closeOnRed
      THEN Advanced(Carry("closing", outcome), "close_pull_request")
      ELSE Record(outcome)

FromAwaitingCi(state, event, closeOnRed, eligible) ==
  IF event.kind # "ci_resolved" THEN Rejected(state)
  ELSE IF event.status \notin TerminalCI THEN Rejected(state)
  ELSE Resolve(state, event.status, closeOnRed, eligible)

\* Mutant: only a risky review holds the merge, an unavailable one does not.
FromGateReviewingOpen(state, event) ==
  IF event.kind # "gate_reviewed" THEN Rejected(state)
  ELSE IF event.verdict # "risky"
  THEN Advanced(Carry("merging", state.outcome), "merge_pull_request")
  ELSE Record(state.outcome)

FromGateReviewing(state, event) ==
  IF event.kind # "gate_reviewed" THEN Rejected(state)
  ELSE IF event.verdict = "clean"
  THEN Advanced(Carry("merging", state.outcome), "merge_pull_request")
  ELSE Record(state.outcome)

FromMerging(state, event) ==
  Expecting(state, event, "pull_request_merged", Record(state.outcome))

FromClosing(state, event) ==
  Expecting(state, event, "pull_request_closed", Record(state.outcome))

FromRecorded(state, event) ==
  Expecting(state, event, "outcome_recorded",
            [kind |-> "ignored", next |-> state, effects |-> <<>>])

Advance(state, event, closeOnRed, eligible) ==
  CASE state.kind = "discovered"     -> FromDiscovered(state, event)
    [] state.kind = "judged"         -> FromJudged(state, event)
    [] state.kind = "awaiting_ci"    -> FromAwaitingCi(state, event, closeOnRed, eligible)
    [] state.kind = "gate_reviewing" -> FromGateReviewing(state, event)
    [] state.kind = "merging"        -> FromMerging(state, event)
    [] state.kind = "closing"        -> FromClosing(state, event)
    [] state.kind = "recorded"       -> FromRecorded(state, event)
=============================================================================
