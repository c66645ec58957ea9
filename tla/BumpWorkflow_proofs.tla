-------------------------- MODULE BumpWorkflow_proofs --------------------------
(***************************************************************************)
(* Safety of the bump workflow for every number of attempts, faults, moves *)
(* and models.  The invariant is MergeInductive: the types, the driver in  *)
(* step with the machine, every merge vouched for by a green reading, and  *)
(* the commits froot has merged among those it read green.  Before it come *)
(* facts about the machine and about the forge, for every state and every  *)
(* request; after it, that the workflow keeps the safety of BumpPromise,   *)
(* step by step, and then OutcomeInductive: what a bump leaves behind.     *)
(***************************************************************************)
EXTENDS BumpWorkflow, TLAPS

-----------------------------------------------------------------------------
(* The machine: what a transition returns, and what it takes to reach the  *)
(* states in which froot acts on its own.                                  *)

\* A state has the fields its kind says and no others.
LEMMA StateShape ==
  ASSUME NEW state \in BumpStates
  PROVE  /\ state.kind \in {"discovered", "judged", "awaiting_ci", "closing",
                            "gate_reviewing", "merging", "recorded"}
         /\ state.kind \in {"judged", "awaiting_ci"} => state.verdict \in Verdicts
         /\ state.kind = "awaiting_ci" => state \in AwaitingCi
         /\ state.kind \in {"closing", "gate_reviewing", "merging", "recorded"}
              <=> state \in Carrying
         /\ "outcome" \in DOMAIN state <=> state \in Carrying
         /\ state \in Carrying => state.outcome \in Outcomes
  BY DEF BumpStates, Discovered, Judged, AwaitingCi, Carrying

\* The two shapes a transition is built with have the type of one.
LEMMA AdvancedType ==
  ASSUME NEW state \in BumpStates, NEW effect \in Effects
  PROVE  Advanced(state, effect) \in Transitions
  BY DEF Advanced, Transitions

LEMMA RejectedType ==
  ASSUME NEW state \in BumpStates
  PROVE  Rejected(state) \in Transitions
  BY DEF Rejected, Transitions

\* Every transition of every state on every event is one (advance is total).
LEMMA AdvanceType ==
  ASSUME NEW state \in BumpStates, NEW event \in Events,
         NEW closes \in BOOLEAN, NEW earned \in BOOLEAN
  PROVE  Advance(state, event, closes, earned) \in Transitions
<1> DEFINE result == Advance(state, event, closes, earned)
<1>1. CASE state.kind = "discovered"
  <2>1. event.kind = "changelog_judged" =>
          [kind |-> "judged", verdict |-> event.verdict] \in BumpStates
    BY DEF Events, BumpStates, Judged
  <2>2. result = FromDiscovered(state, event)
    BY <1>1 DEF Advance
  <2> QED BY <2>1, <2>2, AdvancedType, RejectedType DEF FromDiscovered, Effects
<1>2. CASE state.kind = "judged"
  <2>1. event.kind = "pull_request_ready" =>
          [kind |-> "awaiting_ci", verdict |-> state.verdict, pr |-> event.pr]
            \in BumpStates
    BY <1>2, StateShape DEF Events, BumpStates, AwaitingCi
  <2>2. result = FromJudged(state, event)
    BY <1>2 DEF Advance
  <2> QED BY <2>1, <2>2, AdvancedType, RejectedType DEF FromJudged, Effects
<1>3. CASE state.kind = "awaiting_ci"
  <2>1. result = FromAwaitingCi(state, event, closes, earned)
    BY <1>3 DEF Advance
  <2>2. ASSUME event.status \in TerminalCI, NEW kind \in {"closing", "gate_reviewing", "recorded"}
        PROVE  Carry(kind, [verdict |-> state.verdict, pr |-> state.pr,
                            ci |-> event.status]) \in BumpStates
    BY <1>3, <2>2, StateShape DEF Carry, BumpStates, Carrying, Outcomes, AwaitingCi
  <2> QED BY <2>1, <2>2, AdvancedType, RejectedType DEF FromAwaitingCi, Resolve, Record, Effects
<1>4. CASE state.kind = "gate_reviewing"
  <2>1. result = FromGateReviewing(state, event)
    BY <1>4 DEF Advance
  <2>2. /\ Carry("merging", state.outcome) \in BumpStates
        /\ Carry("recorded", state.outcome) \in BumpStates
    BY <1>4, StateShape DEF Carry, BumpStates, Carrying
  <2> QED BY <2>1, <2>2, AdvancedType, RejectedType DEF FromGateReviewing, Record, Effects
<1>5. CASE state.kind \in {"merging", "closing"}
  <2>1. result = FromMerging(state, event) \/ result = FromClosing(state, event)
    BY <1>5 DEF Advance
  <2>2. Carry("recorded", state.outcome) \in BumpStates
    BY <1>5, StateShape DEF Carry, BumpStates, Carrying
  <2> QED BY <2>1, <2>2, AdvancedType, RejectedType DEF FromMerging, FromClosing, Expecting, Record, Effects
<1>6. CASE state.kind = "recorded"
  <2>1. result = FromRecorded(state, event)
    BY <1>6 DEF Advance
  <2>2. [kind |-> "ignored", next |-> state, effects |-> <<>>] \in Transitions
    BY DEF Transitions
  <2> QED BY <2>1, <2>2, RejectedType DEF FromRecorded, Expecting
<1> QED BY <1>1, <1>2, <1>3, <1>4, <1>5, <1>6, StateShape

\* The event that answers a state's effect.
AnswerTo(kind) ==
  CASE kind = "discovered"     -> "changelog_judged"
    [] kind = "judged"         -> "pull_request_ready"
    [] kind = "awaiting_ci"    -> "ci_resolved"
    [] kind = "closing"        -> "pull_request_closed"
    [] kind = "gate_reviewing" -> "gate_reviewed"
    [] kind = "merging"        -> "pull_request_merged"
    [] kind = "recorded"       -> "outcome_recorded"

Answers(state, event) ==
  event.kind = AnswerTo(state.kind) /\ (event.kind = "ci_resolved" => event.status \in TerminalCI)

\* Answered, a state moves on to a state with its one effect, or the bump is
\* over.
LEMMA AnswerMoves ==
  ASSUME NEW state \in BumpStates, NEW event \in Events, Answers(state, event),
         NEW closes \in BOOLEAN, NEW earned \in BOOLEAN
  PROVE  LET t == Advance(state, event, closes, earned) IN
         \/ t.kind = "advanced" /\ t.effects = <<EffectOf(t.next.kind)>>
         \/ t.kind = "ignored" /\ t.effects = <<>> /\ t.next.kind = "recorded"
<1> DEFINE t == Advance(state, event, closes, earned)
<1>1. CASE state.kind = "discovered"
  BY <1>1 DEF Advance, FromDiscovered, Answers, AnswerTo, Advanced, EffectOf
<1>2. CASE state.kind = "judged"
  BY <1>2 DEF Advance, FromJudged, Answers, AnswerTo, Advanced, EffectOf
<1>3. CASE state.kind = "awaiting_ci"
  BY <1>3 DEF Advance, FromAwaitingCi, Resolve, Record, Carry, Answers, AnswerTo,
              Advanced, EffectOf
<1>4. CASE state.kind = "gate_reviewing"
  BY <1>4 DEF Advance, FromGateReviewing, Record, Carry, Answers, AnswerTo,
              Advanced, EffectOf
<1>5. CASE state.kind \in {"merging", "closing"}
  BY <1>5 DEF Advance, FromMerging, FromClosing, Expecting, Record, Carry,
              Answers, AnswerTo, Advanced, EffectOf
<1>6. CASE state.kind = "recorded"
  BY <1>6 DEF Advance, FromRecorded, Expecting, Answers, AnswerTo
<1> QED BY <1>1, <1>2, <1>3, <1>4, <1>5, <1>6, StateShape

\* The merging state is entered only from the gate review, on a clean second
\* verdict, and the gate review only with the reading green, the changelog
\* verdict clean and the class's grant earned: the four legs of an automatic
\* merge (_from_awaiting_ci, _from_gate_reviewing).
THEOREM MergeStandsOnFourLegs ==
  ASSUME NEW state \in BumpStates, NEW event \in Events,
         NEW closes \in BOOLEAN, NEW earned \in BOOLEAN
  PROVE  LET t == Advance(state, event, closes, earned) IN
         t.kind = "advanced" =>
           /\ t.next.kind = "merging" =>
                /\ state.kind = "gate_reviewing"
                /\ event.kind = "gate_reviewed" /\ event.verdict = "clean"
                /\ t.next.outcome = state.outcome
           /\ t.next.kind = "gate_reviewing" =>
                /\ state.kind = "awaiting_ci" /\ earned
                /\ event.status = "passed" /\ state.verdict = "clean"
                /\ t.next.outcome = [verdict |-> "clean", pr |-> state.pr,
                                     ci |-> "passed"]
  BY StateShape
     DEF Advance, FromDiscovered, FromJudged, FromAwaitingCi, FromGateReviewing,
         FromMerging, FromClosing, FromRecorded, Resolve, MayGate, Record,
         Carry, Expecting, Advanced, Rejected

-----------------------------------------------------------------------------
(* The forge: what its answers keep true, whoever sends the requests.      *)

LEMMA SequenceOfFunction ==
  ASSUME NEW S, NEW k \in Nat, NEW f \in [1..k -> S]
  PROVE  f \in Seq(S)
  BY SMT

LEMMA SequenceDomain ==
  ASSUME NEW S, NEW s \in Seq(S)
  PROVE  Len(s) \in Nat /\ DOMAIN s = 1..Len(s) /\ \A n \in DOMAIN s : s[n] \in S
  BY SMT

\* Rewriting each pull request into a pull request leaves a list of them.
LEMMA RewriteType ==
  ASSUME ForgeTypeOK, NEW Rewritten,
         DOMAIN Rewritten = DOMAIN pulls,
         Rewritten = [n \in DOMAIN pulls |-> Rewritten[n]],
         \A n \in DOMAIN pulls : Rewritten[n] \in Pulls
  PROVE  Rewritten \in Seq(Pulls)
<1>1. pulls \in Seq(Pulls)
  BY DEF ForgeTypeOK
<1>2. Len(pulls) \in Nat /\ DOMAIN pulls = 1..Len(pulls)
  BY <1>1, SequenceDomain
<1>3. Rewritten \in [1..Len(pulls) -> Pulls]
  BY <1>2
<1> QED BY <1>2, <1>3, SequenceOfFunction

LEMMA SettleType ==
  ASSUME ForgeTypeOK, NEW N, NEW state \in PullStates, NEW by \in Actors
  PROVE  Settle(N, state, by) \in Seq(Pulls)
<1>1. \A n \in DOMAIN pulls : pulls[n] \in Pulls
  BY SequenceDomain DEF ForgeTypeOK
<1>2. \A n \in DOMAIN pulls : Settle(N, state, by)[n] \in Pulls
  BY <1>1 DEF Settle, Pulls
<1> QED BY <1>2, RewriteType DEF Settle

LEMMA MoveBranchType ==
  ASSUME ForgeTypeOK, MoveBranch
  PROVE  ForgeTypeOK'
<1>1. \A n \in DOMAIN pulls : pulls[n] \in Pulls
  BY SequenceDomain DEF ForgeTypeOK
<1>2. commits \in Nat
  BY DEF ForgeTypeOK
<1>3. \A n \in DOMAIN pulls : pulls'[n] \in Pulls
  BY <1>1, <1>2 DEF MoveBranch, Pulls
<1>4. pulls' \in Seq(Pulls)
  BY <1>3, RewriteType DEF MoveBranch
<1>5. blocked' \in BOOLEAN
  BY Zenon DEF MoveBranch
<1>6. commits' \in Nat /\ ref' \in 0..commits'
  BY <1>2 DEF MoveBranch
<1> QED BY <1>4, <1>5, <1>6 DEF ForgeTypeOK

LEMMA DropBranchType ==
  ASSUME ForgeTypeOK, NEW by \in Actors, DropBranch(by)
  PROVE  ForgeTypeOK'
  BY SettleType DEF DropBranch, ForgeTypeOK, PullStates

LEMMA AppendType ==
  ASSUME ForgeTypeOK
  PROVE  Append(pulls, NewPull(ref)) \in Seq(Pulls)
<1>1. NewPull(ref) \in Pulls
  BY DEF NewPull, Pulls, PullStates, Actors, ForgeTypeOK
<1> QED BY <1>1 DEF ForgeTypeOK

\* Every accepted write leaves the forge well typed.
LEMMA PerformType ==
  ASSUME ForgeTypeOK, NEW w \in Writes, Perform(w)
  PROVE  ForgeTypeOK'
<1>1. CASE w.op = "push"
  BY <1>1, MoveBranchType DEF Perform
<1>2. CASE w.op = "post_pr"
  BY <1>2, AppendType DEF Perform, ForgeTypeOK, branchVars
<1>3. CASE w.op = "delete_ref"
  BY <1>3, DropBranchType DEF Perform, Actors
<1>4. CASE w.op \in {"patch_closed", "merge"}
  BY <1>4, SettleType DEF Perform, ForgeTypeOK, branchVars, PullStates, Actors
<1>5. CASE w.op \in {"post_note", "add_labels"}
  <2>1. \A n \in DOMAIN pulls : pulls[n] \in Pulls
    BY SequenceDomain DEF ForgeTypeOK
  <2>2. w.env \in Models
    BY DEF Writes
  <2>3. \A n \in DOMAIN pulls : pulls'[n] \in Pulls
    BY <1>5, <2>1, <2>2 DEF Perform, Pulls
  <2>4. pulls' \in Seq(Pulls)
    BY <1>5, <2>3, RewriteType DEF Perform
  <2> QED BY <1>5, <2>4 DEF Perform, ForgeTypeOK, branchVars
<1> QED BY <1>1, <1>2, <1>3, <1>4, <1>5 DEF Writes, WriteOps

LEMMA HumanType ==
  ASSUME ForgeTypeOK, Human
  PROVE  ForgeTypeOK'
<1>1. CASE HumanPush
  BY <1>1, MoveBranchType DEF HumanPush
<1>2. CASE HumanDelete
  BY <1>2, DropBranchType DEF HumanDelete, Actors
<1>3. CASE HumanOpens
  BY <1>3, AppendType DEF HumanOpens, ForgeTypeOK, branchVars
<1>4. CASE HumanSettles
  <2>1. PICK state \in {"merged", "closed"} : pulls' = Settle(OpenPulls, state, "human")
    BY <1>4 DEF HumanSettles
  <2>2. pulls' \in Seq(Pulls)
    BY <2>1, SettleType DEF PullStates, Actors
  <2> QED BY <1>4, <2>2 DEF HumanSettles, ForgeTypeOK, branchVars
<1>5. CASE HumanBlocks
  BY <1>5 DEF HumanBlocks, ForgeTypeOK
<1> QED BY <1>1, <1>2, <1>3, <1>4, <1>5 DEF Human

-----------------------------------------------------------------------------
\* A pull request froot has merged stays as it is; a new one is the one an
\* accepted merge named, with the head that merge insisted on.
LEMMA MergedBySettle ==
  ASSUME ForgeTypeOK, NEW N, NEW state, NEW by,
         state # "merged" \/ by # "froot",
         pulls' = Settle(N, state, by)
  PROVE  /\ SettledByFroot("merged")' \subseteq SettledByFroot("merged")
         /\ \A n \in SettledByFroot("merged")' : pulls'[n].head = pulls[n].head
<1>1. \A n \in DOMAIN pulls : pulls[n] \in Pulls
  BY SequenceDomain DEF ForgeTypeOK
<1>2. DOMAIN pulls' = DOMAIN pulls
  BY DEF Settle
<1>3. \A n \in DOMAIN pulls :
        \/ pulls'[n] = pulls[n]
        \/ pulls'[n].state = state /\ pulls'[n].by = by
  BY <1>1 DEF Settle, Pulls
<1> QED BY <1>2, <1>3 DEF SettledByFroot

LEMMA MergedByMove ==
  ASSUME MoveBranch, ForgeTypeOK
  PROVE  /\ SettledByFroot("merged")' \subseteq SettledByFroot("merged")
         /\ \A n \in SettledByFroot("merged")' : pulls'[n].head = pulls[n].head
<1>1. \A n \in DOMAIN pulls : pulls[n] \in Pulls
  BY SequenceDomain DEF ForgeTypeOK
<1> QED BY <1>1 DEF MoveBranch, SettledByFroot, OpenPulls, Pulls

LEMMA MergedByAppend ==
  ASSUME ForgeTypeOK, pulls' = Append(pulls, NewPull(ref))
  PROVE  /\ SettledByFroot("merged")' \subseteq SettledByFroot("merged")
         /\ \A n \in SettledByFroot("merged")' : pulls'[n].head = pulls[n].head
<1>1. pulls \in Seq(Pulls) /\ DOMAIN pulls = 1..Len(pulls) /\ Len(pulls) \in Nat
  BY SequenceDomain DEF ForgeTypeOK
<1>2. NewPull(ref).state # "merged"
  BY DEF NewPull
<1>3. DOMAIN pulls' = 1..(Len(pulls) + 1)
  BY <1>1
<1>4. /\ \A n \in DOMAIN pulls : pulls'[n] = pulls[n]
      /\ pulls'[Len(pulls) + 1] = NewPull(ref)
  BY <1>1
<1> QED BY <1>1, <1>2, <1>3, <1>4 DEF SettledByFroot

LEMMA MergedByPerform ==
  ASSUME ForgeTypeOK, NEW w \in Writes, Accepts(w), Perform(w)
  PROVE  \A n \in SettledByFroot("merged")' :
           \/ n \in SettledByFroot("merged") /\ pulls'[n].head = pulls[n].head
           \/ w.op = "merge" /\ pulls'[n].head = w.pr.sha
<1>0. \A n \in DOMAIN pulls : pulls[n] \in Pulls
  BY SequenceDomain DEF ForgeTypeOK
<1>1. CASE w.op = "push"
  BY <1>1, MergedByMove DEF Perform
<1>2. CASE w.op = "post_pr"
  BY <1>2, MergedByAppend DEF Perform
<1>3. CASE w.op \in {"patch_closed", "delete_ref"}
  BY <1>3, MergedBySettle DEF Perform, DropBranch
<1>4. CASE w.op \in {"post_note", "add_labels"}
  BY <1>0, <1>4 DEF Perform, SettledByFroot, Pulls
<1>5. CASE w.op = "merge"
  <2>1. pulls[w.pr.number].head = w.pr.sha
    BY <1>5 DEF Accepts
  <2>2. pulls' = Settle({w.pr.number}, "merged", "froot")
    BY <1>5 DEF Perform
  <2>3. \A n \in DOMAIN pulls :
          /\ pulls'[n].head = pulls[n].head
          /\ n # w.pr.number => pulls'[n] = pulls[n]
    BY <1>0, <2>2 DEF Settle, Pulls
  <2>4. DOMAIN pulls' = DOMAIN pulls
    BY <2>2 DEF Settle
  <2> QED BY <1>5, <2>1, <2>3, <2>4 DEF SettledByFroot
<1> QED BY <1>1, <1>2, <1>3, <1>4, <1>5 DEF Writes, WriteOps

LEMMA MergedByHuman ==
  ASSUME ForgeTypeOK, Human
  PROVE  /\ SettledByFroot("merged")' \subseteq SettledByFroot("merged")
         /\ \A n \in SettledByFroot("merged")' : pulls'[n].head = pulls[n].head
<1>1. CASE HumanPush
  BY <1>1, MergedByMove DEF HumanPush
<1>2. CASE HumanDelete
  BY <1>2, MergedBySettle DEF HumanDelete, DropBranch
<1>3. CASE HumanOpens
  BY <1>3, MergedByAppend DEF HumanOpens
<1>4. CASE HumanSettles
  BY <1>4, MergedBySettle DEF HumanSettles
<1>5. CASE HumanBlocks
  BY <1>5 DEF HumanBlocks, SettledByFroot
<1> QED BY <1>1, <1>2, <1>3, <1>4, <1>5 DEF Human

-----------------------------------------------------------------------------
(* The workflow: the types in parts.                                       *)

Driver == phase \in Phases /\ transition \in Transitions /\ call \in Calls
          /\ tries \in 0..(MaxAttempts - 1)

\* The rest of the types: what only single actions touch.
Rest ==
  /\ elapsed \in 0..Deadline
  /\ eligible \in BOOLEAN
  /\ closeOnRed \in BOOLEAN /\ item \in Items
  /\ model \in Models 
  /\ inflight \subseteq Writes
  /\ faults \in 0..MaxFaults /\ moves \in 0..MaxMoves
  /\ approved \in BOOLEAN /\ greenRead \subseteq Nat
  /\ scars \subseteq Calls \X FaultKinds

LEMMA TypeParts == TypeOK <=> ForgeTypeOK /\ Driver /\ Rest
  BY DEF TypeOK, Driver, Rest

-----------------------------------------------------------------------------
(* The driver.                                                             *)

LEMMA FirstCallType ==
  ASSUME NEW effect \in Effects
  PROVE  FirstCall(effect) \in Calls
  BY DEF FirstCall, Effects, Calls, WriteOps, ReadCalls

\* An activity begins with one of its calls.
LEMMA FirstCallInStep ==
  ASSUME NEW state \in BumpStates
  PROVE  /\ EffectOf(state.kind) \in Effects
         /\ FirstCall(EffectOf(state.kind)) \in CallsOf(state.kind)
  BY StateShape DEF EffectOf, FirstCall, CallsOf, Effects

LEMMA StateType ==
  ASSUME Driver
  PROVE  State \in BumpStates
  BY DEF Driver, Transitions, State

\* The answer to the state's effect takes the driver, in step, to the next
\* state's activity or to the end.
LEMMA FeedInStep ==
  ASSUME Driver, InStep, Running, closeOnRed \in BOOLEAN, eligible \in BOOLEAN,
         NEW event \in Events, Answers(State, event), Feed(event)
  PROVE  Driver' /\ InStep'
<1> DEFINE t == Advance(State, event, closeOnRed, eligible)
<1>1. State \in BumpStates
  BY StateType
<1>2. t \in Transitions
  BY <1>1, AdvanceType
<1>3. /\ transition' = t /\ phase' = PhaseAfter(t) /\ tries' = 0
      /\ call' = IF PhaseAfter(t) = "running" THEN FirstCall(t.effects[1]) ELSE "none"
  BY DEF Feed
<1>4. 0 \in 0..(MaxAttempts - 1)
  BY BoundsAssumption
<1>5. CASE t.kind = "advanced" /\ t.effects = <<EffectOf(t.next.kind)>>
  <2>1. t.next \in BumpStates
    BY <1>2 DEF Transitions
  <2>2. PhaseAfter(t) = "running"
    BY <1>5 DEF PhaseAfter
  <2>3. call' = FirstCall(EffectOf(t.next.kind))
    BY <1>3, <1>5, <2>2
  <2>4. call' \in CallsOf(t.next.kind) /\ call' \in Calls
    BY <2>1, <2>3, FirstCallInStep, FirstCallType
  <2> QED BY <1>2, <1>3, <1>4, <1>5, <2>2, <2>4
             DEF Driver, InStep, MachineNeverRejects, State, Running, Phases
<1>6. CASE t.kind = "ignored" /\ t.effects = <<>> /\ t.next.kind = "recorded"
  <2>1. PhaseAfter(t) = "completed"
    BY <1>6 DEF PhaseAfter
  <2> QED BY <1>2, <1>3, <1>4, <1>6, <2>1
             DEF Driver, InStep, MachineNeverRejects, Running, Phases, Calls
<1> QED BY <1>1, <1>5, <1>6, AnswerMoves

LEMMA ContinueInStep ==
  ASSUME Driver, InStep, Running, NEW next \in CallsOf(State.kind), next \in Calls,
         Continue(next)
  PROVE  Driver' /\ InStep' /\ State' = State
  BY DEF Driver, InStep, MachineNeverRejects, Continue, Running, State

\* A failed attempt starts the same activity over, or ends the workflow.
LEMMA FailAttemptInStep ==
  ASSUME Driver, InStep, Running, FailAttempt
  PROVE  Driver' /\ InStep' /\ State' = State
<1>1. State \in BumpStates
  BY StateType
<1>2. /\ transition' = transition /\ State' = State
      /\ transition.kind # "rejected"
      /\ transition.effects = <<EffectOf(State.kind)>>
      /\ call \in CallsOf(State.kind)
  BY DEF FailAttempt, InStep, MachineNeverRejects, State
<1>3. FirstCall(transition.effects[1]) \in CallsOf(State.kind) \cap Calls
  BY <1>1, <1>2, FirstCallInStep, FirstCallType
<1>4. CASE tries + 1 < MaxAttempts
  <2>1. tries' \in 0..(MaxAttempts - 1) /\ phase' = "running"
    BY <1>4, BoundsAssumption DEF FailAttempt, Driver, Running
  <2>2. call' \in CallsOf(State.kind) \cap Calls
    BY <1>2, <1>3, <1>4, BoundsAssumption DEF FailAttempt, Driver
  <2> QED BY <1>2, <2>1, <2>2
             DEF Driver, InStep, MachineNeverRejects, Running, Phases
<1>5. CASE ~(tries + 1 < MaxAttempts)
  BY <1>2, <1>5 DEF FailAttempt, Driver, InStep, MachineNeverRejects, Running,
                    Phases, Calls
<1> QED BY <1>4, <1>5

\* Which activity the driver is in tells the state's kind.
LEMMA CallTellsKind ==
  ASSUME Driver, InStep, NEW c, At(c)
  PROVE  /\ Running /\ State \in BumpStates
         /\ c \in CallsOf(State.kind)
         /\ c \in {"auto_merge_eligible", "judge"} => State.kind = "discovered"
         /\ c \in {"find_open", "push", "post_pr", "find_conflicting"}
              => State.kind = "judged"
         /\ c \in {"check_ci", "sleep"} => State.kind = "awaiting_ci"
         /\ c \in {"find_note", "edit_note", "post_note", "patch_closed", "delete_ref"}
              => State.kind = "closing"
         /\ c = "gate_review" => State.kind = "gate_reviewing"
         /\ c = "merge" => State.kind = "merging"
         /\ c = "add_labels" => State.kind = "recorded"
<1>1. State \in BumpStates /\ c \in CallsOf(State.kind) /\ Running
  BY StateType DEF At, InStep, Running
<1> QED BY <1>1, StateShape DEF CallsOf

\* A write the driver sends, or leaves on its way, is a write.
LEMMA WriteType ==
  ASSUME Driver, model \in Models, NEW op \in WriteOps
  PROVE  Write(op) \in Writes
<1>1. State \in BumpStates
  BY StateType
<1>2. ActingPr \in PrRefs
  BY <1>1, StateShape DEF ActingPr, NoPr, PrRefs, Outcomes
<1> QED BY <1>2 DEF Write, Writes

-----------------------------------------------------------------------------
(* Greens and merges.                                                      *)

LEMMA VouchesKept ==
  ASSUME GreenVouches, State' = State, inflight' \subseteq inflight,
         greenRead \subseteq greenRead'
  PROVE  GreenVouches'
  BY DEF GreenVouches

\* A state that asks for a review or a merge carries the head the reading was
\* of.
LEMMA FeedVouches ==
  ASSUME Driver, GreenVouches, closeOnRed \in BOOLEAN, eligible \in BOOLEAN,
         NEW event \in Events, Answers(State, event), Feed(event),
         inflight' = inflight, greenRead \subseteq greenRead',
         State.kind = "awaiting_ci" /\ event.status = "passed"
           => State.pr.sha \in greenRead'
  PROVE  GreenVouches'
<1> DEFINE t == Advance(State, event, closeOnRed, eligible)
<1>1. State \in BumpStates
  BY StateType
<1>2. State' = t.next
  BY DEF Feed, State
<1>3. t.kind = "advanced" \/ t.next.kind = "recorded"
  BY <1>1, AnswerMoves
<1>4. t.kind = "advanced" =>
        /\ t.next.kind = "merging" =>
             State.kind = "gate_reviewing" /\ t.next.outcome = State.outcome
        /\ t.next.kind = "gate_reviewing" =>
             /\ State.kind = "awaiting_ci" /\ event.status = "passed"
             /\ t.next.outcome = [verdict |-> "clean", pr |-> State.pr, ci |-> "passed"]
  BY <1>1, MergeStandsOnFourLegs
<1>5. State'.kind = "merging" => State'.outcome.pr.sha \in greenRead'
  BY <1>2, <1>3, <1>4 DEF GreenVouches
<1>6. State'.kind = "gate_reviewing" => State'.outcome.pr.sha \in greenRead'
  BY <1>2, <1>3, <1>4
<1> QED BY <1>5, <1>6 DEF GreenVouches

LEMMA ForgeKept ==
  ASSUME ForgeTypeOK, MergesOnlyWhatCIPassed, UNCHANGED forgeVars,
         greenRead \subseteq greenRead'
  PROVE  ForgeTypeOK' /\ MergesOnlyWhatCIPassed'
  BY DEF ForgeTypeOK, MergesOnlyWhatCIPassed, SettledByFroot, forgeVars, branchVars

\* Whatever write reaches the forge, and whenever it does.
LEMMA PerformKeeps ==
  ASSUME ForgeTypeOK, MergesOnlyWhatCIPassed, NEW w \in Writes,
         Accepts(w), Perform(w), greenRead' = greenRead,
         w.op = "merge" => w.pr.sha \in greenRead
  PROVE  ForgeTypeOK' /\ MergesOnlyWhatCIPassed'
<1>1. ForgeTypeOK'
  BY PerformType
<1>2. \A n \in SettledByFroot("merged")' : pulls'[n].head \in greenRead'
  BY MergedByPerform DEF MergesOnlyWhatCIPassed
<1> QED BY <1>1, <1>2 DEF MergesOnlyWhatCIPassed

\* What the driver sends is vouched for.
LEMMA WriteVouched ==
  ASSUME Driver, InStep, GreenVouches, NEW op \in WriteOps, At(op)
  PROVE  Write(op).op = "merge" => Write(op).pr.sha \in greenRead
<1>1. op = "merge" => State.kind = "merging"
  BY CallTellsKind
<1>2. op = "merge" => ActingPr = State.outcome.pr
  BY <1>1, CallTellsKind, StateShape DEF ActingPr
<1> QED BY <1>1, <1>2 DEF Write, GreenVouches

LEMMA SentKeeps ==
  ASSUME MergeInductive, NEW op \in WriteOps, Sent(op), greenRead' = greenRead
  PROVE  ForgeTypeOK' /\ MergesOnlyWhatCIPassed'
<1>1. Driver /\ Rest /\ ForgeTypeOK /\ InStep /\ GreenVouches
  BY TypeParts DEF MergeInductive
<1>2. Write(op) \in Writes
  BY <1>1, WriteType DEF Rest
<1>3. Write(op).op = "merge" => Write(op).pr.sha \in greenRead
  BY <1>1, WriteVouched DEF Sent
<1> QED BY <1>1, <1>2, <1>3, PerformKeeps DEF Sent, MergeInductive

-----------------------------------------------------------------------------
(* The steps.                                                              *)

\* The four ways a call of the driver can end, each with what it leaves of
\* the invariant to show.
Answered(event) ==
  /\ event \in Events /\ Answers(State, event) /\ Feed(event)
  /\ State.kind = "awaiting_ci" /\ event.status = "passed"
       => State.pr.sha \in greenRead'

WentOn == \E next \in CallsOf(State.kind) \cap Calls : Continue(next)

LEMMA CallEnds ==
  ASSUME MergeInductive, Running,
         \/ \E event \in Events : Answered(event)
         \/ WentOn
         \/ FailAttempt,
         inflight' = inflight, greenRead \subseteq greenRead'
  PROVE  Driver' /\ InStep' /\ GreenVouches'
<1>1. /\ Driver /\ InStep /\ GreenVouches
      /\ closeOnRed \in BOOLEAN /\ eligible \in BOOLEAN
  BY TypeParts DEF MergeInductive, Rest
<1>2. CASE \E event \in Events : Answered(event)
  BY <1>1, <1>2, FeedInStep, FeedVouches DEF Answered
<1>3. CASE WentOn
  BY <1>1, <1>3, ContinueInStep, VouchesKept DEF WentOn
<1>4. CASE FailAttempt
  BY <1>1, <1>4, FailAttemptInStep, VouchesKept
<1> QED BY <1>2, <1>3, <1>4

\* The pull request is at hand: the answer to the judged state's effect.
LEMMA ReadyAnswers ==
  ASSUME NEW pr \in PrRefs, State.kind = "judged", Ready(pr)
  PROVE  \E event \in Events : Answered(event)
<1> DEFINE e == [kind |-> "pull_request_ready", pr |-> pr]
<1>1. e \in Events
  BY DEF Events
<1>2. Answers(State, e) /\ Feed(e)
  BY DEF Answers, AnswerTo, Ready
<1> QED BY <1>1, <1>2 DEF Answered

LEMMA OpenPullRef ==
  ASSUME ForgeTypeOK, NEW n \in OpenPulls
  PROVE  PullRequestRef(n) \in PrRefs
<1>1. n \in Nat /\ pulls[n] \in Pulls
  BY SequenceDomain DEF OpenPulls, ForgeTypeOK
<1> QED BY <1>1 DEF PullRequestRef, PrRefs, Pulls

\* An answer without a payload.
LEMMA PlainAnswers ==
  ASSUME NEW kind \in {"pull_request_merged", "pull_request_closed", "outcome_recorded"},
         kind = AnswerTo(State.kind), State.kind # "awaiting_ci",
         Feed([kind |-> kind])
  PROVE  \E event \in Events : Answered(event)
<1>1. [kind |-> kind] \in Events
  BY DEF Events
<1>2. Answers(State, [kind |-> kind])
  BY DEF Answers
<1> QED BY <1>1, <1>2 DEF Answered

LEMMA VerdictAnswers ==
  ASSUME NEW kind \in {"changelog_judged", "gate_reviewed"}, NEW v \in Verdicts,
         kind = AnswerTo(State.kind), State.kind # "awaiting_ci",
         Feed([kind |-> kind, verdict |-> v])
  PROVE  \E event \in Events : Answered(event)
<1>1. [kind |-> kind, verdict |-> v] \in Events
  BY DEF Events
<1>2. Answers(State, [kind |-> kind, verdict |-> v])
  BY DEF Answers
<1> QED BY <1>1, <1>2 DEF Answered

LEMMA ReadingAnswers ==
  ASSUME State.kind = "awaiting_ci", NEW status \in TerminalCI,
         Feed([kind |-> "ci_resolved", status |-> status]),
         status = "passed" => State.pr.sha \in greenRead'
  PROVE  \E event \in Events : Answered(event)
<1> DEFINE e == [kind |-> "ci_resolved", status |-> status]
<1>1. e \in Events
  BY DEF Events, CIStatus
<1>2. Answers(State, e)
  BY DEF Answers, AnswerTo
<1> QED BY <1>1, <1>2 DEF Answered

\* The two moves of a call that are neither an answer nor a failure of it
\* reset the attempts.
LEMMA FreshCall ==
  ASSUME Driver, InStep, Running, NEW next \in CallsOf(State.kind), next \in Calls,
         call' = next, tries' = 0, UNCHANGED <<phase, transition>>
  PROVE  Driver' /\ InStep' /\ State' = State
<1>1. 0 \in 0..(MaxAttempts - 1)
  BY BoundsAssumption
<1> QED BY <1>1 DEF Driver, InStep, MachineNeverRejects, Running, State

-----------------------------------------------------------------------------
(* The calls that read or compute leave the forge alone.                   *)

LEMMA ReadCallsKeep ==
  ASSUME MergeInductive,
         \/ AutoMergeEligible \/ JudgeChangelog \/ FindOpenPullRequest
         \/ FindConflicting \/ CheckCi \/ Sleep \/ FindNote \/ EditNote
         \/ GateReview
  PROVE  MergeInductive'
<1> USE DEF MergeInductive
<1>0. Driver /\ Rest /\ ForgeTypeOK
  BY TypeParts
<1>1. Running
  BY DEF AutoMergeEligible, JudgeChangelog, FindOpenPullRequest, FindConflicting,
         CheckCi, Sleep, FindNote, EditNote, GateReview, At, Running
<1>2. UNCHANGED forgeVars /\ UNCHANGED inflight
  BY DEF AutoMergeEligible, JudgeChangelog, FindOpenPullRequest, FindConflicting,
         CheckCi, Sleep, FindNote, EditNote, GateReview, Untouched
<1>3. greenRead \subseteq greenRead'
  BY DEF AutoMergeEligible, JudgeChangelog, FindOpenPullRequest, FindConflicting,
         CheckCi, Sleep, FindNote, EditNote, GateReview
<1>4. ForgeTypeOK' /\ MergesOnlyWhatCIPassed'
  BY <1>0, <1>2, <1>3, ForgeKept
<1>5. ASSUME Driver' /\ InStep' /\ GreenVouches', Rest'
      PROVE  MergeInductive'
  BY <1>4, <1>5, TypeParts DEF TypeOK, Driver, Rest
<1>6. CASE AutoMergeEligible
  <2>1. State.kind = "discovered" /\ State \in BumpStates
    BY <1>0, <1>6, CallTellsKind DEF AutoMergeEligible
  <2>2. transition.effects[1] = EffectOf("discovered")
    BY <1>1, <2>1 DEF InStep
  <2>3. call' \in CallsOf(State.kind) /\ call' \in Calls
    BY <1>6, <2>1, <2>2, FirstCallInStep, FirstCallType DEF AutoMergeEligible
  <2>4. Driver' /\ InStep' /\ State' = State
    BY <1>0, <1>1, <1>6, <2>3, FreshCall DEF AutoMergeEligible
  <2>5. GreenVouches'
    BY <1>2, <1>3, <2>4, VouchesKept
  <2>6. Rest'
    BY <1>0, <1>6 DEF AutoMergeEligible, Untouched, pinnedVars, budgetVars, Rest
  <2> QED BY <1>5, <2>4, <2>5, <2>6
<1>7. CASE JudgeChangelog
  <2>1. State.kind = "discovered"
    BY <1>0, <1>7, CallTellsKind DEF JudgeChangelog
  <2>2. \E event \in Events : Answered(event)
    BY <1>7, <2>1, VerdictAnswers DEF JudgeChangelog, AnswerTo, Verdicts
  <2>3. Rest'
    BY <1>0, <1>7 DEF JudgeChangelog, Untouched, pinnedVars, budgetVars, Rest
  <2> QED BY <1>1, <1>2, <1>3, <1>5, <2>2, <2>3, CallEnds
<1>8. CASE FindOpenPullRequest \/ FindConflicting
  <2>1. State.kind = "judged" /\ {"push", "post_pr"} \subseteq CallsOf(State.kind) \cap Calls
    BY <1>0, <1>8, CallTellsKind
       DEF FindOpenPullRequest, FindConflicting, CallsOf, Calls, WriteOps
  <2>2. \/ \E event \in Events : Answered(event)
        \/ WentOn \/ FailAttempt
    BY <1>0, <1>8, <2>1, OpenPullRef, ReadyAnswers
       DEF FindOpenPullRequest, FindConflicting, WentOn
  <2>3. Rest'
    BY <1>0, <1>8
       DEF FindOpenPullRequest, FindConflicting, Ready, Feed, Untouched, pinnedVars, budgetVars, Rest
  <2> QED BY <1>1, <1>2, <1>3, <1>5, <2>2, <2>3, CallEnds
<1>9. CASE CheckCi
  <2>1. State.kind = "awaiting_ci" /\ State \in BumpStates
    BY <1>0, <1>9, CallTellsKind DEF CheckCi
  <2>2. PICK status \in CIStatus \ {"timed_out"} :
          /\ greenRead' = IF status = "passed" THEN greenRead \cup {State.pr.sha}
                          ELSE greenRead
          /\ elapsed' \in elapsed..Deadline
          /\ \/ /\ status # "pending"
                /\ Feed([kind |-> "ci_resolved", status |-> status])
             \/ /\ status = "pending" /\ elapsed' >= Deadline
                /\ Feed([kind |-> "ci_resolved", status |-> "timed_out"])
             \/ /\ status = "pending" /\ elapsed' < Deadline
                /\ call' = "sleep" /\ tries' = 0
                /\ UNCHANGED <<phase, transition>>
    BY <1>9 DEF CheckCi
  <2>3. Rest'
    <3>1. State.pr.sha \in Nat
      BY <2>1, StateShape DEF AwaitingCi, PrRefs
    <3>2. greenRead' \subseteq Nat
      <4>1. greenRead \subseteq Nat
        BY <1>0 DEF Rest
      <4> QED BY <2>2, <3>1, <4>1
    <3>3. elapsed' \in 0..Deadline
      BY <1>0, <2>2, BoundsAssumption DEF Rest
    <3> QED BY <1>0, <1>9, <3>2, <3>3 DEF CheckCi, Untouched, pinnedVars, budgetVars, Rest
  <2>4. CASE status # "pending" /\ Feed([kind |-> "ci_resolved", status |-> status])
    <3>1. \E event \in Events : Answered(event)
      BY <2>1, <2>2, <2>4, ReadingAnswers DEF CIStatus
    <3> QED BY <1>1, <1>2, <1>3, <1>5, <2>3, <3>1, CallEnds
  <2>5. CASE Feed([kind |-> "ci_resolved", status |-> "timed_out"])
    <3>1. \E event \in Events : Answered(event)
      BY <2>1, <2>5, ReadingAnswers DEF TerminalCI
    <3> QED BY <1>1, <1>2, <1>3, <1>5, <2>3, <3>1, CallEnds
  <2>6. CASE /\ call' = "sleep" /\ tries' = 0
             /\ UNCHANGED <<phase, transition>>
    <3>1. "sleep" \in CallsOf(State.kind) /\ "sleep" \in Calls
      BY <2>1 DEF CallsOf, Calls
    <3>2. Driver' /\ InStep' /\ State' = State
      BY <1>0, <1>1, <2>6, <3>1, FreshCall
    <3>3. GreenVouches'
      BY <1>2, <1>3, <3>2, VouchesKept
    <3> QED BY <1>5, <2>3, <3>2, <3>3
  <2> QED BY <2>2, <2>4, <2>5, <2>6
<1>10. CASE Sleep
  <2>1. "check_ci" \in CallsOf(State.kind) \cap Calls
    BY <1>0, <1>10, CallTellsKind DEF Sleep, CallsOf, Calls, ReadCalls
  <2>2. elapsed' \in 0..Deadline
    BY <1>0, <1>10, BoundsAssumption DEF Sleep, Rest
  <2>3. Rest'
    BY <1>0, <1>10, <2>2 DEF Sleep, Untouched, pinnedVars, budgetVars, Rest
  <2>4. WentOn
    BY <1>10, <2>1 DEF Sleep, WentOn
  <2> QED BY <1>1, <1>2, <1>3, <1>5, <2>3, <2>4, CallEnds
<1>11. CASE FindNote \/ EditNote
  <2>1. {"edit_note", "post_note", "patch_closed"} \subseteq CallsOf(State.kind) \cap Calls
    BY <1>0, <1>11, CallTellsKind
       DEF FindNote, EditNote, CallsOf, Calls, ReadCalls, WriteOps
  <2>2. WentOn
    BY <1>11, <2>1 DEF FindNote, EditNote, WentOn
  <2>3. Rest'
    BY <1>0, <1>11 DEF FindNote, EditNote, Untouched, pinnedVars, budgetVars, Rest
  <2> QED BY <1>1, <1>2, <1>3, <1>5, <2>2, <2>3, CallEnds
<1>12. CASE GateReview
  <2>1. State.kind = "gate_reviewing"
    BY <1>0, <1>12, CallTellsKind DEF GateReview
  <2>2. \E event \in Events : Answered(event)
    BY <1>12, <2>1, VerdictAnswers DEF GateReview, AnswerTo
  <2>3. Rest'
    BY <1>0, <1>12 DEF GateReview, Untouched, pinnedVars, budgetVars, Rest
  <2> QED BY <1>1, <1>2, <1>3, <1>5, <2>2, <2>3, CallEnds
<1> QED BY <1>6, <1>7, <1>8, <1>9, <1>10, <1>11, <1>12

-----------------------------------------------------------------------------
(* The calls that write: what the forge does is PerformKeeps, or nothing.  *)

LEMMA WriteCallsKeep ==
  ASSUME MergeInductive,
         \/ PushBranch \/ OpenPullRequest \/ ClosePullRequest
         \/ MergePullRequest \/ RecordOutcome
  PROVE  MergeInductive'
<1> USE DEF MergeInductive
<1>0. Driver /\ Rest /\ ForgeTypeOK
  BY TypeParts
<1>1. /\ UNCHANGED <<elapsed, eligible, approved, greenRead>>
      /\ Untouched
  BY DEF PushBranch, OpenPullRequest, ClosePullRequest, MergePullRequest,
         RecordOutcome
<1>2. \/ \E op \in WriteOps : Sent(op)
      \/ UNCHANGED forgeVars
  BY DEF PushBranch, OpenPullRequest, ClosePullRequest, PostNote, PatchClosed,
         DeleteRef, MergePullRequest, RecordOutcome, Refused, WriteOps
<1>3. ForgeTypeOK' /\ MergesOnlyWhatCIPassed'
  BY <1>0, <1>1, <1>2, SentKeeps, ForgeKept
<1>4. Running
  BY DEF PushBranch, OpenPullRequest, ClosePullRequest, PostNote, PatchClosed,
         DeleteRef, MergePullRequest, RecordOutcome, Sent, Refused, At, Running
<1>6. Rest'
  BY <1>0, <1>1 DEF Untouched, pinnedVars, budgetVars, Rest
<1>7. \/ \E event \in Events : Answered(event)
      \/ WentOn \/ FailAttempt
  <2>1. CASE PushBranch
    <3>1. "post_pr" \in CallsOf(State.kind) \cap Calls \/ FailAttempt
      BY <1>0, <2>1, CallTellsKind
         DEF PushBranch, Sent, CallsOf, Calls, WriteOps
    <3> QED BY <2>1, <3>1 DEF PushBranch, WentOn
  <2>2. CASE OpenPullRequest
    <3>1. State.kind = "judged"
      BY <1>0, <2>2, CallTellsKind DEF OpenPullRequest, Sent, Refused
    <3>2. "find_conflicting" \in CallsOf(State.kind) \cap Calls
      BY <3>1 DEF CallsOf, Calls, ReadCalls
    <3>3. [number |-> Len(pulls) + 1, sha |-> ref] \in PrRefs
      BY <1>0, SequenceDomain DEF PrRefs, ForgeTypeOK
    <3> QED BY <2>2, <3>1, <3>2, <3>3, ReadyAnswers DEF OpenPullRequest, WentOn
  <2>3. CASE PostNote \/ PatchClosed
    <3>1. {"patch_closed", "delete_ref"} \subseteq CallsOf(State.kind) \cap Calls
      BY <1>0, <2>3, CallTellsKind
         DEF PostNote, PatchClosed, Sent, CallsOf, Calls, WriteOps
    <3> QED BY <2>3, <3>1 DEF PostNote, PatchClosed, WentOn
  <2>4. CASE DeleteRef
    BY <1>0, <2>4, CallTellsKind, PlainAnswers DEF DeleteRef, Sent, AnswerTo
  <2>5. CASE MergePullRequest
    BY <1>0, <2>5, CallTellsKind, PlainAnswers
       DEF MergePullRequest, Sent, Refused, AnswerTo
  <2>6. CASE RecordOutcome
    BY <1>0, <2>6, CallTellsKind, PlainAnswers DEF RecordOutcome, Sent, AnswerTo
  <2> QED BY <2>1, <2>2, <2>3, <2>4, <2>5, <2>6 DEF ClosePullRequest
<1>8. Driver' /\ InStep' /\ GreenVouches'
  BY <1>1, <1>4, <1>7, CallEnds DEF Untouched
<1> QED BY <1>3, <1>6, <1>8, TypeParts DEF TypeOK, Driver, Rest

-----------------------------------------------------------------------------
(* Faults, late writes, people and the operator.                           *)

\* A fault spends one of the budget and leaves a scar.
LEMMA HitKeeps ==
  ASSUME Driver, Rest, NEW kind, Hit(kind), inflight' \subseteq Writes
  PROVE  Rest'
<1>1. call \in Calls /\ kind \in FaultKinds /\ faults' \in 0..MaxFaults
  BY BoundsAssumption DEF Hit, Driver, Rest
<1>2. scars' \subseteq Calls \X FaultKinds
  BY <1>1 DEF Hit, Rest
<1> QED BY <1>1, <1>2 DEF Hit, pinnedVars, Rest

LEMMA FaultsKeep ==
  ASSUME MergeInductive, Lost \/ Unheard \/ Late \/ Denied
  PROVE  MergeInductive'
<1> USE DEF MergeInductive
<1>0. Driver /\ Rest /\ ForgeTypeOK
  BY TypeParts
<1>1. Running /\ greenRead' = greenRead
  BY DEF Lost, Unheard, Late, Denied, Hit
<1>2. ASSUME NEW op \in WriteOps, inflight' = inflight \cup {Write(op)}, At(op)
      PROVE  /\ inflight' \subseteq Writes
             /\ State' = State => GreenVouches'
  <2>1. Write(op) \in Writes
    BY <1>0, WriteType DEF Rest
  <2>2. Write(op).op = "merge" => Write(op).pr.sha \in greenRead
    BY <1>0, <1>2, WriteVouched
  <2>3. inflight' \subseteq Writes
    BY <1>0, <1>2, <2>1 DEF Rest
  <2>4. \A w \in inflight' : w.op = "merge" => w.pr.sha \in greenRead'
    BY <1>1, <1>2, <2>2 DEF GreenVouches
  <2> QED BY <1>1, <2>3, <2>4 DEF GreenVouches
<1>3. inflight' \subseteq Writes
  BY <1>0, <1>2 DEF Lost, Unheard, Late, Denied, Leaves, Rest
<1>4. Rest'
  BY <1>0, <1>3, HitKeeps DEF Lost, Unheard, Late, Denied
<1>5. ForgeTypeOK' /\ MergesOnlyWhatCIPassed'
  <2>1. CASE Unheard
    BY <1>1, <2>1, SentKeeps DEF Unheard
  <2>2. CASE UNCHANGED forgeVars
    BY <1>0, <1>1, <2>2, ForgeKept
  <2> QED BY <2>1, <2>2 DEF Lost, Late, Denied
<1>6. Driver' /\ InStep' /\ State' = State
  <2>1. CASE Denied
    BY <1>0, <2>1 DEF Denied, Driver, InStep, MachineNeverRejects, Running,
                      State, Phases, Calls
  <2>2. CASE Lost \/ Unheard \/ Late
    BY <1>0, <1>1, <2>2, FailAttemptInStep DEF Lost, Unheard, Late
  <2> QED BY <2>1, <2>2
<1>7. GreenVouches'
  <2>1. CASE Late
    BY <1>2, <1>6, <2>1 DEF Late, Leaves
  <2>2. CASE Lost \/ Unheard \/ Denied
    BY <1>1, <1>6, <2>2, VouchesKept DEF Lost, Unheard, Denied
  <2> QED BY <2>1, <2>2
<1> QED BY <1>4, <1>5, <1>6, <1>7, TypeParts DEF TypeOK, Driver, Rest

\* Neither a write that arrives late nor anything outside the workflow moves
\* the driver.
LEMMA OutsideKeeps ==
  ASSUME MergeInductive, Land \/ HumanMove \/ ChangeModel
  PROVE  MergeInductive'
<1> USE DEF MergeInductive
<1>0. Driver /\ Rest /\ ForgeTypeOK
  BY TypeParts
<1>1. /\ UNCHANGED driverVars /\ UNCHANGED historyVars
      /\ UNCHANGED <<elapsed, eligible, pinnedVars>>
      /\ inflight' \subseteq inflight
  BY DEF Land, HumanMove, ChangeModel
<1>2. Driver' /\ InStep' /\ State' = State
  BY <1>0, <1>1 DEF driverVars, Driver, InStep, MachineNeverRejects, State, Running
<1>3. GreenVouches'
  BY <1>1, <1>2, VouchesKept DEF historyVars
<1>4. moves' \in 0..MaxMoves /\ faults' \in 0..MaxFaults /\ model' \in Models
  BY <1>0, BoundsAssumption DEF Land, HumanMove, ChangeModel, budgetVars, Rest
<1>5. Rest'
  BY <1>0, <1>1, <1>4 DEF historyVars, pinnedVars, Rest
<1>6. ForgeTypeOK' /\ MergesOnlyWhatCIPassed'
  <2>1. CASE Land
    <3>1. PICK w \in inflight : IF Accepts(w) THEN Perform(w) ELSE UNCHANGED forgeVars
      BY <2>1 DEF Land
    <3>2. w \in Writes /\ (w.op = "merge" => w.pr.sha \in greenRead)
      BY <1>0, <3>1 DEF Rest, GreenVouches
    <3> QED BY <1>0, <1>1, <3>1, <3>2, PerformKeeps, ForgeKept DEF historyVars
  <2>2. CASE HumanMove
    <3>1. ForgeTypeOK'
      BY <1>0, <2>2, HumanType DEF HumanMove
    <3> QED BY <1>0, <1>1, <2>2, <3>1, MergedByHuman
               DEF HumanMove, MergesOnlyWhatCIPassed, historyVars
  <2>3. CASE ChangeModel
    BY <1>0, <1>1, <2>3, ForgeKept DEF ChangeModel, historyVars
  <2> QED BY <2>1, <2>2, <2>3
<1> QED BY <1>2, <1>3, <1>5, <1>6, TypeParts DEF TypeOK, Driver, Rest

-----------------------------------------------------------------------------
LEMMA InitHolds == Init => MergeInductive
<1> SUFFICES ASSUME Init PROVE MergeInductive
  OBVIOUS
<1>1. transition = Start /\ phase = "running" /\ call = "auto_merge_eligible"
  BY DEF Init
<1>2. Start \in Transitions /\ Start.kind = "advanced"
      /\ Start.effects = <<"judge_changelog">> /\ Start.next.kind = "discovered"
  BY DEF Start, Advanced, Transitions, BumpStates, Discovered, Effects
<1>3. InStep
  BY <1>1, <1>2 DEF InStep, MachineNeverRejects, State, EffectOf, CallsOf
<1>4. ForgeTypeOK
  <2>1. blocked \in BOOLEAN
    BY Zenon DEF Init, ForgeInit
  <2>2. commits \in Nat /\ ref \in 0..commits /\ pulls \in Seq(Pulls)
    BY DEF Init, ForgeInit
  <2> QED BY <2>1, <2>2 DEF ForgeTypeOK
<1>5. Driver
  BY <1>1, <1>2, BoundsAssumption DEF Init, Driver, Phases, Calls, ReadCalls
<1>8. Rest
  <2>1. /\ elapsed \in 0..Deadline
        /\ faults \in 0..MaxFaults /\ moves \in 0..MaxMoves
    BY BoundsAssumption DEF Init
  <2>2. /\ eligible \in BOOLEAN /\ approved \in BOOLEAN
        /\ closeOnRed \in BOOLEAN /\ item \in Items
    BY Zenon DEF Init
  <2>3. model \in Models 
    BY DEF Init
  <2>4. inflight \subseteq Writes /\ greenRead \subseteq Nat /\ scars \subseteq Calls \X FaultKinds
    BY DEF Init
  <2> QED BY <2>1, <2>2, <2>3, <2>4 DEF Rest
<1>6. GreenVouches
  BY <1>1, <1>2 DEF Init, GreenVouches, State
<1>7. SettledByFroot("merged") = {}
  BY DEF Init, ForgeInit, SettledByFroot
<1> QED BY <1>3, <1>4, <1>5, <1>6, <1>7, <1>8, TypeParts
           DEF MergeInductive, MergesOnlyWhatCIPassed

LEMMA StutterKeeps ==
  ASSUME MergeInductive, UNCHANGED vars
  PROVE  MergeInductive'
<1> USE DEF MergeInductive
<1>1. /\ UNCHANGED driverVars /\ UNCHANGED historyVars /\ UNCHANGED forgeVars
      /\ UNCHANGED <<elapsed, eligible, pinnedVars, model, inflight, budgetVars>>
  BY DEF vars
<1>2. Driver /\ Rest /\ ForgeTypeOK
  BY TypeParts
<1>3. Driver' /\ InStep' /\ State' = State
  BY <1>1, <1>2 DEF driverVars, Driver, InStep, MachineNeverRejects, State, Running
<1>4. GreenVouches'
  BY <1>1, <1>3, VouchesKept DEF historyVars
<1>5. Rest'
  BY <1>1, <1>2 DEF historyVars, pinnedVars, budgetVars, Rest
<1>6. ForgeTypeOK' /\ MergesOnlyWhatCIPassed'
  BY <1>1, <1>2, ForgeKept DEF historyVars
<1> QED BY <1>3, <1>4, <1>5, <1>6, TypeParts DEF TypeOK, Driver, Rest

\* The invariant is inductive: it holds of every reachable state, for every
\* number of attempts, faults, moves and models.
THEOREM MergeInductiveHolds == Spec => []MergeInductive
<1>1. MergeInductive /\ [Next]_vars => MergeInductive'
  <2> SUFFICES ASSUME MergeInductive, [Next]_vars PROVE MergeInductive'
    OBVIOUS
  <2>1. CASE Step
    BY <2>1, ReadCallsKeep, WriteCallsKeep DEF Step
  <2>2. CASE Lost \/ Unheard \/ Late \/ Denied
    BY <2>2, FaultsKeep
  <2>3. CASE Land \/ HumanMove \/ ChangeModel
    BY <2>3, OutsideKeeps
  <2>4. CASE UNCHANGED vars
    BY <2>4, StutterKeeps
  <2> QED BY <2>1, <2>2, <2>3, <2>4 DEF Next
<1> QED BY <1>1, InitHolds, PTL DEF Spec

\* Type correctness of the workflow, its history and the forge.
THEOREM TypeCorrect == Spec => []TypeOK
<1>1. MergeInductive => TypeOK
  BY DEF MergeInductive
<1> QED BY <1>1, MergeInductiveHolds, PTL

\* No bump ever fails on its own transition: whatever is retried or refused,
\* the event the driver feeds is the one the state waits for.
THEOREM DriverInStep == Spec => []MachineNeverRejects
<1>1. MergeInductive => MachineNeverRejects
  BY DEF MergeInductive, InStep
<1> QED BY <1>1, MergeInductiveHolds, PTL

\* What froot merges is a commit whose CI it read as passed, however its
\* requests are lost, repeated or late and whatever people do to the branch.
THEOREM MergesAreGreen == Spec => []MergesOnlyWhatCIPassed
<1>1. MergeInductive => MergesOnlyWhatCIPassed
  BY DEF MergeInductive
<1> QED BY <1>1, MergeInductiveHolds, PTL

-----------------------------------------------------------------------------
(* The workflow implements BumpPromise, as far as safety goes: every step  *)
(* of BumpWorkflow is a step of the promise or leaves stage, evidence and  *)
(* deed alone.                                                             *)

Merged == SettledByFroot("merged")
Closed == SettledByFroot("closed")

\* On what froot merges, and on what it closes; never both.
MergeFacts ==
  /\ Acting /\ State.outcome.ci = "passed" /\ State.outcome.verdict = "clean"
  /\ eligible /\ approved
CloseFacts == Acting /\ State.outcome.ci = "failed" /\ closeOnRed

WriteBacked(w) ==
  /\ w.op = "merge" => MergeFacts
  /\ w.op \in {"patch_closed", "delete_ref"} => CloseFacts

\* What every state of the driver has established, and what stands behind each
\* deed, done or on its way.
Backed ==
  /\ State.kind = "merging" => MergeFacts
  /\ State.kind = "closing" => CloseFacts
  /\ State.kind = "gate_reviewing" =>
       ~approved /\ eligible /\ State.outcome.verdict = "clean" /\ State.outcome.ci = "passed"
  /\ approved => MergeFacts /\ (State.kind = "merging" \/ Merged # {})
  /\ call = "auto_merge_eligible" => ~eligible
  /\ \A w \in inflight : WriteBacked(w)
  /\ Merged # {} => MergeFacts
  /\ Closed # {} => CloseFacts

PromiseInductive == MergeInductive /\ Backed

PromiseStep == Promise!Next \/ UNCHANGED <<Stage, Evidence, Deed>>

-----------------------------------------------------------------------------
(* The promise's view of a state.                                          *)

LEMMA ActingKinds ==
  ASSUME Driver
  PROVE  /\ State \in BumpStates
         /\ Acting <=> State.kind \in {"closing", "gate_reviewing", "merging", "recorded"}
  BY StateType, StateShape DEF Acting

LEMMA VerdictField ==
  ASSUME NEW state \in BumpStates
  PROVE  "verdict" \in DOMAIN state <=> state.kind \in {"judged", "awaiting_ci"}
  BY DEF BumpStates, Discovered, Judged, AwaitingCi, Carrying

LEMMA StageIs ==
  ASSUME Driver
  PROVE  /\ phase = "failed" => Stage = "gave_up"
         /\ phase = "completed" => Stage = "recorded"
         /\ Running /\ Acting => Stage = "resolved"
         /\ Running /\ State.kind = "awaiting_ci" => Stage = "proposed"
         /\ Running /\ State.kind \in {"discovered", "judged"} => Stage = "deciding"
<1>1. /\ phase \in {"running", "completed", "failed"}
      /\ Acting <=> State.kind \in {"closing", "gate_reviewing", "merging", "recorded"}
  BY ActingKinds DEF Driver, Phases
<1> QED BY <1>1 DEF Stage, Running

LEMMA StageWillBe ==
  ASSUME Driver'
  PROVE  /\ Acting' <=> State'.kind \in {"closing", "gate_reviewing", "merging", "recorded"}
         /\ phase' = "failed" => Stage' = "gave_up"
         /\ phase' = "completed" => Stage' = "recorded"
         /\ phase' = "running" /\ Acting' => Stage' = "resolved"
         /\ phase' = "running" /\ State'.kind = "awaiting_ci" => Stage' = "proposed"
         /\ phase' = "running" /\ State'.kind \in {"discovered", "judged"} => Stage' = "deciding"
<1>1. State' \in BumpStates
  BY DEF Driver, Transitions, State
<1>2. /\ phase' \in {"running", "completed", "failed"}
      /\ Acting' <=> State'.kind \in {"closing", "gate_reviewing", "merging", "recorded"}
  BY <1>1, StateShape DEF Acting, Driver, Phases
<1> QED BY <1>2 DEF Stage, Running

LEMMA EvidenceIs ==
  /\ Evidence \subseteq {"close_on_red", "earned", "clean", "green", "red", "approved"}
  /\ "close_on_red" \in Evidence <=> closeOnRed
  /\ "earned" \in Evidence <=> eligible
  /\ "clean" \in Evidence <=> Verdict = "clean"
  /\ "green" \in Evidence <=> Acting /\ State.outcome.ci = "passed"
  /\ "red" \in Evidence <=> Acting /\ State.outcome.ci = "failed"
  /\ "approved" \in Evidence <=> approved
  BY Zenon DEF Evidence

LEMMA EvidenceWillBe ==
  /\ Evidence' \subseteq {"close_on_red", "earned", "clean", "green", "red", "approved"}
  /\ "close_on_red" \in Evidence' <=> closeOnRed'
  /\ "earned" \in Evidence' <=> eligible'
  /\ "clean" \in Evidence' <=> Verdict' = "clean"
  /\ "green" \in Evidence' <=> Acting' /\ State'.outcome.ci = "passed"
  /\ "red" \in Evidence' <=> Acting' /\ State'.outcome.ci = "failed"
  /\ "approved" \in Evidence' <=> approved'
  BY Zenon DEF Evidence

LEMMA DeedIs ==
  /\ Merged # {} => Deed = "merged"
  /\ Merged = {} /\ Closed # {} => Deed = "closed"
  /\ Merged = {} /\ Closed = {} => Deed = "none"
  BY DEF Deed, Merged, Closed

LEMMA DeedWillBe ==
  /\ Merged' # {} => Deed' = "merged"
  /\ Merged' = {} /\ Closed' # {} => Deed' = "closed"
  /\ Merged' = {} /\ Closed' = {} => Deed' = "none"
  BY DEF Deed, Merged, Closed

LEMMA Exclusive == ~(MergeFacts /\ CloseFacts)
  BY DEF MergeFacts, CloseFacts

\* Four facts for a merge, two for a close.
LEMMA FactsAreEvidence ==
  /\ MergeFacts => Promise!MergeEvidence \subseteq Evidence
  /\ CloseFacts => Promise!CloseEvidence \subseteq Evidence
<1>1. Acting => Verdict = State.outcome.verdict
  BY DEF Verdict
<1> QED BY <1>1, EvidenceIs DEF MergeFacts, CloseFacts, Promise!MergeEvidence, Promise!CloseEvidence

-----------------------------------------------------------------------------
(* What a pull request froot has settled stays.                            *)

SettledStay == Merged \subseteq Merged' /\ Closed \subseteq Closed'

LEMMA PullsAre ==
  ASSUME ForgeTypeOK
  PROVE  /\ Len(pulls) \in Nat /\ DOMAIN pulls = 1..Len(pulls)
         /\ \A n \in DOMAIN pulls : pulls[n] \in Pulls
  BY SequenceDomain DEF ForgeTypeOK

LEMMA SettleKeepsSettled ==
  ASSUME ForgeTypeOK, NEW N, NEW state, NEW by, pulls' = Settle(N, state, by)
  PROVE  /\ SettledStay
         /\ Merged' # Merged => state = "merged" /\ by = "froot"
         /\ Closed' # Closed => state = "closed" /\ by = "froot"
<1>1. /\ DOMAIN pulls' = DOMAIN pulls
      /\ \A n \in DOMAIN pulls :
           \/ pulls'[n] = pulls[n]
           \/ /\ pulls[n].state = "open"
              /\ pulls'[n].state = state /\ pulls'[n].by = by
  BY PullsAre DEF Settle, OpenPulls, Pulls
<1>2. SettledStay
  BY <1>1 DEF SettledStay, Merged, Closed, SettledByFroot
<1>3. Merged' # Merged => state = "merged" /\ by = "froot"
  BY <1>1, <1>2 DEF SettledStay, Merged, SettledByFroot
<1>4. Closed' # Closed => state = "closed" /\ by = "froot"
  BY <1>1, <1>2 DEF SettledStay, Closed, SettledByFroot
<1> QED BY <1>2, <1>3, <1>4

LEMMA MoveKeepsSettled ==
  ASSUME ForgeTypeOK, MoveBranch
  PROVE  Merged' = Merged /\ Closed' = Closed
  BY PullsAre DEF MoveBranch, OpenPulls, Pulls, Merged, Closed, SettledByFroot

LEMMA AppendKeepsSettled ==
  ASSUME ForgeTypeOK, pulls' = Append(pulls, NewPull(ref))
  PROVE  Merged' = Merged /\ Closed' = Closed
<1>1. /\ DOMAIN pulls' = DOMAIN pulls \cup {Len(pulls) + 1}
      /\ \A n \in DOMAIN pulls : pulls'[n] = pulls[n]
      /\ pulls'[Len(pulls) + 1] = NewPull(ref)
  BY PullsAre DEF ForgeTypeOK
<1>2. NewPull(ref).by = "nobody"
  BY DEF NewPull
<1> QED BY <1>1, <1>2 DEF Merged, Closed, SettledByFroot

LEMMA WriteKeepsSettled ==
  ASSUME ForgeTypeOK, NEW w \in Writes, Perform(w)
  PROVE  /\ SettledStay
         /\ Merged' # Merged => w.op = "merge"
         /\ Closed' # Closed => w.op \in {"patch_closed", "delete_ref"}
<1>1. CASE w.op = "push"
  BY <1>1, MoveKeepsSettled DEF Perform, SettledStay
<1>2. CASE w.op = "post_pr"
  BY <1>2, AppendKeepsSettled DEF Perform, SettledStay
<1>3. CASE w.op \in {"patch_closed", "delete_ref", "merge"}
  BY <1>3, SettleKeepsSettled DEF Perform, DropBranch
<1>4. CASE w.op \in {"post_note", "add_labels"}
  <2>1. /\ DOMAIN pulls' = DOMAIN pulls
        /\ \A n \in DOMAIN pulls : pulls'[n].state = pulls[n].state /\ pulls'[n].by = pulls[n].by
    BY <1>4, PullsAre DEF Perform, Pulls
  <2> QED BY <2>1 DEF SettledStay, Merged, Closed, SettledByFroot
<1> QED BY <1>1, <1>2, <1>3, <1>4 DEF Writes, WriteOps

LEMMA PeopleKeepSettled ==
  ASSUME ForgeTypeOK, Human
  PROVE  Merged' = Merged /\ Closed' = Closed
<1>1. CASE HumanPush
  BY <1>1, MoveKeepsSettled DEF HumanPush
<1>2. CASE HumanDelete
  BY <1>2, SettleKeepsSettled DEF HumanDelete, DropBranch
<1>3. CASE HumanOpens
  BY <1>3, AppendKeepsSettled DEF HumanOpens
<1>4. CASE HumanSettles
  BY <1>4, SettleKeepsSettled DEF HumanSettles
<1>5. CASE HumanBlocks
  BY <1>5 DEF HumanBlocks, Merged, Closed, SettledByFroot
<1> QED BY <1>1, <1>2, <1>3, <1>4, <1>5 DEF Human

\* What a step may do to the deeds: nothing, or what the facts stand behind.
DeedsMove ==
  /\ SettledStay
  /\ Merged' # Merged => MergeFacts
  /\ Closed' # Closed => CloseFacts

LEMMA WriteMoves ==
  ASSUME ForgeTypeOK, NEW w \in Writes, WriteBacked(w), Perform(w)
  PROVE  DeedsMove
  BY WriteKeepsSettled DEF WriteBacked, DeedsMove

LEMMA ForgeRests ==
  ASSUME UNCHANGED forgeVars
  PROVE  DeedsMove
  BY DEF DeedsMove, SettledStay, Merged, Closed, SettledByFroot, forgeVars

\* What the driver sends, now or late, its state stands behind.
LEMMA SentIsBacked ==
  ASSUME PromiseInductive, NEW op \in WriteOps, At(op)
  PROVE  Write(op) \in Writes /\ WriteBacked(Write(op))
<1>1. Driver /\ InStep /\ model \in Models
  BY TypeParts DEF PromiseInductive, MergeInductive, Rest
<1>2. /\ op = "merge" => State.kind = "merging"
      /\ op \in {"patch_closed", "delete_ref"} => State.kind = "closing"
  BY <1>1, CallTellsKind
<1> QED BY <1>1, <1>2, WriteType DEF PromiseInductive, Backed, WriteBacked, Write

LEMMA SentMoves ==
  ASSUME PromiseInductive, NEW op \in WriteOps, Sent(op)
  PROVE  DeedsMove
<1>1. ForgeTypeOK
  BY DEF PromiseInductive, MergeInductive, TypeOK
<1> QED BY <1>1, SentIsBacked, WriteMoves DEF Sent

-----------------------------------------------------------------------------
(* Steps of the driver that establish nothing.                             *)

LEMMA DeedMoves ==
  ASSUME Backed, DeedsMove
  PROVE  \/ Deed' = Deed
         \/ Deed = "none" /\ Deed' = "merged" /\ MergeFacts
         \/ Deed = "none" /\ Deed' = "closed" /\ CloseFacts
<1>1. /\ Merged \subseteq Merged' /\ Closed \subseteq Closed'
      /\ Merged' # Merged => MergeFacts
      /\ Closed' # Closed => CloseFacts
      /\ Closed # {} => CloseFacts
  BY DEF DeedsMove, SettledStay, Backed
<1>2. CASE Merged # {}
  BY <1>1, <1>2, DeedIs, DeedWillBe
<1>3. CASE Merged = {} /\ Merged' # {}
  BY <1>1, <1>3, Exclusive, DeedIs, DeedWillBe
<1>4. CASE Merged = {} /\ Merged' = {}
  BY <1>1, <1>4, DeedIs, DeedWillBe
<1> QED BY <1>2, <1>3, <1>4

\* While the evidence stays, the bump stays where it is or gives up, and what
\* it does meanwhile is covered.
LEMMA DeedStep ==
  ASSUME PromiseInductive, DeedsMove, Evidence' = Evidence,
         Stage' = Stage \/ (Running /\ Stage' = "gave_up")
  PROVE  PromiseStep
<1>0. Driver /\ Backed
  BY TypeParts DEF PromiseInductive, MergeInductive
<1>1. Running => Stage \in {"deciding", "proposed", "resolved"}
  <2>1. State \in BumpStates
    BY <1>0, StateType
  <2> QED BY <1>0, <2>1, ActingKinds, StageIs, StateShape
<1>2. Acting /\ Running => Stage = "resolved"
  BY <1>0, StageIs
<1>3. CASE Deed' = Deed
  BY <1>1, <1>3 DEF PromiseStep, Promise!Next, Promise!Progress, Promise!GiveUp, Promise!Final
<1>4. CASE Deed = "none" /\ Deed' = "merged" /\ MergeFacts
  <2>1. Promise!Merge
    BY <1>2, <1>4, FactsAreEvidence DEF Promise!Merge, Promise!MayEnd, MergeFacts
  <2> QED BY <2>1 DEF PromiseStep, Promise!Next
<1>5. CASE Deed = "none" /\ Deed' = "closed" /\ CloseFacts
  <2>1. Promise!Close
    BY <1>2, <1>5, FactsAreEvidence DEF Promise!Close, Promise!MayEnd, CloseFacts
  <2> QED BY <2>1 DEF PromiseStep, Promise!Next
<1> QED BY <1>0, <1>3, <1>4, <1>5, DeedMoves

LEMMA SameEvidence ==
  ASSUME UNCHANGED <<eligible, closeOnRed, approved>>, Verdict' = Verdict,
         Acting' <=> Acting, Acting => State'.outcome.ci = State.outcome.ci
  PROVE  Evidence' = Evidence
<1>1. /\ "close_on_red" \in Evidence' <=> "close_on_red" \in Evidence
      /\ "earned" \in Evidence' <=> "earned" \in Evidence
      /\ "approved" \in Evidence' <=> "approved" \in Evidence
  BY Zenon, EvidenceIs, EvidenceWillBe
<1>2. /\ "clean" \in Evidence' <=> "clean" \in Evidence
      /\ "green" \in Evidence' <=> "green" \in Evidence
      /\ "red" \in Evidence' <=> "red" \in Evidence
  BY EvidenceIs, EvidenceWillBe
<1>3. Evidence \cup Evidence' \subseteq {"close_on_red", "earned", "clean", "green", "red", "approved"}
  BY EvidenceIs, EvidenceWillBe
<1> QED BY <1>1, <1>2, <1>3

Same == State' = State /\ UNCHANGED <<eligible, closeOnRed, approved>>

LEMMA SameFacts ==
  ASSUME Same
  PROVE  /\ Evidence' = Evidence /\ (Acting' <=> Acting)
         /\ MergeFacts' <=> MergeFacts
         /\ CloseFacts' <=> CloseFacts
<1>1. Verdict' = Verdict /\ (Acting' <=> Acting) /\ State' = State
  BY DEF Same, Verdict, Acting
<1> QED BY <1>1, SameEvidence DEF Same, MergeFacts, CloseFacts

LEMMA QuietStep ==
  ASSUME PromiseInductive, Driver', Same, DeedsMove,
         phase' = phase \/ (Running /\ phase' = "failed"),
         call' = "auto_merge_eligible" => call = "auto_merge_eligible",
         \A w \in inflight' : w \in inflight \/ WriteBacked(w)
  PROVE  Backed' /\ PromiseStep
<1>0. Driver /\ Backed
  BY TypeParts DEF PromiseInductive, MergeInductive
<1>1. /\ State' = State /\ UNCHANGED <<eligible, closeOnRed, approved>>
      /\ Evidence' = Evidence /\ (Acting' <=> Acting)
      /\ MergeFacts' <=> MergeFacts
      /\ CloseFacts' <=> CloseFacts
  BY SameFacts DEF Same
<1>2. \A w \in inflight' : WriteBacked(w)'
  BY <1>0, <1>1 DEF Backed, WriteBacked
<1>3. Backed'
  BY <1>0, <1>1, <1>2 DEF Backed, DeedsMove, SettledStay
<1>4. Stage' = Stage \/ (Running /\ Stage' = "gave_up")
  <2>1. CASE phase' = phase
    BY <1>1, <2>1 DEF Stage, Running
  <2>2. CASE Running /\ phase' = "failed"
    BY <2>2, StageWillBe
  <2> QED BY <2>1, <2>2
<1> QED BY <1>1, <1>3, <1>4, DeedStep

-----------------------------------------------------------------------------
(* Answers: where they take the machine.                                   *)

LEMMA AnswerGoes ==
  ASSUME NEW state \in BumpStates, NEW event \in Events, Answers(state, event),
         NEW closes \in BOOLEAN, NEW grants \in BOOLEAN
  PROVE  LET next == Advance(state, event, closes, grants).next IN
         /\ state.kind = "discovered" => next.kind = "judged" /\ next.verdict = event.verdict
         /\ state.kind = "judged" => next.kind = "awaiting_ci" /\ next.verdict = state.verdict
         /\ state.kind = "awaiting_ci" =>
              /\ next.kind \in {"gate_reviewing", "closing", "recorded"}
              /\ next.outcome.verdict = state.verdict /\ next.outcome.ci = event.status
              /\ next.kind = "gate_reviewing" =>
                   grants /\ state.verdict = "clean" /\ event.status = "passed"
              /\ next.kind = "closing" => closes /\ event.status = "failed"
         /\ state.kind = "gate_reviewing" =>
              /\ next.kind = IF event.verdict = "clean" THEN "merging" ELSE "recorded"
              /\ next.outcome = state.outcome
         /\ state.kind \in {"merging", "closing", "recorded"} =>
              next.kind = "recorded" /\ next.outcome = state.outcome
<1>1. CASE state.kind = "discovered"
  BY <1>1 DEF Advance, FromDiscovered, Answers, AnswerTo, Advanced
<1>2. CASE state.kind = "judged"
  BY <1>2 DEF Advance, FromJudged, Answers, AnswerTo, Advanced
<1>3. CASE state.kind = "awaiting_ci"
  BY <1>3 DEF Advance, FromAwaitingCi, Resolve, MayGate, Record, Carry, Answers, AnswerTo, Advanced
<1>4. CASE state.kind = "gate_reviewing"
  BY <1>4 DEF Advance, FromGateReviewing, Record, Carry, Answers, AnswerTo, Advanced
<1>5. CASE state.kind \in {"merging", "closing"}
  BY <1>5 DEF Advance, FromMerging, FromClosing, Expecting, Record, Carry, Answers, AnswerTo, Advanced
<1>6. CASE state.kind = "recorded"
  BY <1>6 DEF Advance, FromRecorded, Expecting, Answers, AnswerTo
<1> QED BY <1>1, <1>2, <1>3, <1>4, <1>5, <1>6, StateShape

LEMMA AnswerIgnored ==
  ASSUME NEW state \in BumpStates, NEW event \in Events, Answers(state, event),
         NEW closes \in BOOLEAN, NEW grants \in BOOLEAN
  PROVE  Advance(state, event, closes, grants).kind = "ignored" <=> state.kind = "recorded"
<1>1. CASE state.kind = "recorded"
  BY <1>1 DEF Advance, FromRecorded, Expecting, Answers, AnswerTo
<1>2. CASE state.kind # "recorded"
  BY <1>2, StateShape
     DEF Advance, FromDiscovered, FromJudged, FromAwaitingCi, FromGateReviewing, FromMerging,
         FromClosing, Expecting, Resolve, Record, Advanced, Rejected
<1> QED BY <1>1, <1>2

\* Fed with an answer, the driver goes on, or completes with what is recorded.
LEMMA FeedGoes ==
  ASSUME Driver, closeOnRed \in BOOLEAN, eligible \in BOOLEAN,
         NEW event \in Events, Answers(State, event), Feed(event)
  PROVE  /\ State' = Advance(State, event, closeOnRed, eligible).next
         /\ phase' = IF State.kind = "recorded" THEN "completed" ELSE "running"
         /\ call' # "auto_merge_eligible"
<1> DEFINE t == Advance(State, event, closeOnRed, eligible)
<1>1. State \in BumpStates
  BY StateType
<1>2. t \in Transitions /\ t.next \in BumpStates
  BY <1>1, AdvanceType DEF Transitions
<1>3. transition' = t /\ State' = t.next /\ phase' = PhaseAfter(t)
  BY DEF Feed, State
<1>4. CASE State.kind = "recorded"
  <2>1. t.kind = "ignored" /\ t.effects = <<>> /\ t.next.kind = "recorded"
    BY <1>1, <1>4, AnswerIgnored, AnswerMoves
  <2>2. PhaseAfter(t) = "completed"
    BY <2>1 DEF PhaseAfter
  <2> QED BY <1>3, <1>4, <2>2 DEF Feed
<1>5. CASE State.kind # "recorded"
  <2>1. t.kind = "advanced" /\ t.effects = <<EffectOf(t.next.kind)>>
    BY <1>1, <1>5, AnswerIgnored, AnswerMoves
  <2>2. PhaseAfter(t) = "running"
    BY <2>1 DEF PhaseAfter
  <2>3. call' = FirstCall(EffectOf(t.next.kind))
    BY <2>1, <2>2 DEF Feed
  <2>4. FirstCall(EffectOf(t.next.kind)) # "auto_merge_eligible"
    BY <1>2, FirstCallInStep DEF FirstCall, Effects
  <2> QED BY <1>3, <1>5, <2>2, <2>3, <2>4
<1> QED BY <1>4, <1>5

-----------------------------------------------------------------------------
(* Steps before anything is done.                                          *)

NothingDone ==
  /\ ~approved /\ Merged = {} /\ Closed = {}
  /\ \A w \in inflight : w.op \notin {"merge", "patch_closed", "delete_ref"}

LEMMA BeforeDeeds ==
  ASSUME PromiseInductive,
         State.kind \in {"discovered", "judged", "awaiting_ci", "gate_reviewing"}
  PROVE  ~CloseFacts /\ ~MergeFacts /\ NothingDone
<1>1. Driver /\ Backed
  BY TypeParts DEF PromiseInductive, MergeInductive
<1>2. ~CloseFacts
  <2>1. ~(Acting /\ State.outcome.ci = "failed")
    BY <1>1, ActingKinds DEF Backed
  <2> QED BY <2>1, Zenon DEF CloseFacts
<1>3. ~approved
  <2>1. CASE State.kind = "gate_reviewing"
    BY <1>1, <2>1, Zenon DEF Backed
  <2>2. CASE State.kind # "gate_reviewing"
    <3>1. ~Acting
      BY <1>1, <2>2, ActingKinds
    <3> QED BY <1>1, <3>1, Zenon DEF Backed, MergeFacts
  <2> QED BY <2>1, <2>2
<1>4. ~MergeFacts
  BY <1>3, Zenon DEF MergeFacts
<1>5. /\ \A w \in inflight : w.op \notin {"merge", "patch_closed", "delete_ref"}
      /\ Merged = {} /\ Closed = {}
  BY <1>1, <1>2, <1>4 DEF Backed, WriteBacked
<1> QED BY <1>2, <1>3, <1>4, <1>5, Zenon DEF NothingDone

LEMMA StillBacked ==
  ASSUME NothingDone, inflight' = inflight, Merged' = Merged, Closed' = Closed,
         call' # "auto_merge_eligible",
         State'.kind = "merging" => MergeFacts',
         State'.kind = "closing" => CloseFacts',
         State'.kind = "gate_reviewing" =>
           ~approved' /\ eligible' /\ State'.outcome.verdict = "clean" /\ State'.outcome.ci = "passed",
         approved' => State'.kind = "merging"
  PROVE  Backed'
<1>1. approved' => MergeFacts' /\ State'.kind = "merging"
  BY Zenon
<1>2. \A w \in inflight' : WriteBacked(w)'
  BY DEF NothingDone, WriteBacked
<1>3. /\ (Merged' # {} => MergeFacts')
      /\ (Closed' # {} => CloseFacts')
      /\ (call' = "auto_merge_eligible" => ~eligible')
  BY DEF NothingDone
<1>4. approved' => MergeFacts' /\ (State'.kind = "merging" \/ Merged' # {})
  BY <1>1, Zenon
<1> QED BY <1>2, <1>3, <1>4, Zenon DEF Backed

AllFacts == {"close_on_red", "earned", "clean", "green", "red", "approved"}

LEMMA AddsEvidence ==
  ASSUME NEW more \in SUBSET AllFacts,
         \A fact \in AllFacts : fact \in Evidence' <=> fact \in Evidence \/ fact \in more
  PROVE  Evidence' = Evidence \cup more
<1>1. Evidence \subseteq AllFacts /\ Evidence' \subseteq AllFacts
  BY EvidenceIs, EvidenceWillBe DEF AllFacts
<1> QED BY <1>1

\* Then nothing is done by the step either.
LEMMA NothingYet ==
  ASSUME PromiseInductive, DeedsMove,
         State.kind \in {"discovered", "judged", "awaiting_ci", "gate_reviewing"}
  PROVE  Merged' = Merged /\ Closed' = Closed /\ Deed' = Deed
<1>1. Merged' = Merged /\ Closed' = Closed
  BY BeforeDeeds DEF DeedsMove
<1> QED BY <1>1 DEF Deed, Merged, Closed

-----------------------------------------------------------------------------
(* The calls that establish something.                                     *)

\* What an answer leaves of the driver, for the states before anything is done.
LEMMA AnswerBefore ==
  ASSUME PromiseInductive, Running, NEW event \in Events, Answers(State, event), Feed(event),
         State.kind \in {"discovered", "judged", "awaiting_ci", "gate_reviewing"}
  PROVE  /\ Driver /\ Driver' /\ State \in BumpStates
         /\ phase' = "running" /\ call' # "auto_merge_eligible"
         /\ State' = Advance(State, event, closeOnRed, eligible).next
         /\ closeOnRed \in BOOLEAN /\ eligible \in BOOLEAN
<1>1. Driver /\ InStep /\ closeOnRed \in BOOLEAN /\ eligible \in BOOLEAN
  BY TypeParts DEF PromiseInductive, MergeInductive, Rest
<1>2. Driver' /\ State \in BumpStates
  BY <1>1, FeedInStep, StateType
<1> QED BY <1>1, <1>2, FeedGoes

LEMMA JudgeStep ==
  ASSUME PromiseInductive, JudgeChangelog
  PROVE  Backed' /\ PromiseStep
<1>1. PICK v \in Verdicts : Feed([kind |-> "changelog_judged", verdict |-> v])
  BY DEF JudgeChangelog, Verdicts
<1> DEFINE e == [kind |-> "changelog_judged", verdict |-> v]
<1>2. Driver /\ InStep /\ Running /\ State.kind = "discovered"
  <2>1. Driver /\ InStep
    BY TypeParts DEF PromiseInductive, MergeInductive
  <2> QED BY <2>1, CallTellsKind DEF JudgeChangelog
<1>3. e \in Events /\ Answers(State, e)
  BY <1>2 DEF Events, Answers, AnswerTo
<1>4. /\ Driver' /\ State \in BumpStates
      /\ phase' = "running" /\ call' # "auto_merge_eligible"
      /\ State' = Advance(State, e, closeOnRed, eligible).next
      /\ closeOnRed \in BOOLEAN /\ eligible \in BOOLEAN
  BY <1>1, <1>2, <1>3, AnswerBefore
<1>5. State'.kind = "judged" /\ State'.verdict = v
  BY <1>2, <1>3, <1>4, AnswerGoes
<1>6. /\ UNCHANGED <<eligible, closeOnRed, approved>> /\ inflight' = inflight
      /\ UNCHANGED forgeVars
  BY DEF JudgeChangelog, Untouched, pinnedVars
<1>7. NothingDone /\ Merged' = Merged /\ Closed' = Closed /\ Deed' = Deed
  BY <1>2, <1>6, BeforeDeeds, NothingYet, ForgeRests
<1>8. Backed'
  BY <1>4, <1>5, <1>6, <1>7, StillBacked DEF NothingDone
<1>9. Stage = "deciding" /\ Stage' = "deciding"
  BY <1>2, <1>4, <1>5, StageIs, StageWillBe
<1>10. ~Acting /\ ~Acting'
  BY <1>2, <1>4, <1>5, ActingKinds, StageWillBe
<1>11. Verdict = "unknown" /\ Verdict' = v
  <2>1. "verdict" \notin DOMAIN State
    BY <1>2, <1>4, VerdictField
  <2>2. State' \in BumpStates
    BY <1>4 DEF Driver, Transitions, State
  <2>3. "verdict" \in DOMAIN State'
    BY <1>5, <2>2, VerdictField
  <2> QED BY <1>5, <1>10, <2>1, <2>3 DEF Verdict
<1>12. PICK more \in SUBSET {"earned", "clean"} : more = IF v = "clean" THEN {"clean"} ELSE {}
  OBVIOUS
<1>13. /\ "close_on_red" \in Evidence' <=> "close_on_red" \in Evidence
       /\ "earned" \in Evidence' <=> "earned" \in Evidence
       /\ "approved" \in Evidence' <=> "approved" \in Evidence
  BY <1>6, EvidenceIs, EvidenceWillBe, Zenon
<1>14. /\ "clean" \in Evidence' <=> "clean" \in Evidence \/ "clean" \in more
       /\ "green" \in Evidence' <=> "green" \in Evidence
       /\ "red" \in Evidence' <=> "red" \in Evidence
  BY <1>10, <1>11, <1>12, EvidenceIs, EvidenceWillBe
<1>15. Evidence' = Evidence \cup more
  <2>1. more \in SUBSET AllFacts
    BY <1>12 DEF AllFacts
  <2>2. \A fact \in AllFacts : fact \in Evidence' <=> fact \in Evidence \/ fact \in more
    BY <1>12, <1>13, <1>14 DEF AllFacts
  <2> QED BY <2>1, <2>2, AddsEvidence
<1>16. Promise!Weigh
  BY <1>7, <1>9, <1>15 DEF Promise!Weigh
<1> QED BY <1>8, <1>16 DEF PromiseStep, Promise!Next

LEMMA EligibleStep ==
  ASSUME PromiseInductive, MergeInductive', AutoMergeEligible
  PROVE  Backed' /\ PromiseStep
<1>1. Driver /\ Driver' /\ InStep /\ Backed
  BY DEF PromiseInductive, MergeInductive, TypeOK, Driver
<1>2. Running /\ State.kind = "discovered" /\ State \in BumpStates
  BY <1>1, CallTellsKind DEF AutoMergeEligible
<1>3. State' = State /\ phase' = "running"
  BY DEF AutoMergeEligible, State, At
<1>4. call' = "judge"
  <2>1. transition.effects[1] = "judge_changelog"
    BY <1>1, <1>2 DEF InStep, EffectOf
  <2> QED BY <2>1 DEF AutoMergeEligible, FirstCall
<1>5. /\ UNCHANGED <<closeOnRed, approved>> /\ inflight' = inflight
      /\ UNCHANGED forgeVars
  BY DEF AutoMergeEligible, Untouched, pinnedVars
<1>6. ~eligible
  BY <1>1 DEF AutoMergeEligible, At, Backed
<1>7. NothingDone /\ Merged' = Merged /\ Closed' = Closed /\ Deed' = Deed
  BY <1>2, <1>5, BeforeDeeds, NothingYet, ForgeRests
<1>8. Backed'
  BY <1>2, <1>3, <1>4, <1>5, <1>7, StillBacked DEF NothingDone
<1>9. Stage = "deciding" /\ Stage' = "deciding" /\ ~Acting /\ ~Acting'
  BY <1>1, <1>2, <1>3, ActingKinds, StageIs, StageWillBe
<1>10. Verdict' = Verdict
  BY <1>3, <1>9 DEF Verdict
<1>11. PICK more \in SUBSET {"earned", "clean"} : more = IF eligible' THEN {"earned"} ELSE {}
  OBVIOUS
<1>12. /\ "close_on_red" \in Evidence' <=> "close_on_red" \in Evidence
       /\ "approved" \in Evidence' <=> "approved" \in Evidence
  BY <1>5, EvidenceIs, EvidenceWillBe, Zenon
<1>13. "earned" \in Evidence' <=> "earned" \in Evidence \/ "earned" \in more
  <2>1. "earned" \in more <=> eligible'
    BY <1>11
  <2> QED BY <1>6, <2>1, EvidenceIs, EvidenceWillBe, Zenon
<1>14. /\ "clean" \in Evidence' <=> "clean" \in Evidence
       /\ "green" \in Evidence' <=> "green" \in Evidence
       /\ "red" \in Evidence' <=> "red" \in Evidence
  BY <1>9, <1>10, EvidenceIs, EvidenceWillBe
<1>15. Evidence' = Evidence \cup more
  <2>1. more \in SUBSET AllFacts
    BY <1>11 DEF AllFacts
  <2>2. \A fact \in AllFacts : fact \in Evidence' <=> fact \in Evidence \/ fact \in more
    BY <1>11, <1>12, <1>13, <1>14 DEF AllFacts
  <2> QED BY <2>1, <2>2, AddsEvidence
<1>16. Promise!Weigh
  BY <1>7, <1>9, <1>15 DEF Promise!Weigh
<1> QED BY <1>8, <1>16 DEF PromiseStep, Promise!Next

\* The pull request is at hand, found or opened.
LEMMA ReadyStep ==
  ASSUME PromiseInductive, Running, State.kind = "judged", NEW pr \in PrRefs, Ready(pr),
         UNCHANGED <<eligible, closeOnRed, approved>>, inflight' = inflight, DeedsMove
  PROVE  Backed' /\ PromiseStep
<1> DEFINE e == [kind |-> "pull_request_ready", pr |-> pr]
<1>1. e \in Events /\ Answers(State, e) /\ Feed(e)
  BY DEF Events, Answers, AnswerTo, Ready
<1>2. /\ Driver /\ Driver' /\ State \in BumpStates
      /\ phase' = "running" /\ call' # "auto_merge_eligible"
      /\ State' = Advance(State, e, closeOnRed, eligible).next
      /\ closeOnRed \in BOOLEAN /\ eligible \in BOOLEAN
  BY <1>1, AnswerBefore
<1>3. State'.kind = "awaiting_ci" /\ State'.verdict = State.verdict
  BY <1>1, <1>2, AnswerGoes
<1>4. NothingDone /\ Merged' = Merged /\ Closed' = Closed /\ Deed' = Deed
  BY BeforeDeeds, NothingYet
<1>5. Backed'
  BY <1>2, <1>3, <1>4, StillBacked DEF NothingDone
<1>6. /\ Stage = "deciding" /\ Stage' = "proposed" /\ ~Acting /\ ~Acting'
  BY <1>2, <1>3, ActingKinds, StageIs, StageWillBe
<1>7. Verdict' = Verdict
  <2>1. State' \in BumpStates
    BY <1>2 DEF Driver, Transitions, State
  <2>2. "verdict" \in DOMAIN State' /\ "verdict" \in DOMAIN State
    BY <1>2, <1>3, <2>1, VerdictField
  <2> QED BY <1>3, <1>6, <2>2 DEF Verdict
<1>8. Evidence' = Evidence
  BY <1>6, <1>7, SameEvidence
<1>9. Promise!Propose
  BY <1>4, <1>6, <1>8 DEF Promise!Propose
<1> QED BY <1>5, <1>9 DEF PromiseStep, Promise!Next, Promise!Progress

\* The wait is over.
LEMMA ReadingStep ==
  ASSUME PromiseInductive, Running, State.kind = "awaiting_ci", NEW status \in TerminalCI,
         Feed([kind |-> "ci_resolved", status |-> status]),
         UNCHANGED <<eligible, closeOnRed, approved>>, inflight' = inflight, DeedsMove
  PROVE  Backed' /\ PromiseStep
<1> DEFINE e == [kind |-> "ci_resolved", status |-> status]
<1>1. e \in Events /\ Answers(State, e)
  BY DEF Events, Answers, AnswerTo, CIStatus
<1>2. /\ Driver /\ Driver' /\ State \in BumpStates
      /\ phase' = "running" /\ call' # "auto_merge_eligible"
      /\ State' = Advance(State, e, closeOnRed, eligible).next
      /\ closeOnRed \in BOOLEAN /\ eligible \in BOOLEAN
  BY <1>1, AnswerBefore
<1>3. /\ State'.kind \in {"gate_reviewing", "closing", "recorded"}
      /\ State'.outcome.verdict = State.verdict /\ State'.outcome.ci = status
      /\ State'.kind = "gate_reviewing" =>
           eligible /\ State.verdict = "clean" /\ status = "passed"
      /\ State'.kind = "closing" => closeOnRed /\ status = "failed"
  BY <1>1, <1>2, AnswerGoes
<1>4. NothingDone /\ Merged' = Merged /\ Closed' = Closed /\ Deed' = Deed
  BY BeforeDeeds, NothingYet
<1>5. Stage = "proposed" /\ Stage' = "resolved" /\ ~Acting /\ Acting'
  BY <1>2, <1>3, ActingKinds, StageIs, StageWillBe
<1>6. State'.kind = "closing" => CloseFacts'
  BY <1>3, <1>5 DEF CloseFacts
<1>7. ~approved'
  BY <1>4, Zenon DEF NothingDone
<1>8. State'.kind = "gate_reviewing" =>
        ~approved' /\ eligible' /\ State'.outcome.verdict = "clean" /\ State'.outcome.ci = "passed"
  BY <1>3, <1>7
<1>9. Backed'
  <2>1. State'.kind # "merging"
    BY <1>3
  <2> QED BY <1>2, <1>4, <1>6, <1>7, <1>8, <2>1, StillBacked
<1>10. Verdict' = Verdict
  <2>1. "verdict" \in DOMAIN State
    BY <1>2, VerdictField
  <2> QED BY <1>3, <1>5, <2>1 DEF Verdict
<1>11. PICK reading \in {{}, {"green"}, {"red"}} :
         reading = IF status = "passed" THEN {"green"}
                   ELSE IF status = "failed" THEN {"red"} ELSE {}
  OBVIOUS
<1>12. /\ "close_on_red" \in Evidence' <=> "close_on_red" \in Evidence
       /\ "earned" \in Evidence' <=> "earned" \in Evidence
       /\ "approved" \in Evidence' <=> "approved" \in Evidence
  BY EvidenceIs, EvidenceWillBe, Zenon
<1>13. /\ "clean" \in Evidence' <=> "clean" \in Evidence
       /\ "green" \in Evidence' <=> "green" \in Evidence \/ "green" \in reading
       /\ "red" \in Evidence' <=> "red" \in Evidence \/ "red" \in reading
  BY <1>3, <1>5, <1>10, <1>11, EvidenceIs, EvidenceWillBe
<1>14. Evidence' = Evidence \cup reading
  <2>1. reading \in SUBSET AllFacts
    BY <1>11 DEF AllFacts
  <2>2. \A fact \in AllFacts : fact \in Evidence' <=> fact \in Evidence \/ fact \in reading
    BY <1>11, <1>12, <1>13 DEF AllFacts
  <2> QED BY <2>1, <2>2, AddsEvidence
<1>15. Promise!Resolve
  BY <1>4, <1>5, <1>14 DEF Promise!Resolve
<1> QED BY <1>9, <1>15 DEF PromiseStep, Promise!Next, Promise!Progress

\* The gate review: approval, or the bump left to people.
LEMMA ReviewStep ==
  ASSUME PromiseInductive, GateReview
  PROVE  Backed' /\ PromiseStep
<1>1. PICK v \in Verdicts : /\ Feed([kind |-> "gate_reviewed", verdict |-> v])
                            /\ approved' = (v = "clean")
  BY DEF GateReview
<1> DEFINE e == [kind |-> "gate_reviewed", verdict |-> v]
<1>2. Running /\ State.kind = "gate_reviewing"
  <2>1. Driver /\ InStep
    BY TypeParts DEF PromiseInductive, MergeInductive
  <2> QED BY <2>1, CallTellsKind DEF GateReview
<1>3. e \in Events /\ Answers(State, e)
  BY <1>2 DEF Events, Answers, AnswerTo
<1>4. /\ Driver /\ Driver' /\ State \in BumpStates
      /\ phase' = "running" /\ call' # "auto_merge_eligible"
      /\ State' = Advance(State, e, closeOnRed, eligible).next
      /\ closeOnRed \in BOOLEAN /\ eligible \in BOOLEAN
  BY <1>1, <1>2, <1>3, AnswerBefore
<1>5. /\ State'.kind = IF v = "clean" THEN "merging" ELSE "recorded"
      /\ State'.outcome = State.outcome
  BY <1>2, <1>3, <1>4, AnswerGoes
<1>6. /\ UNCHANGED <<eligible, closeOnRed>> /\ inflight' = inflight
      /\ UNCHANGED forgeVars
  BY DEF GateReview, Untouched, pinnedVars
<1>7. NothingDone /\ Merged' = Merged /\ Closed' = Closed /\ Deed' = Deed
  BY <1>2, <1>6, BeforeDeeds, NothingYet, ForgeRests
<1>8. Stage = "resolved" /\ Stage' = "resolved" /\ Acting /\ Acting'
  BY <1>2, <1>4, <1>5, ActingKinds, StageIs, StageWillBe
<1>9. /\ State.outcome.verdict = "clean" /\ State.outcome.ci = "passed"
      /\ eligible /\ ~approved
  BY <1>2, Zenon DEF PromiseInductive, Backed
<1>10. approved' <=> v = "clean"
  BY <1>1, Zenon
<1>11. Backed'
  <2>1. approved' => State'.kind = "merging"
    BY <1>5, <1>10
  <2>2. State'.kind = "merging" => approved'
    BY <1>5, <1>10
  <2>3. State'.kind = "merging" => MergeFacts'
    <3>1. Acting' /\ State'.outcome.ci = "passed" /\ State'.outcome.verdict = "clean"
      BY <1>5, <1>8, <1>9
    <3>2. eligible'
      BY <1>6, <1>9
    <3> QED BY <2>2, <3>1, <3>2, Zenon DEF MergeFacts
  <2>4. State'.kind # "closing" /\ State'.kind # "gate_reviewing"
    BY <1>5
  <2> QED BY <1>4, <1>6, <1>7, <2>1, <2>3, <2>4, StillBacked
<1>12. /\ "close_on_red" \in Evidence' <=> "close_on_red" \in Evidence
       /\ "earned" \in Evidence' <=> "earned" \in Evidence
  BY <1>6, EvidenceIs, EvidenceWillBe, Zenon
<1>13. /\ "clean" \in Evidence' <=> "clean" \in Evidence
       /\ "green" \in Evidence' <=> "green" \in Evidence
       /\ "red" \in Evidence' <=> "red" \in Evidence
  BY <1>5, <1>8, EvidenceIs, EvidenceWillBe DEF Verdict
<1>14. "approved" \notin Evidence /\ ("approved" \in Evidence' <=> v = "clean")
  BY <1>9, <1>10, EvidenceIs, EvidenceWillBe, Zenon
<1>15. CASE v = "clean"
  <2>1. \A fact \in AllFacts : fact \in Evidence' <=> fact \in Evidence \/ fact \in {"approved"}
    BY <1>12, <1>13, <1>14, <1>15 DEF AllFacts
  <2>2. {"approved"} \in SUBSET AllFacts
    BY DEF AllFacts
  <2>3. Evidence' = Evidence \cup {"approved"}
    BY <2>1, <2>2, AddsEvidence
  <2>4. "earned" \in Evidence
    BY <1>9, EvidenceIs, Zenon
  <2>5. {"earned", "clean", "green"} \subseteq Evidence
    BY <1>8, <1>9, <2>4, EvidenceIs DEF Verdict
  <2>6. Promise!Approve
    BY <1>7, <1>8, <2>3, <2>5 DEF Promise!Approve
  <2> QED BY <1>11, <2>6 DEF PromiseStep, Promise!Next
<1>16. CASE v # "clean"
  <2>1. \A fact \in AllFacts : fact \in Evidence' <=> fact \in Evidence
    BY <1>12, <1>13, <1>14, <1>16 DEF AllFacts
  <2>2. Evidence' = Evidence
    <3>1. Evidence \subseteq AllFacts /\ Evidence' \subseteq AllFacts
      BY EvidenceIs, EvidenceWillBe DEF AllFacts
    <3> QED BY <2>1, <3>1
  <2> QED BY <1>7, <1>8, <1>11, <2>2 DEF PromiseStep
<1> QED BY <1>15, <1>16

-----------------------------------------------------------------------------
(* The calls that end in a record.                                         *)

\* The outcome is handed on as it is: the facts stand, and an approved bump
\* has been merged.
LEMMA RecordedBacked ==
  ASSUME PromiseInductive, Driver', DeedsMove,
         State.kind \in {"closing", "merging", "recorded"}, State'.kind = "recorded",
         State'.outcome = State.outcome,
         UNCHANGED <<eligible, closeOnRed, approved>>, inflight' = inflight,
         call' # "auto_merge_eligible", approved => Merged' # {}
  PROVE  Backed' /\ Evidence' = Evidence
<1>0. Driver /\ Backed
  BY TypeParts DEF PromiseInductive, MergeInductive
<1>1. Acting /\ Acting'
  BY <1>0, ActingKinds, StageWillBe
<1>2. Evidence' = Evidence
  <2>1. Verdict' = Verdict
    BY <1>1 DEF Verdict
  <2> QED BY <1>1, <2>1, SameEvidence
<1>3. /\ MergeFacts' <=> MergeFacts
      /\ CloseFacts' <=> CloseFacts
  BY <1>1 DEF MergeFacts, CloseFacts
<1>4. \A w \in inflight' : WriteBacked(w)'
  BY <1>0, <1>3 DEF Backed, WriteBacked
<1>5. /\ Merged' # {} => MergeFacts'
      /\ Closed' # {} => CloseFacts'
  BY <1>0, <1>3 DEF Backed, DeedsMove, SettledStay
<1>6. approved' => MergeFacts' /\ (State'.kind = "merging" \/ Merged' # {})
  <2>1. approved' <=> approved
    OBVIOUS
  <2> QED BY <1>5, <2>1, Zenon
<1>7. /\ State'.kind = "merging" => MergeFacts'
      /\ State'.kind = "closing" => CloseFacts'
      /\ State'.kind # "gate_reviewing"
  OBVIOUS
<1> QED BY <1>2, <1>4, <1>5, <1>6, <1>7, Zenon DEF Backed

\* A plain answer in the closing, the merging or the recorded state.
LEMMA PlainFeed ==
  ASSUME PromiseInductive, Running, State.kind \in {"closing", "merging", "recorded"},
         Feed([kind |-> AnswerTo(State.kind)])
  PROVE  /\ Driver /\ Driver' /\ call' # "auto_merge_eligible"
         /\ State'.kind = "recorded" /\ State'.outcome = State.outcome
         /\ phase' = IF State.kind = "recorded" THEN "completed" ELSE "running"
<1> DEFINE e == [kind |-> AnswerTo(State.kind)]
<1>1. Driver /\ InStep /\ closeOnRed \in BOOLEAN /\ eligible \in BOOLEAN
  BY TypeParts DEF PromiseInductive, MergeInductive, Rest
<1>2. e \in Events /\ Answers(State, e) /\ State \in BumpStates
  BY <1>1, StateType DEF Events, Answers, AnswerTo
<1>3. Driver'
  BY <1>1, <1>2, FeedInStep
<1>4. /\ State' = Advance(State, e, closeOnRed, eligible).next
      /\ phase' = IF State.kind = "recorded" THEN "completed" ELSE "running"
      /\ call' # "auto_merge_eligible"
  BY <1>1, <1>2, FeedGoes
<1>5. State'.kind = "recorded" /\ State'.outcome = State.outcome
  BY <1>1, <1>2, <1>4, AnswerGoes
<1> QED BY <1>1, <1>3, <1>4, <1>5

LEMMA DeedDone ==
  ASSUME PromiseInductive, Running, State.kind \in {"closing", "merging"}, DeedsMove,
         Feed([kind |-> AnswerTo(State.kind)]),
         UNCHANGED <<eligible, closeOnRed, approved>>, inflight' = inflight,
         approved => Merged' # {}
  PROVE  Backed' /\ PromiseStep
<1>1. /\ Driver /\ Driver' /\ call' # "auto_merge_eligible" /\ phase' = "running"
      /\ State'.kind = "recorded" /\ State'.outcome = State.outcome
  BY PlainFeed
<1>2. Backed' /\ Evidence' = Evidence
  BY <1>1, RecordedBacked
<1>3. Stage = "resolved" /\ Stage' = "resolved"
  BY <1>1, ActingKinds, StageIs, StageWillBe
<1> QED BY <1>2, <1>3, DeedStep

LEMMA MergeMerges ==
  ASSUME ForgeTypeOK, NEW w \in Writes, w.op = "merge", Accepts(w), Perform(w)
  PROVE  Merged' # {}
<1>1. w.pr.number \in OpenPulls /\ pulls' = Settle({w.pr.number}, "merged", "froot")
  BY DEF Accepts, Perform
<1> DEFINE n == w.pr.number
<1>2. n \in DOMAIN pulls /\ pulls[n] \in Pulls
  BY <1>1, PullsAre DEF OpenPulls
<1>3. pulls'[n] = [pulls[n] EXCEPT !.state = "merged", !.by = "froot"] /\ n \in DOMAIN pulls'
  BY <1>1, <1>2 DEF Settle
<1>4. pulls'[n].state = "merged" /\ pulls'[n].by = "froot"
  BY <1>2, <1>3 DEF Pulls
<1> QED BY <1>3, <1>4 DEF Merged, SettledByFroot

LEMMA EndSteps ==
  ASSUME PromiseInductive,
         \/ DeleteRef /\ UNCHANGED <<eligible, approved>> /\ Untouched
         \/ Sent("merge") /\ Feed([kind |-> "pull_request_merged"])
            /\ UNCHANGED <<eligible, approved>> /\ Untouched
  PROVE  Backed' /\ PromiseStep
<1>0. Driver /\ InStep /\ ForgeTypeOK /\ Backed
  BY TypeParts DEF PromiseInductive, MergeInductive
<1>1. UNCHANGED <<eligible, closeOnRed, approved>> /\ inflight' = inflight
  BY DEF Untouched, pinnedVars
<1>2. CASE DeleteRef
  <2>1. Running /\ State.kind = "closing"
    BY <1>0, <1>2, CallTellsKind DEF DeleteRef, Sent
  <2>2. DeedsMove
    BY <1>2, SentMoves DEF DeleteRef, WriteOps
  <2>3. ~approved
    <3>1. CloseFacts
      BY <1>0, <2>1 DEF Backed
    <3>2. ~MergeFacts
      BY <3>1, Exclusive
    <3> QED BY <1>0, <3>2, Zenon DEF Backed
  <2>4. Feed([kind |-> AnswerTo(State.kind)])
    BY <1>2, <2>1 DEF DeleteRef, AnswerTo
  <2> QED BY <1>1, <2>1, <2>2, <2>3, <2>4, DeedDone
<1>3. CASE Sent("merge") /\ Feed([kind |-> "pull_request_merged"])
  <2>1. Running /\ State.kind = "merging"
    BY <1>0, <1>3, CallTellsKind DEF Sent
  <2>2. DeedsMove
    BY <1>3, SentMoves DEF WriteOps
  <2>3. Merged' # {}
    <3>1. Write("merge") \in Writes
      BY <1>3, SentIsBacked DEF Sent, WriteOps
    <3>2. Write("merge").op = "merge"
      BY DEF Write
    <3> QED BY <1>0, <1>3, <3>1, <3>2, MergeMerges DEF Sent
  <2>4. Feed([kind |-> AnswerTo(State.kind)])
    BY <1>3, <2>1 DEF AnswerTo
  <2> QED BY <1>1, <2>1, <2>2, <2>3, <2>4, DeedDone
<1> QED BY <1>2, <1>3

LEMMA RecordStep ==
  ASSUME PromiseInductive, RecordOutcome
  PROVE  Backed' /\ PromiseStep
<1>0. Driver /\ InStep /\ ForgeTypeOK /\ Backed
  BY TypeParts DEF PromiseInductive, MergeInductive
<1>1. UNCHANGED <<eligible, closeOnRed, approved>> /\ inflight' = inflight
  BY DEF RecordOutcome, Untouched, pinnedVars
<1>2. Running /\ State.kind = "recorded"
  BY <1>0, CallTellsKind DEF RecordOutcome, Sent
<1>3. DeedsMove
  BY SentMoves DEF RecordOutcome, WriteOps
<1>4. Merged' = Merged /\ Closed' = Closed
  <2>1. Write("add_labels") \in Writes
    BY SentIsBacked DEF RecordOutcome, Sent, WriteOps
  <2>2. Write("add_labels").op = "add_labels"
    BY DEF Write
  <2> QED BY <1>0, <2>1, <2>2, WriteKeepsSettled DEF RecordOutcome, Sent
<1>5. /\ Driver' /\ call' # "auto_merge_eligible" /\ phase' = "completed"
      /\ State'.kind = "recorded" /\ State'.outcome = State.outcome
  BY <1>2, PlainFeed DEF RecordOutcome, AnswerTo
<1>6. approved => Merged # {}
  BY <1>0, <1>2, Zenon DEF Backed
<1>7. Backed' /\ Evidence' = Evidence
  BY <1>1, <1>2, <1>3, <1>4, <1>5, <1>6, RecordedBacked
<1>8. Stage = "resolved" /\ Stage' = "recorded"
  BY <1>0, <1>2, <1>5, ActingKinds, StageIs, StageWillBe
<1>9. Deed' = Deed /\ ("approved" \in Evidence => Deed = "merged")
  <2>1. "approved" \in Evidence => Merged # {}
    BY <1>6, EvidenceIs, Zenon
  <2> QED BY <1>4, <2>1, DeedIs DEF Deed, Merged, Closed
<1>10. Promise!Record
  BY <1>7, <1>8, <1>9 DEF Promise!Record
<1> QED BY <1>7, <1>10 DEF PromiseStep, Promise!Next, Promise!Progress

-----------------------------------------------------------------------------
(* The other calls of the driver: it goes on inside the activity, or an     *)
(* attempt is lost.                                                         *)

LEMMA StaysQuiet ==
  ASSUME PromiseInductive, MergeInductive', Running, DeedsMove,
         \/ UNCHANGED <<phase, transition>> /\ call' # "auto_merge_eligible"
         \/ FailAttempt,
         UNCHANGED <<eligible, closeOnRed, approved>>,
         \A w \in inflight' : w \in inflight \/ WriteBacked(w)
  PROVE  Backed' /\ PromiseStep
<1>1. Driver /\ Driver' /\ InStep
  BY DEF PromiseInductive, MergeInductive, TypeOK, Driver
<1>2. Same /\ (phase' = phase \/ (Running /\ phase' = "failed"))
  BY DEF FailAttempt, Same, State
<1>3. call' = "auto_merge_eligible" => call = "auto_merge_eligible"
  <2>1. CASE FailAttempt
    <3>1. transition.effects[1] = EffectOf(State.kind) /\ State \in BumpStates
      BY <1>1, StateType DEF InStep
    <3>2. FirstCall(EffectOf(State.kind)) # "auto_merge_eligible"
      BY <3>1, FirstCallInStep DEF FirstCall, Effects
    <3> QED BY <2>1, <3>1, <3>2 DEF FailAttempt
  <2> QED BY <2>1
<1> QED BY <1>1, <1>2, <1>3, QuietStep

LEMMA QuietCalls ==
  ASSUME PromiseInductive, MergeInductive', Untouched,
         UNCHANGED <<eligible, approved>>,
         \/ UNCHANGED forgeVars /\ At(call) /\ FailAttempt
         \/ \E next \in Calls \ {"auto_merge_eligible"} :
              UNCHANGED forgeVars /\ At(call) /\ Continue(next)
         \/ \E op \in WriteOps, next \in Calls \ {"auto_merge_eligible"} :
              Sent(op) /\ Continue(next)
  PROVE  Backed' /\ PromiseStep
<1>1. Running /\ DeedsMove
  BY ForgeRests, SentMoves DEF At, Running, Sent
<1>2. UNCHANGED <<eligible, closeOnRed, approved>> /\ inflight' = inflight
  BY DEF Untouched, pinnedVars
<1>3. \/ UNCHANGED <<phase, transition>> /\ call' # "auto_merge_eligible"
      \/ FailAttempt
  BY DEF Continue
<1> QED BY <1>1, <1>2, <1>3, StaysQuiet

LEMMA CheckStep ==
  ASSUME PromiseInductive, MergeInductive', CheckCi
  PROVE  Backed' /\ PromiseStep
<1>1. Running /\ State.kind = "awaiting_ci" /\ DeedsMove
  <2>1. Driver /\ InStep
    BY TypeParts DEF PromiseInductive, MergeInductive
  <2> QED BY <2>1, CallTellsKind, ForgeRests DEF CheckCi
<1>2. UNCHANGED <<eligible, closeOnRed, approved>> /\ inflight' = inflight
  BY DEF CheckCi, Untouched, pinnedVars
<1>3. \/ \E status \in TerminalCI : Feed([kind |-> "ci_resolved", status |-> status])
      \/ UNCHANGED <<phase, transition>> /\ call' = "sleep"
  BY DEF CheckCi, CIStatus, TerminalCI
<1>4. CASE \E status \in TerminalCI : Feed([kind |-> "ci_resolved", status |-> status])
  BY <1>1, <1>2, <1>4, ReadingStep
<1>5. CASE UNCHANGED <<phase, transition>> /\ call' = "sleep"
  BY <1>1, <1>2, <1>5, StaysQuiet
<1> QED BY <1>3, <1>4, <1>5

LEMMA OpenSteps ==
  ASSUME PromiseInductive, MergeInductive',
         FindOpenPullRequest \/ FindConflicting \/ OpenPullRequest
  PROVE  Backed' /\ PromiseStep
<1>0. Driver /\ InStep /\ ForgeTypeOK
  BY TypeParts DEF PromiseInductive, MergeInductive
<1>1. Running /\ State.kind = "judged"
  BY <1>0, CallTellsKind
     DEF FindOpenPullRequest, FindConflicting, OpenPullRequest, Sent, Refused
<1>2. UNCHANGED <<eligible, closeOnRed, approved>> /\ inflight' = inflight /\ Untouched
  BY DEF FindOpenPullRequest, FindConflicting, OpenPullRequest, Untouched, pinnedVars
<1>3. CASE \E pr \in PrRefs : Ready(pr)
  <2>1. DeedsMove
    BY ForgeRests, SentMoves
       DEF FindOpenPullRequest, FindConflicting, OpenPullRequest, Refused, WriteOps
  <2> QED BY <1>1, <1>2, <1>3, <2>1, ReadyStep
<1>4. {"push", "find_conflicting"} \subseteq Calls \ {"auto_merge_eligible"}
  BY DEF Calls, WriteOps, ReadCalls
<1>5. \/ \E pr \in PrRefs : Ready(pr)
      \/ UNCHANGED forgeVars /\ At(call) /\ FailAttempt
      \/ \E next \in Calls \ {"auto_merge_eligible"} :
           UNCHANGED forgeVars /\ At(call) /\ Continue(next)
  <2>1. CASE FindOpenPullRequest
    BY <1>0, <1>4, <2>1, OpenPullRef DEF FindOpenPullRequest, At
  <2>2. CASE FindConflicting
    BY <1>0, <2>2, OpenPullRef DEF FindConflicting, At
  <2>3. CASE OpenPullRequest
    <3>1. [number |-> Len(pulls) + 1, sha |-> ref] \in PrRefs
      BY <1>0, SequenceDomain DEF PrRefs, ForgeTypeOK
    <3> QED BY <1>4, <2>3, <3>1 DEF OpenPullRequest, Refused, At
  <2> QED BY <2>1, <2>2, <2>3
<1> QED BY <1>2, <1>3, <1>5, QuietCalls

LEMMA OtherSteps ==
  ASSUME PromiseInductive, MergeInductive',
         \/ Sleep \/ FindNote \/ EditNote \/ PushBranch \/ ClosePullRequest
         \/ MergePullRequest
  PROVE  Backed' /\ PromiseStep
<1>1. UNCHANGED <<eligible, approved>> /\ Untouched
  BY DEF Sleep, FindNote, EditNote, PushBranch, ClosePullRequest, MergePullRequest
<1>2. CASE \/ ClosePullRequest /\ DeleteRef
           \/ Sent("merge") /\ Feed([kind |-> "pull_request_merged"])
  BY <1>1, <1>2, EndSteps
<1>3. {"check_ci", "edit_note", "post_note", "patch_closed", "post_pr", "delete_ref"}
        \subseteq Calls \ {"auto_merge_eligible"}
  BY DEF Calls, WriteOps, ReadCalls
<1>4. {"push", "post_note", "patch_closed"} \subseteq WriteOps
  BY DEF WriteOps
<1>5. \/ ClosePullRequest /\ DeleteRef
      \/ Sent("merge") /\ Feed([kind |-> "pull_request_merged"])
      \/ UNCHANGED forgeVars /\ At(call) /\ FailAttempt
      \/ \E next \in Calls \ {"auto_merge_eligible"} :
           UNCHANGED forgeVars /\ At(call) /\ Continue(next)
      \/ \E op \in WriteOps, next \in Calls \ {"auto_merge_eligible"} :
           Sent(op) /\ Continue(next)
  <2>1. CASE Sleep \/ FindNote \/ EditNote
    BY <1>3, <2>1 DEF Sleep, FindNote, EditNote, At
  <2>2. CASE PushBranch
    BY <1>3, <1>4, <2>2 DEF PushBranch, Refused, At
  <2>3. CASE ClosePullRequest
    BY <1>3, <1>4, <2>3 DEF ClosePullRequest, PostNote, PatchClosed
  <2>4. CASE MergePullRequest
    BY <2>4 DEF MergePullRequest, Refused, At
  <2> QED BY <2>1, <2>2, <2>3, <2>4
<1> QED BY <1>1, <1>2, <1>5, QuietCalls

-----------------------------------------------------------------------------
(* Faults, late writes, people and the operator.                           *)

LEMMA FaultSteps ==
  ASSUME PromiseInductive, MergeInductive', Lost \/ Unheard \/ Late \/ Denied
  PROVE  Backed' /\ PromiseStep
<1>1. Running /\ UNCHANGED <<eligible, closeOnRed, approved>>
  BY DEF Lost, Unheard, Late, Denied, Hit, pinnedVars, Running
<1>2. DeedsMove
  BY ForgeRests, SentMoves DEF Lost, Unheard, Late, Denied
<1>3. \A w \in inflight' : w \in inflight \/ WriteBacked(w)
  <2>1. CASE Late
    <3>1. PICK op \in WriteOps : At(op) /\ inflight' = inflight \cup {Write(op)}
      BY <2>1 DEF Late, Leaves
    <3> QED BY <3>1, SentIsBacked
  <2> QED BY <2>1 DEF Lost, Unheard, Denied
<1>4. CASE Lost \/ Unheard \/ Late
  <2>1. FailAttempt
    BY <1>4 DEF Lost, Unheard, Late
  <2> QED BY <1>1, <1>2, <1>3, <2>1, StaysQuiet
<1>5. CASE Denied
  <2>1. Driver'
    BY DEF MergeInductive, TypeOK, Driver
  <2>2. Same /\ phase' = "failed" /\ call' = "none"
    BY <1>1, <1>5 DEF Denied, Same, State
  <2> QED BY <1>1, <1>2, <1>3, <2>1, <2>2, QuietStep
<1> QED BY <1>4, <1>5

LEMMA OutsideSteps ==
  ASSUME PromiseInductive, MergeInductive',
         Land \/ HumanMove \/ ChangeModel \/ UNCHANGED vars
  PROVE  Backed' /\ PromiseStep
<1>0. ForgeTypeOK /\ Rest /\ Backed /\ Driver'
  BY TypeParts DEF PromiseInductive, MergeInductive, TypeOK, Driver
<1>1. /\ UNCHANGED driverVars /\ UNCHANGED <<eligible, closeOnRed, approved>>
      /\ inflight' \subseteq inflight
  BY DEF Land, HumanMove, ChangeModel, pinnedVars, historyVars, vars
<1>2. Same /\ phase' = phase /\ call' = call
  BY <1>1 DEF Same, State, driverVars
<1>3. DeedsMove
  <2>1. CASE Land
    <3>1. PICK w \in inflight : IF Accepts(w) THEN Perform(w) ELSE UNCHANGED forgeVars
      BY <2>1 DEF Land
    <3>2. w \in Writes /\ WriteBacked(w)
      BY <1>0, <3>1 DEF Rest, Backed
    <3>3. CASE Perform(w)
      BY <1>0, <3>2, <3>3, WriteMoves
    <3> QED BY <3>1, <3>3, ForgeRests
  <2>2. CASE HumanMove
    <3>1. Merged' = Merged /\ Closed' = Closed
      BY <1>0, <2>2, PeopleKeepSettled DEF HumanMove
    <3> QED BY <3>1 DEF DeedsMove, SettledStay
  <2>3. CASE ChangeModel \/ UNCHANGED vars
    BY <2>3, ForgeRests DEF ChangeModel, vars
  <2> QED BY <2>1, <2>2, <2>3
<1> QED BY <1>0, <1>1, <1>2, <1>3, QuietStep

-----------------------------------------------------------------------------
LEMMA InitPromises ==
  ASSUME Init
  PROVE  PromiseInductive /\ Promise!Init
<1>1. MergeInductive /\ Driver
  BY InitHolds, TypeParts DEF MergeInductive
<1>2. phase = "running" /\ State.kind = "discovered"
  BY DEF Init, Start, Advanced, State
<1>3. ~eligible /\ ~approved /\ inflight = {}
  BY Zenon DEF Init
<1>4. Merged = {} /\ Closed = {}
  BY DEF Init, ForgeInit, Merged, Closed, SettledByFroot
<1>5. Backed
  <2>1. /\ State.kind = "merging" => MergeFacts
        /\ State.kind = "closing" => CloseFacts
        /\ State.kind # "gate_reviewing"
        /\ Merged # {} => MergeFacts
        /\ Closed # {} => CloseFacts
        /\ \A w \in inflight : WriteBacked(w)
    BY <1>2, <1>3, <1>4
  <2> QED BY <1>3, <2>1, Zenon DEF Backed
<1>6. ~Acting /\ Stage = "deciding" /\ Deed = "none"
  BY <1>1, <1>2, <1>4, ActingKinds, StageIs, DeedIs DEF Running
<1>7. Verdict = "unknown"
  <2>1. State \in BumpStates
    BY <1>1, StateType
  <2> QED BY <1>2, <1>6, <2>1, VerdictField DEF Verdict
<1>8. "earned" \notin Evidence /\ "approved" \notin Evidence
  BY <1>3, EvidenceIs, Zenon
<1>9. Evidence \in SUBSET {"close_on_red"}
  BY <1>6, <1>7, <1>8, EvidenceIs
<1> QED BY <1>1, <1>5, <1>6, <1>9 DEF PromiseInductive, Promise!Init

LEMMA NextPromises ==
  ASSUME PromiseInductive, [Next]_vars
  PROVE  PromiseInductive' /\ PromiseStep
<1>1. MergeInductive'
  BY ReadCallsKeep, WriteCallsKeep, FaultsKeep, OutsideKeeps, StutterKeeps
     DEF PromiseInductive, Next, Step
<1>2. Backed' /\ PromiseStep
  <2>1. CASE AutoMergeEligible \/ JudgeChangelog \/ GateReview \/ RecordOutcome
    BY <1>1, <2>1, EligibleStep, JudgeStep, ReviewStep, RecordStep
  <2>2. CASE FindOpenPullRequest \/ FindConflicting \/ OpenPullRequest \/ CheckCi
    BY <1>1, <2>2, OpenSteps, CheckStep
  <2>3. CASE \/ Sleep \/ FindNote \/ EditNote \/ PushBranch \/ ClosePullRequest
             \/ MergePullRequest
    BY <1>1, <2>3, OtherSteps
  <2>4. CASE Lost \/ Unheard \/ Late \/ Denied
    BY <1>1, <2>4, FaultSteps
  <2>5. CASE Land \/ HumanMove \/ ChangeModel \/ UNCHANGED vars
    BY <1>1, <2>5, OutsideSteps
  <2> QED BY <2>1, <2>2, <2>3, <2>4, <2>5 DEF Next, Step
<1> QED BY <1>1, <1>2 DEF PromiseInductive

\* What stands behind every merge and every close, done or on its way, is
\* inductive: the four facts froot merges on, the two it closes on
\* (bump_workflow.py run, state_machine.py _from_awaiting_ci).
THEOREM PromiseInductiveHolds == Spec => []PromiseInductive
<1>1. Init => PromiseInductive
  BY InitPromises
<1>2. PromiseInductive /\ [Next]_vars => PromiseInductive'
  BY NextPromises
<1> QED BY <1>1, <1>2, PTL DEF Spec

\* The workflow implements the promise's steps: whatever is retried, lost,
\* late or interfered with, froot merges only what its class has earned, the
\* judge called clean, CI passed and the review approved, closes only red with
\* close-on-red on, never both, and records an approved bump only after its
\* merge.
THEOREM KeepsPromiseSafely ==
  Spec => Promise!Init /\ [][Promise!Next]_<<Stage, Evidence, Deed>>
<1>1. Init => Promise!Init
  BY InitPromises
<1>2. PromiseInductive /\ [Next]_vars => [Promise!Next]_<<Stage, Evidence, Deed>>
  BY NextPromises DEF PromiseStep
<1> QED BY <1>1, <1>2, PromiseInductiveHolds, PTL DEF Spec

-----------------------------------------------------------------------------
(* What a bump leaves behind when it is over: success has left its mark,   *)
(* failure has a cause, and, if no write is late, the pull request of a    *)
(* red bump and its branch are gone and no note was made twice.            *)

\* A pull request at hand is one of the forge's, with a head that was pushed.
Handle(pr) == pr.number \in DOMAIN pulls /\ pr.sha <= commits
Known ==
  /\ \A n \in DOMAIN pulls : /\ pulls[n].head <= commits
                             /\ pulls[n].state = "open" <=> pulls[n].by = "nobody"
  /\ State.kind = "awaiting_ci" => Handle(State.pr)
  /\ Acting => Handle(State.outcome.pr)

\* What is approved is merged before it is recorded, and labelled before the
\* end.
Done ==
  /\ approved => \/ State.kind = "merging"
                 \/ State.kind = "recorded" /\ State.outcome.pr.number \in Merged
  /\ phase = "completed" => /\ State.kind = "recorded"
                            /\ pulls[State.outcome.pr.number].labels # {}

\* Refusals that no retry gets over.
LeftBehind == scars \cap BranchLeftBehind # {}
Excused ==
  \/ State.kind = "judged" /\ (SettledUnseen \/ LeftBehind)
  \/ State.kind = "merging" /\ ~Accepts(Write("merge"))

\* Every other failed attempt is charged to a fault or to a move, and the
\* refusal that is coming is when the branch was deleted after the push.
Owed == IF call \in {"post_pr", "find_conflicting"} /\ ref = 0 THEN 1 ELSE 0
Denial == \E c \in Calls : <<c, "denied">> \in scars
Charged ==
  /\ phase = "failed" => Denial \/ faults + moves >= MaxAttempts \/ Excused
  /\ Running /\ ~Excused => tries + Owed <= faults + moves

\* While it opens, the branch is where the next call needs it to be.
BranchInStep ==
  /\ Running /\ State.kind = "judged" /\ ~Excused =>
       /\ call = "push" => ref = 0
       /\ call \in {"find_open", "find_conflicting"} /\ ref # 0 => OpenPulls # {}
  /\ State.kind = "discovered" => ref = 0 \/ LeftBehind
  /\ \A w \in inflight : w.op \in {"push", "post_pr"} => LeftBehind

OutcomeInductive == PromiseInductive /\ Known /\ Done /\ Charged /\ BranchInStep

\* If no write is late: one note, and nothing left of what was red.
Prompt ==
  /\ inflight = {}
  /\ NoteOnce
  /\ At("post_note") => pulls[State.outcome.pr.number].notes = 0
  /\ State.kind = "recorded" /\ closeOnRed /\ State.outcome.ci = "failed" =>
       OpenPulls = {} /\ ref = 0

-----------------------------------------------------------------------------
(* What no step takes back: a pull request stays, with its labels and the   *)
(* way it was settled; a head moves only to a newer commit; and a block is  *)
(* lifted only by a push, which moves every open head.                      *)

PullMoves(n) ==
  /\ n \in DOMAIN pulls'
  /\ pulls[n].labels \subseteq pulls'[n].labels
  /\ pulls[n].by # "nobody" =>
       pulls'[n].state = pulls[n].state /\ pulls'[n].by = pulls[n].by
  /\ pulls'[n].state = "open" <=> pulls'[n].by = "nobody"
  /\ pulls'[n].head = pulls[n].head \/ pulls'[n].head = commits'

ForgeMoves ==
  /\ \A n \in DOMAIN pulls : PullMoves(n)
  /\ \A n \in DOMAIN pulls' \ DOMAIN pulls : pulls'[n] = NewPull(ref)
  /\ \/ commits' = commits /\ (blocked => blocked')
        /\ \A n \in DOMAIN pulls : pulls'[n].head = pulls[n].head
     \/ commits' = commits + 1
        /\ \A n \in DOMAIN pulls' : pulls'[n].state = "open" => pulls'[n].head = commits'

ForgeKnown == ForgeTypeOK /\ \A n \in DOMAIN pulls :
                /\ pulls[n].head <= commits
                /\ pulls[n].state = "open" <=> pulls[n].by = "nobody"

\* Pull requests rewritten one by one, the branch left where it is.
LEMMA RewriteMoves ==
  ASSUME ForgeKnown, commits' = commits, blocked => blocked',
         DOMAIN pulls' = DOMAIN pulls,
         \A n \in DOMAIN pulls : PullMoves(n) /\ pulls'[n].head = pulls[n].head
  PROVE  ForgeMoves
  BY DEF ForgeMoves

LEMMA SettleMoves ==
  ASSUME ForgeKnown, NEW N, NEW state \in {"merged", "closed"}, NEW by \in {"froot", "human"},
         pulls' = Settle(N, state, by), commits' = commits, blocked' = blocked
  PROVE  ForgeMoves
<1>1. DOMAIN pulls' = DOMAIN pulls /\ (blocked => blocked')
  BY DEF Settle
<1>2. ASSUME NEW n \in DOMAIN pulls
      PROVE  PullMoves(n) /\ pulls'[n].head = pulls[n].head
  <2>1. pulls[n] \in Pulls /\ (pulls[n].state = "open" <=> pulls[n].by = "nobody")
    BY PullsAre DEF ForgeKnown
  <2>2. CASE n \in N \cap OpenPulls
    <3>1. pulls'[n] = [pulls[n] EXCEPT !.state = state, !.by = by]
      BY <2>2 DEF Settle
    <3>2. pulls[n].by = "nobody"
      BY <2>1, <2>2 DEF OpenPulls
    <3> QED BY <1>1, <2>1, <3>1, <3>2 DEF PullMoves, Pulls
  <2>3. CASE n \notin N \cap OpenPulls
    <3>1. pulls'[n] = pulls[n]
      BY <2>3 DEF Settle
    <3> QED BY <1>1, <2>1, <3>1 DEF PullMoves
  <2> QED BY <2>2, <2>3
<1> QED BY <1>1, <1>2, RewriteMoves

LEMMA BranchMoves ==
  ASSUME ForgeKnown, MoveBranch
  PROVE  ForgeMoves
<1>1. DOMAIN pulls' = DOMAIN pulls /\ commits' = commits + 1
  BY DEF MoveBranch
<1>2. ASSUME NEW n \in DOMAIN pulls
      PROVE  PullMoves(n) /\ (pulls'[n].state = "open" => pulls'[n].head = commits')
  <2>1. pulls[n] \in Pulls /\ (pulls[n].state = "open" <=> pulls[n].by = "nobody")
    BY PullsAre DEF ForgeKnown
  <2>2. CASE n \in OpenPulls
    <3>1. pulls'[n] = [pulls[n] EXCEPT !.head = commits']
      BY <1>1, <2>2 DEF MoveBranch
    <3> QED BY <1>1, <2>1, <3>1 DEF PullMoves, Pulls
  <2>3. CASE n \notin OpenPulls
    <3>1. pulls'[n] = pulls[n] /\ pulls[n].state # "open"
      BY <2>3 DEF MoveBranch, OpenPulls
    <3> QED BY <1>1, <2>1, <3>1 DEF PullMoves
  <2> QED BY <2>2, <2>3
<1> QED BY <1>1, <1>2 DEF ForgeMoves

LEMMA AppendMoves ==
  ASSUME ForgeKnown, pulls' = Append(pulls, NewPull(ref)), UNCHANGED branchVars
  PROVE  ForgeMoves
<1>1. /\ DOMAIN pulls' = DOMAIN pulls \cup {Len(pulls) + 1}
      /\ \A n \in DOMAIN pulls : pulls'[n] = pulls[n]
      /\ pulls'[Len(pulls) + 1] = NewPull(ref)
  BY PullsAre DEF ForgeTypeOK, ForgeKnown
<1>2. commits' = commits /\ (blocked => blocked')
  BY DEF branchVars
<1>3. \A n \in DOMAIN pulls : PullMoves(n) /\ pulls'[n].head = pulls[n].head
  BY <1>1 DEF PullMoves, ForgeKnown
<1> QED BY <1>1, <1>2, <1>3 DEF ForgeMoves

LEMMA MarkMoves ==
  ASSUME ForgeKnown, UNCHANGED branchVars, DOMAIN pulls' = DOMAIN pulls,
         \A n \in DOMAIN pulls :
           /\ pulls'[n].state = pulls[n].state /\ pulls'[n].by = pulls[n].by
           /\ pulls'[n].head = pulls[n].head /\ pulls[n].labels \subseteq pulls'[n].labels
  PROVE  ForgeMoves
<1>1. commits' = commits /\ (blocked => blocked')
  BY DEF branchVars
<1>2. \A n \in DOMAIN pulls : PullMoves(n) /\ pulls'[n].head = pulls[n].head
  BY DEF PullMoves, ForgeKnown
<1> QED BY <1>1, <1>2, RewriteMoves

LEMMA WriteMovesForge ==
  ASSUME ForgeKnown, NEW w \in Writes, Perform(w)
  PROVE  ForgeMoves
<1>1. CASE w.op = "push"
  BY <1>1, BranchMoves DEF Perform
<1>2. CASE w.op = "post_pr"
  BY <1>2, AppendMoves DEF Perform
<1>3. CASE w.op \in {"patch_closed", "merge"}
  BY <1>3, SettleMoves DEF Perform, branchVars
<1>4. CASE w.op = "delete_ref"
  BY <1>4, SettleMoves DEF Perform, DropBranch
<1>5. CASE w.op \in {"post_note", "add_labels"}
  <2>1. \A n \in DOMAIN pulls : pulls[n] \in Pulls
    BY PullsAre DEF ForgeKnown
  <2> QED BY <1>5, <2>1, MarkMoves DEF Perform, Pulls
<1> QED BY <1>1, <1>2, <1>3, <1>4, <1>5 DEF Writes, WriteOps

LEMMA PeopleMoveForge ==
  ASSUME ForgeKnown, Human
  PROVE  ForgeMoves
<1>1. CASE HumanPush
  BY <1>1, BranchMoves DEF HumanPush
<1>2. CASE HumanDelete
  BY <1>2, SettleMoves DEF HumanDelete, DropBranch
<1>3. CASE HumanOpens
  BY <1>3, AppendMoves DEF HumanOpens
<1>4. CASE HumanSettles
  BY <1>4, SettleMoves DEF HumanSettles, branchVars
<1>5. CASE HumanBlocks
  <2>1. commits' = commits /\ pulls' = pulls /\ blocked'
    BY <1>5, Zenon DEF HumanBlocks
  <2>2. \A n \in DOMAIN pulls : PullMoves(n) /\ pulls'[n].head = pulls[n].head
    BY <2>1 DEF PullMoves, ForgeKnown
  <2> QED BY <2>1, <2>2, RewriteMoves
<1> QED BY <1>1, <1>2, <1>3, <1>4, <1>5 DEF Human

LEMMA IdleForge ==
  ASSUME ForgeKnown, UNCHANGED forgeVars
  PROVE  ForgeMoves
  BY MarkMoves DEF forgeVars

LEMMA StillKnown ==
  ASSUME ForgeKnown, ForgeTypeOK', ForgeMoves
  PROVE  ForgeKnown' /\ commits <= commits'
<1>1. /\ commits \in Nat /\ commits' \in Nat /\ ref \in 0..commits
      /\ \A n \in DOMAIN pulls : pulls[n].head \in Nat
  BY PullsAre DEF ForgeKnown, ForgeTypeOK, Pulls
<1>2. commits <= commits'
  BY <1>1 DEF ForgeMoves
<1>3. ASSUME NEW n \in DOMAIN pulls'
      PROVE  pulls'[n].head <= commits' /\ (pulls'[n].state = "open" <=> pulls'[n].by = "nobody")
  <2>1. CASE n \in DOMAIN pulls
    BY <1>1, <1>2, <2>1 DEF ForgeMoves, PullMoves, ForgeKnown
  <2>2. CASE n \notin DOMAIN pulls
    BY <1>1, <1>2, <1>3, <2>2 DEF ForgeMoves, NewPull
  <2> QED BY <2>1, <2>2
<1> QED BY <1>2, <1>3 DEF ForgeKnown

LEMMA HandleStays ==
  ASSUME ForgeKnown, ForgeTypeOK', ForgeMoves, NEW pr \in PrRefs, Handle(pr)
  PROVE  pr.number \in DOMAIN pulls' /\ pr.sha <= commits'
<1>1. commits \in Nat /\ commits' \in Nat /\ commits <= commits' /\ pr.sha \in Nat
  BY StillKnown DEF ForgeKnown, ForgeTypeOK, PrRefs
<1> QED BY <1>1 DEF Handle, ForgeMoves, PullMoves

\* A merge that would be refused is refused from then on.
MayMerge(pr) ==
  pr.number \in OpenPulls /\ ~blocked /\ pulls[pr.number].head = pr.sha

LEMMA RefusedStays ==
  ASSUME ForgeKnown, ForgeTypeOK', ForgeMoves, NEW pr \in PrRefs, Handle(pr), ~MayMerge(pr)
  PROVE  ~(pr.number \in OpenPulls' /\ ~blocked' /\ pulls'[pr.number].head = pr.sha)
<1> DEFINE n == pr.number
<1>1. commits \in Nat /\ commits' \in Nat /\ pr.sha \in Nat /\ pr.sha <= commits
  BY DEF ForgeKnown, ForgeTypeOK, PrRefs, Handle
<1>2. n \in DOMAIN pulls /\ n \in DOMAIN pulls' /\ PullMoves(n)
  BY DEF Handle, ForgeMoves, PullMoves
<1>3. SUFFICES ASSUME n \in OpenPulls', ~blocked', pulls'[n].head = pr.sha
               PROVE  FALSE
  OBVIOUS
<1>4. pulls'[n].state = "open"
  BY <1>3 DEF OpenPulls
<1>5. n \in OpenPulls
  <2>1. pulls[n].by = "nobody"
    BY <1>2, <1>4 DEF PullMoves, ForgeKnown
  <2> QED BY <1>2, <2>1 DEF ForgeKnown, OpenPulls
<1>6. commits' = commits /\ (blocked => blocked') /\ pulls'[n].head = pulls[n].head
  <2>1. ~(commits' = commits + 1 /\ pulls'[n].head = commits')
    BY <1>1, <1>3
  <2> QED BY <1>2, <1>4, <2>1, Zenon DEF ForgeMoves
<1> QED BY <1>3, <1>5, <1>6, Zenon DEF MayMerge

LEMMA Write4Merge ==
  Accepts(Write("merge")) <=> MayMerge(ActingPr)
  BY DEF Accepts, Write, MayMerge

LEMMA ForgeIsKnown ==
  ASSUME OutcomeInductive
  PROVE  ForgeKnown
  BY DEF OutcomeInductive, Known, ForgeKnown, PromiseInductive, MergeInductive, TypeOK

LEMMA StepMoves ==
  ASSUME OutcomeInductive, [Next]_vars
  PROVE  ForgeMoves
<1>1. ForgeKnown /\ PromiseInductive /\ inflight \subseteq Writes
  BY ForgeIsKnown DEF OutcomeInductive, PromiseInductive, MergeInductive, TypeOK
<1>2. ASSUME NEW op \in WriteOps, Sent(op) PROVE ForgeMoves
  BY <1>1, <1>2, SentIsBacked, WriteMovesForge DEF Sent
<1>3. CASE UNCHANGED forgeVars
  BY <1>1, <1>3, IdleForge
<1>4. CASE Step
  <2>1. \/ \E op \in WriteOps : Sent(op)
        \/ UNCHANGED forgeVars
    BY <1>4 DEF Step, AutoMergeEligible, JudgeChangelog, FindOpenPullRequest, FindConflicting,
       CheckCi, Sleep, FindNote, EditNote, GateReview, PushBranch, OpenPullRequest,
       ClosePullRequest, PostNote, PatchClosed, DeleteRef, MergePullRequest, RecordOutcome,
       Refused, WriteOps
  <2> QED BY <1>2, <1>3, <2>1
<1>5. CASE Lost \/ Unheard \/ Late \/ Denied \/ ChangeModel \/ UNCHANGED vars
  BY <1>2, <1>3, <1>5 DEF Lost, Unheard, Late, Denied, ChangeModel, vars
<1>6. CASE Land
  BY <1>1, <1>3, <1>6, WriteMovesForge DEF Land
<1>7. CASE HumanMove
  BY <1>1, <1>7, PeopleMoveForge DEF HumanMove
<1> QED BY <1>4, <1>5, <1>6, <1>7 DEF Next

-----------------------------------------------------------------------------
(* The driver: it rests in its state, or an answer takes it on.            *)

Rests == State' = State /\ approved' = approved /\ phase' \in {phase, "failed"}

\* The pull request a state carries is the one it was told of.
LEMMA AnswerCarries ==
  ASSUME NEW state \in BumpStates, NEW event \in Events, Answers(state, event),
         NEW closes \in BOOLEAN, NEW grants \in BOOLEAN
  PROVE  LET next == Advance(state, event, closes, grants).next IN
         /\ state.kind = "judged" => next.pr = event.pr
         /\ state.kind = "awaiting_ci" => next.outcome.pr = state.pr
<1>1. CASE state.kind = "judged"
  BY <1>1 DEF Advance, FromJudged, Answers, AnswerTo, Advanced
<1>2. CASE state.kind = "awaiting_ci"
  BY <1>2 DEF Advance, FromAwaitingCi, Resolve, MayGate, Record, Carry, Answers, AnswerTo, Advanced
<1> QED BY <1>1, <1>2

LEMMA CallsThatBegin ==
  ASSUME NEW state \in BumpStates
  PROVE  /\ FirstCall(EffectOf(state.kind)) \notin {"push", "post_pr", "find_conflicting", "post_note"}
         /\ state.kind = "judged" => FirstCall(EffectOf(state.kind)) = "find_open"
         /\ FirstCall(EffectOf(state.kind)) = "find_open" => state.kind = "judged"
  BY StateShape DEF EffectOf, FirstCall

\* Fed, the driver begins the next state's activity afresh, or is done.
LEMMA FeedBegins ==
  ASSUME PromiseInductive, PromiseInductive', Running, NEW event \in Events,
         Answers(State, event), Feed(event)
  PROVE  /\ State' = Advance(State, event, closeOnRed, eligible).next
         /\ State \in BumpStates /\ State' \in BumpStates
         /\ closeOnRed \in BOOLEAN /\ eligible \in BOOLEAN
         /\ phase' = IF State.kind = "recorded" THEN "completed" ELSE "running"
         /\ call' \notin {"push", "post_pr", "find_conflicting", "post_note"}
         /\ tries' = 0
<1>1. /\ Driver /\ Driver' /\ InStep /\ InStep'
      /\ closeOnRed \in BOOLEAN /\ eligible \in BOOLEAN
  BY DEF PromiseInductive, MergeInductive, TypeOK, Driver
<1>2. State \in BumpStates /\ State' \in BumpStates
  BY <1>1 DEF Driver, Transitions, State
<1>3. /\ State' = Advance(State, event, closeOnRed, eligible).next
      /\ phase' = IF State.kind = "recorded" THEN "completed" ELSE "running"
  BY <1>1, FeedGoes
<1>4. call' \notin {"push", "post_pr", "find_conflicting", "post_note"}
  <2>1. CASE phase' = "running"
    <3>1. transition'.effects[1] = EffectOf(State'.kind)
      BY <1>1, <2>1 DEF InStep, Running
    <3>2. call' = FirstCall(EffectOf(State'.kind))
      BY <2>1, <3>1 DEF Feed
    <3> QED BY <1>2, <3>2, CallsThatBegin
  <2>2. CASE phase' # "running"
    BY <2>2 DEF Feed
  <2> QED BY <2>1, <2>2
<1> QED BY <1>1, <1>2, <1>3, <1>4 DEF Feed

\* A failed attempt begins the same activity again, or is the last one.
LEMMA FailBegins ==
  ASSUME PromiseInductive, Running, FailAttempt
  PROVE  /\ State' = State /\ State \in BumpStates
         /\ \/ phase' = "failed" /\ tries + 1 >= MaxAttempts
            \/ /\ phase' = phase /\ tries' = tries + 1
               /\ call' \notin {"push", "post_pr", "find_conflicting", "post_note"}
<1>1. Driver /\ InStep /\ State \in BumpStates
  BY StateType, TypeParts DEF PromiseInductive, MergeInductive
<1>2. transition.effects[1] = EffectOf(State.kind)
  BY <1>1 DEF InStep
<1> QED BY <1>1, <1>2, CallsThatBegin DEF FailAttempt, State

LEMMA OutcomePr ==
  ASSUME PromiseInductive
  PROVE  /\ State \in BumpStates
         /\ State.kind = "awaiting_ci" => State.pr \in PrRefs
         /\ Acting => State.outcome.pr \in PrRefs /\ ActingPr = State.outcome.pr
         /\ Acting <=> State.kind \in {"closing", "gate_reviewing", "merging", "recorded"}
<1>1. Driver
  BY TypeParts DEF PromiseInductive, MergeInductive
<1>2. State \in BumpStates /\ (Acting <=> State.kind \in {"closing", "gate_reviewing", "merging", "recorded"})
  BY <1>1, ActingKinds
<1> QED BY <1>2, StateShape DEF Acting, ActingPr, AwaitingCi, Outcomes

LEMMA RestsKnown ==
  ASSUME OutcomeInductive, ForgeTypeOK', ForgeMoves, State' = State
  PROVE  Known'
<1>1. ForgeKnown /\ Known
  BY ForgeIsKnown DEF OutcomeInductive
<1>2. ForgeKnown'
  BY <1>1, StillKnown
<1>3. /\ State.kind = "awaiting_ci" => State.pr \in PrRefs /\ Handle(State.pr)
      /\ Acting => State.outcome.pr \in PrRefs /\ Handle(State.outcome.pr)
      /\ Acting' <=> Acting
  BY <1>1, OutcomePr DEF OutcomeInductive, Known, Acting
<1>4. State'.kind = "awaiting_ci" => Handle(State.pr)'
  BY <1>1, <1>3, HandleStays DEF Handle
<1>5. Acting' => Handle(State.outcome.pr)'
  BY <1>1, <1>3, HandleStays DEF Handle
<1> QED BY <1>2, <1>4, <1>5 DEF Known, ForgeKnown

LEMMA FeedKnown ==
  ASSUME OutcomeInductive, PromiseInductive', ForgeMoves, Running, NEW event \in Events,
         Answers(State, event), Feed(event),
         State.kind = "judged" =>
           event.pr.number \in DOMAIN pulls' /\ event.pr.sha <= commits'
  PROVE  Known'
<1>1. ForgeKnown /\ Known /\ PromiseInductive /\ ForgeTypeOK'
  BY ForgeIsKnown DEF OutcomeInductive, PromiseInductive, MergeInductive, TypeOK
<1>2. ForgeKnown'
  BY <1>1, StillKnown
<1>3. /\ State \in BumpStates /\ State' \in BumpStates
      /\ State' = Advance(State, event, closeOnRed, eligible).next
      /\ closeOnRed \in BOOLEAN /\ eligible \in BOOLEAN
  BY <1>1, FeedBegins
<1>4. /\ State.kind = "discovered" => State'.kind = "judged"
      /\ State.kind = "judged" => State'.kind = "awaiting_ci" /\ State'.pr = event.pr
      /\ State.kind = "awaiting_ci" =>
           State'.kind \in {"gate_reviewing", "closing", "recorded"} /\ State'.outcome.pr = State.pr
      /\ State.kind \in {"gate_reviewing", "merging", "closing", "recorded"} =>
           State'.kind \in {"merging", "recorded"} /\ State'.outcome = State.outcome
  BY <1>3, AnswerGoes, AnswerCarries
<1>5. /\ State.kind = "awaiting_ci" => State.pr \in PrRefs /\ Handle(State.pr)
      /\ Acting => State.outcome.pr \in PrRefs /\ Handle(State.outcome.pr)
      /\ Acting <=> State.kind \in {"closing", "gate_reviewing", "merging", "recorded"}
      /\ Acting' <=> State'.kind \in {"closing", "gate_reviewing", "merging", "recorded"}
  <2>1. Acting' <=> State'.kind \in {"closing", "gate_reviewing", "merging", "recorded"}
    BY <1>3, StateShape DEF Acting
  <2> QED BY <1>1, <2>1, OutcomePr DEF Known
<1>6. State'.kind = "awaiting_ci" => Handle(State.pr)'
  BY <1>3, <1>4, StateShape DEF Handle
<1>7. Acting' => Handle(State.outcome.pr)'
  <2>1. CASE State.kind = "awaiting_ci"
    BY <1>1, <1>4, <1>5, <2>1, HandleStays DEF Handle
  <2>2. CASE Acting
    BY <1>1, <1>4, <1>5, <2>2, HandleStays DEF Handle
  <2> QED BY <1>3, <1>4, <1>5, <2>1, <2>2, StateShape
<1> QED BY <1>2, <1>6, <1>7 DEF Known, ForgeKnown

-----------------------------------------------------------------------------
(* Success leaves its mark.                                                *)

LEMMA StepDeeds ==
  ASSUME PromiseInductive, [Next]_vars
  PROVE  DeedsMove
<1>1. ForgeTypeOK /\ Backed /\ inflight \subseteq Writes
  BY DEF PromiseInductive, MergeInductive, TypeOK
<1>2. ASSUME NEW op \in WriteOps, Sent(op) PROVE DeedsMove
  BY <1>2, SentMoves
<1>3. CASE UNCHANGED forgeVars
  BY <1>3, ForgeRests
<1>4. CASE Step
  <2>1. \/ \E op \in WriteOps : Sent(op)
        \/ UNCHANGED forgeVars
    BY <1>4 DEF Step, AutoMergeEligible, JudgeChangelog, FindOpenPullRequest, FindConflicting,
       CheckCi, Sleep, FindNote, EditNote, GateReview, PushBranch, OpenPullRequest,
       ClosePullRequest, PostNote, PatchClosed, DeleteRef, MergePullRequest, RecordOutcome,
       Refused, WriteOps
  <2> QED BY <1>2, <1>3, <2>1
<1>5. CASE Lost \/ Unheard \/ Late \/ Denied \/ ChangeModel \/ UNCHANGED vars
  BY <1>2, <1>3, <1>5 DEF Lost, Unheard, Late, Denied, ChangeModel, vars
<1>6. CASE Land
  BY <1>1, <1>3, <1>6, WriteMoves DEF Land, Backed
<1>7. CASE HumanMove
  <2>1. Merged' = Merged /\ Closed' = Closed
    BY <1>1, <1>7, PeopleKeepSettled DEF HumanMove
  <2> QED BY <2>1 DEF DeedsMove, SettledStay
<1> QED BY <1>4, <1>5, <1>6, <1>7 DEF Next

LEMMA RestsDone ==
  ASSUME OutcomeInductive, ForgeMoves, DeedsMove, Rests
  PROVE  Done'
<1>1. Done /\ Known /\ Merged \subseteq Merged' /\ State' = State
  BY DEF OutcomeInductive, DeedsMove, SettledStay, Rests
<1>2. approved' => \/ State'.kind = "merging"
                   \/ State'.kind = "recorded" /\ State'.outcome.pr.number \in Merged'
  <2>1. approved' <=> approved
    BY Zenon DEF Rests
  <2>2. approved => \/ State.kind = "merging"
                    \/ State.kind = "recorded" /\ State.outcome.pr.number \in Merged
    BY <1>1, Zenon DEF Done
  <2> QED BY <1>1, <2>1, <2>2
<1>3. ASSUME phase' = "completed"
      PROVE  State'.kind = "recorded" /\ pulls'[State'.outcome.pr.number].labels # {}
  <2> DEFINE n == State.outcome.pr.number
  <2>1. phase = "completed" /\ State.kind = "recorded" /\ pulls[n].labels # {}
    BY <1>1, <1>3 DEF Rests, Done
  <2>2. n \in DOMAIN pulls
    BY <1>1, <2>1, OutcomePr DEF OutcomeInductive, Known, Handle
  <2>3. pulls[n].labels \subseteq pulls'[n].labels
    BY <2>2 DEF ForgeMoves, PullMoves
  <2> QED BY <1>1, <2>1, <2>3
<1> QED BY <1>2, <1>3 DEF Done

LEMMA FeedDone ==
  ASSUME OutcomeInductive, PromiseInductive', DeedsMove, Running, NEW event \in Events,
         Answers(State, event), Feed(event),
         approved' => approved \/ (State.kind = "gate_reviewing" /\ event.verdict = "clean"),
         State.kind = "merging" => State.outcome.pr.number \in Merged',
         State.kind = "recorded" => pulls'[State.outcome.pr.number].labels # {}
  PROVE  Done'
<1>1. Done /\ PromiseInductive /\ Backed /\ Merged \subseteq Merged'
  BY DEF OutcomeInductive, PromiseInductive, DeedsMove, SettledStay
<1>2. /\ State \in BumpStates
      /\ State' = Advance(State, event, closeOnRed, eligible).next
      /\ closeOnRed \in BOOLEAN /\ eligible \in BOOLEAN
      /\ phase' = IF State.kind = "recorded" THEN "completed" ELSE "running"
  BY <1>1, FeedBegins
<1>3. CASE State.kind \in {"discovered", "judged", "awaiting_ci"}
  <2>1. ~approved'
    BY <1>1, <1>3, BeforeDeeds, Zenon DEF NothingDone
  <2>2. phase' # "completed"
    BY <1>2, <1>3
  <2> QED BY <2>1, <2>2, Zenon DEF Done
<1>4. CASE State.kind = "gate_reviewing"
  <2>1. approved' => event.verdict = "clean"
    BY <1>1, <1>4, BeforeDeeds, Zenon DEF NothingDone
  <2>2. event.verdict = "clean" => State'.kind = "merging"
    BY <1>2, <1>4, AnswerGoes
  <2>3. phase' # "completed"
    BY <1>2, <1>4
  <2> QED BY <2>1, <2>2, <2>3, Zenon DEF Done
<1>5. CASE State.kind \in {"merging", "closing", "recorded"}
  <2>1. State'.kind = "recorded" /\ State'.outcome = State.outcome
    BY <1>2, <1>5, AnswerGoes
  <2>2. approved' => State.outcome.pr.number \in Merged'
    <3>1. CASE State.kind = "merging"
      BY <3>1
    <3>2. CASE State.kind = "closing"
      <4>1. ~MergeFacts
        BY <1>1, <3>2, Exclusive DEF Backed
      <4>2. ~approved
        BY <1>1, <4>1, Zenon DEF Backed
      <4>3. State.kind # "gate_reviewing"
        BY <3>2
      <4> QED BY <4>2, <4>3, Zenon
    <3>3. CASE State.kind = "recorded"
      <4>1. State.kind # "merging" /\ State.kind # "gate_reviewing"
        BY <3>3
      <4>2. approved' => approved
        BY <4>1, Zenon
      <4>3. approved => State.outcome.pr.number \in Merged
        BY <1>1, <4>1, Zenon DEF Done
      <4> QED BY <1>1, <4>2, <4>3
    <3> QED BY <1>5, <3>1, <3>2, <3>3
  <2>3. phase' = "completed" => pulls'[State'.outcome.pr.number].labels # {}
    BY <1>2, <2>1
  <2> QED BY <2>1, <2>2, <2>3 DEF Done
<1> QED BY <1>2, <1>3, <1>4, <1>5, StateShape

-----------------------------------------------------------------------------
(* Failure has a cause: what excuses one goes on excusing it, and each      *)
(* other failed attempt is charged to a fault or to a move.                 *)

Recorded ==
  /\ scars \subseteq scars'
  /\ faults <= faults' /\ moves <= moves'

LEMMA ExcusedStays ==
  ASSUME OutcomeInductive, ForgeTypeOK', ForgeMoves, Recorded, State' = State, Excused
  PROVE  Excused'
<1>1. ForgeKnown /\ PromiseInductive /\ Known
  BY ForgeIsKnown DEF OutcomeInductive
<1>2. SettledUnseen => SettledUnseen'
  BY DEF SettledUnseen, ForgeMoves, PullMoves
<1>3. LeftBehind => LeftBehind'
  BY DEF LeftBehind, Recorded, BranchLeftBehind
<1>4. ASSUME State.kind = "merging", ~Accepts(Write("merge"))
      PROVE  ~Accepts(Write("merge"))'
  <2>1. ActingPr' = ActingPr
    BY DEF ActingPr
  <2>2. ActingPr \in PrRefs /\ Handle(ActingPr)
    BY <1>1, <1>4, OutcomePr DEF Known
  <2>3. ~MayMerge(ActingPr)
    BY <1>4, Write4Merge
  <2>4. ~MayMerge(ActingPr)'
    BY <1>1, <2>1, <2>2, <2>3, RefusedStays DEF MayMerge
  <2> QED BY <2>4 DEF Accepts, Write, MayMerge
<1> QED BY <1>2, <1>3, <1>4 DEF Excused

LEMMA Budgets ==
  ASSUME OutcomeInductive, Recorded, faults' \in Nat, moves' \in Nat
  PROVE  /\ tries \in Nat /\ Owed \in Nat /\ MaxAttempts \in Nat
         /\ faults \in Nat /\ moves \in Nat /\ faults <= faults' /\ moves <= moves'
<1>1. /\ tries \in 0..(MaxAttempts - 1) /\ MaxAttempts \in Nat \ {0}
      /\ faults \in 0..MaxFaults /\ moves \in 0..MaxMoves
      /\ MaxFaults \in Nat /\ MaxMoves \in Nat
  BY BoundsAssumption DEF OutcomeInductive, PromiseInductive, MergeInductive, TypeOK
<1>2. faults \in Nat /\ moves \in Nat /\ tries \in Nat
  BY <1>1
<1>3. faults <= faults' /\ moves <= moves'
  BY DEF Recorded
<1>4. Owed \in Nat
  BY DEF Owed
<1> QED BY <1>1, <1>2, <1>3, <1>4

LEMMA StillDenied ==
  ASSUME Recorded
  PROVE  Denial => Denial'
  BY DEF Recorded, Denial

\* The sums, for the counters of one step.
LEMMA Sums ==
  ASSUME NEW t \in Nat, NEW f \in Nat, NEW m \in Nat, NEW f2 \in Nat, NEW m2 \in Nat,
         f <= f2, m <= m2
  PROVE  /\ \A limit \in Nat : f + m >= limit => f2 + m2 >= limit
         /\ \A limit \in Nat : t + 1 >= limit /\ t + 1 <= f2 + m2 => f2 + m2 >= limit
         /\ \A o \in Nat, o2 \in Nat :
              t + o <= f + m /\ (o2 <= o \/ (o2 <= 1 /\ m2 = m + 1)) => t + o2 <= f2 + m2
  OBVIOUS

LEMMA NoDebt ==
  ASSUME NEW f \in Nat, NEW m \in Nat
  PROVE  0 + 0 <= f + m
  OBVIOUS

\* The driver where it was.
LEMMA IdleCharged ==
  ASSUME OutcomeInductive, ForgeTypeOK', ForgeMoves, Recorded, State' = State,
         faults' \in Nat, moves' \in Nat, phase' = phase, tries' = tries,
         Running => Owed' <= Owed \/ moves' = moves + 1
  PROVE  Charged'
<1>1. Charged
  BY DEF OutcomeInductive
<1>2. /\ tries \in Nat /\ Owed \in Nat /\ MaxAttempts \in Nat
      /\ faults \in Nat /\ moves \in Nat /\ faults <= faults' /\ moves <= moves'
  BY Budgets
<1>7. /\ faults + moves >= MaxAttempts => faults' + moves' >= MaxAttempts
      /\ \A o \in Nat, o2 \in Nat :
           tries + o <= faults + moves /\ (o2 <= o \/ (o2 <= 1 /\ moves' = moves + 1))
             => tries + o2 <= faults' + moves'
  BY <1>2, Sums
<1>6. Owed' \in Nat /\ Owed' <= 1
  BY DEF Owed
<1>3. Excused => Excused'
  BY ExcusedStays
<1>4. phase' = "failed" => Denial' \/ faults' + moves' >= MaxAttempts \/ Excused'
  <2>1. phase = "failed" => Denial \/ faults + moves >= MaxAttempts \/ Excused
    BY <1>1, Zenon DEF Charged
  <2> QED BY <1>3, <1>7, <2>1, StillDenied, Zenon
<1>5. ASSUME phase' = "running", ~Excused'
      PROVE  tries' + Owed' <= faults' + moves'
  <2>1. tries + Owed <= faults + moves
    BY <1>1, <1>3, <1>5 DEF Charged, Running
  <2>2. Owed' <= Owed \/ moves' = moves + 1
    BY <1>5 DEF Running
  <2> QED BY <1>2, <1>6, <1>7, <2>1, <2>2
<1> QED BY <1>4, <1>5, Zenon DEF Charged, Running

\* A call that ended well, in the same state or with an answer.
LEMMA FreshCharged ==
  ASSUME faults' \in Nat, moves' \in Nat, phase' # "failed", tries' = 0,
         call' \notin {"post_pr", "find_conflicting"}
  PROVE  Charged'
<1>1. Owed' = 0
  BY DEF Owed
<1>2. 0 + 0 <= faults' + moves'
  BY NoDebt
<1>3. tries' + Owed' <= faults' + moves'
  BY <1>1, <1>2
<1> QED BY <1>3, Zenon DEF Charged

LEMMA FailCharged ==
  ASSUME OutcomeInductive, ForgeTypeOK', ForgeMoves, Recorded,
         faults' \in Nat, moves' \in Nat, Running, FailAttempt,
         Excused \/ tries + 1 <= faults' + moves'
  PROVE  Charged'
<1>1. /\ State' = State
      /\ \/ phase' = "failed" /\ tries + 1 >= MaxAttempts
         \/ /\ phase' = phase /\ tries' = tries + 1
            /\ call' \notin {"push", "post_pr", "find_conflicting", "post_note"}
  BY FailBegins DEF OutcomeInductive
<1>2. /\ tries \in Nat /\ MaxAttempts \in Nat
      /\ tries + 1 >= MaxAttempts /\ tries + 1 <= faults' + moves'
           => faults' + moves' >= MaxAttempts
  BY Budgets, Sums
<1>3. Excused' \/ tries + 1 <= faults' + moves'
  BY <1>1, ExcusedStays
<1>4. CASE phase' = "failed" /\ tries + 1 >= MaxAttempts
  <2>1. phase' # "running"
    BY <1>4
  <2> QED BY <1>2, <1>3, <1>4, <2>1, Zenon DEF Charged, Running
<1>5. CASE phase' = phase /\ tries' = tries + 1
           /\ call' \notin {"push", "post_pr", "find_conflicting", "post_note"}
  <2>1. Owed' = 0 /\ phase' = "running"
    BY <1>5 DEF Owed, Running
  <2>2. tries' + Owed' = tries + 1
    BY <1>2, <1>5, <2>1
  <2>3. phase' # "failed"
    BY <2>1
  <2> QED BY <1>3, <2>2, <2>3, Zenon DEF Charged
<1> QED BY <1>1, <1>4, <1>5

\* An attempt that is spared a fault fails for an excuse, or because the
\* branch was deleted after the push.
LEMMA FailsUnhit ==
  ASSUME OutcomeInductive, Running, FailAttempt,
         FindConflicting \/ PushBranch \/ MergePullRequest
  PROVE  Excused \/ (call = "find_conflicting" /\ ref = 0)
<1>1. /\ PromiseInductive /\ ForgeKnown /\ Driver /\ InStep /\ BranchInStep
  BY ForgeIsKnown, TypeParts DEF OutcomeInductive, PromiseInductive, MergeInductive
<1>2. CASE FindConflicting
  <2>1. State.kind = "judged" /\ call = "find_conflicting"
    BY <1>1, <1>2, CallTellsKind DEF FindConflicting, At
  <2>2. OpenPulls = {}
    <3>1. ASSUME NEW pr \in PrRefs, Ready(pr) PROVE FALSE
      <4>1. transition' = Advance(State, [kind |-> "pull_request_ready", pr |-> pr], closeOnRed, eligible)
        BY <3>1 DEF Ready, Feed
      <4>2. transition'.next.kind = "awaiting_ci"
        BY <2>1, <4>1 DEF Advance, FromJudged, Advanced
      <4>3. transition' = transition
        BY DEF FailAttempt
      <4> QED BY <2>1, <4>2, <4>3 DEF State
    <3> QED BY <1>1, <1>2, <3>1, OpenPullRef DEF FindConflicting, ForgeKnown
  <2> QED BY <1>1, <2>1, <2>2 DEF BranchInStep
<1>3. CASE PushBranch
  <2>1. State.kind = "judged" /\ call = "push"
    BY <1>1, <1>3, CallTellsKind DEF PushBranch, Sent, Refused, At
  <2>2. CASE BaseHasBump
    <3>1. PICK n \in DOMAIN pulls : pulls[n].state = "merged"
      BY <2>2 DEF BaseHasBump
    <3>2. pulls[n].by \in {"froot", "human"}
      BY <1>1, <3>1, PullsAre DEF ForgeKnown, Pulls, Actors
    <3>3. n \notin Merged
      BY <1>1, <2>1, BeforeDeeds DEF NothingDone
    <3>4. pulls[n].by = "human"
      BY <3>1, <3>2, <3>3 DEF Merged, SettledByFroot
    <3> QED BY <2>1, <3>4 DEF Excused, SettledUnseen
  <2>3. CASE Refused("push")
    <3>1. ref # 0
      BY <2>3 DEF Refused, Accepts, Write
    <3> QED BY <1>1, <2>1, <3>1 DEF BranchInStep
  <2>4. CASE Continue("post_pr")
    <3>1. call' = "post_pr"
      BY <2>4 DEF Continue
    <3>2. phase' # "failed"
      BY <2>4 DEF Continue, Running
    <3>3. call' \notin {"push", "post_pr", "find_conflicting", "post_note"}
      BY <1>1, <3>2, FailBegins
    <3> QED BY <3>1, <3>3
  <2> QED BY <1>3, <2>2, <2>3, <2>4 DEF PushBranch
<1>4. CASE MergePullRequest
  <2>1. State.kind = "merging"
    BY <1>1, <1>4, CallTellsKind DEF MergePullRequest, Sent, Refused
  <2>2. CASE Refused("merge")
    BY <2>1, <2>2 DEF Refused, Excused
  <2>3. CASE Feed([kind |-> "pull_request_merged"])
    <3>1. transition'.next.kind = "recorded"
      BY <2>1, <2>3 DEF Feed, Advance, FromMerging, Expecting, Record, Carry, Advanced
    <3>2. transition' = transition
      BY DEF FailAttempt
    <3> QED BY <2>1, <3>1, <3>2 DEF State
  <2> QED BY <1>4, <2>2, <2>3 DEF MergePullRequest
<1> QED BY <1>2, <1>3, <1>4

-----------------------------------------------------------------------------
(* While it opens: the branch and its pull request, as the next call needs  *)
(* them.                                                                   *)

BranchHolds ==
  /\ ref = 0 /\ ref' # 0 => LeftBehind
  /\ OpenPulls # {} /\ OpenPulls' = {} => SettledUnseen'

LEMMA OpenKept ==
  ASSUME DOMAIN pulls' = DOMAIN pulls,
         \A n \in DOMAIN pulls : pulls'[n].state = pulls[n].state
  PROVE  OpenPulls' = OpenPulls
  BY DEF OpenPulls

LEMMA MoveKeepsOpen ==
  ASSUME ForgeTypeOK, MoveBranch
  PROVE  OpenPulls' = OpenPulls
<1>1. \A n \in DOMAIN pulls : pulls[n] \in Pulls
  BY PullsAre
<1>2. \A n \in DOMAIN pulls : pulls'[n].state = pulls[n].state
  BY <1>1 DEF MoveBranch, Pulls
<1> QED BY <1>2, OpenKept DEF MoveBranch

LEMMA PeopleSettle ==
  ASSUME ForgeTypeOK, NEW state, pulls' = Settle(OpenPulls, state, "human"), OpenPulls # {}
  PROVE  SettledUnseen'
<1>1. PICK n \in DOMAIN pulls : n \in OpenPulls
  BY DEF OpenPulls
<1>2. pulls[n] \in Pulls /\ n \in DOMAIN pulls'
  BY PullsAre DEF Settle
<1>3. pulls'[n] = [pulls[n] EXCEPT !.state = state, !.by = "human"]
  BY <1>1 DEF Settle
<1>4. pulls'[n].by = "human"
  BY <1>2, <1>3 DEF Pulls
<1> QED BY <1>2, <1>4 DEF SettledUnseen

LEMMA PeopleHold ==
  ASSUME ForgeTypeOK, Human
  PROVE  BranchHolds
<1>1. CASE HumanPush
  BY <1>1, MoveKeepsOpen DEF HumanPush, BranchHolds
<1>2. CASE HumanDelete
  BY <1>2, PeopleSettle DEF HumanDelete, DropBranch, BranchHolds
<1>3. CASE HumanOpens
  BY <1>3 DEF HumanOpens, BranchHolds, branchVars
<1>4. CASE HumanSettles
  BY <1>4, PeopleSettle DEF HumanSettles, BranchHolds, branchVars
<1>5. CASE HumanBlocks
  BY <1>5 DEF HumanBlocks, BranchHolds, OpenPulls
<1> QED BY <1>1, <1>2, <1>3, <1>4, <1>5 DEF Human

LEMMA IdleHolds ==
  ASSUME UNCHANGED forgeVars
  PROVE  BranchHolds
  BY DEF BranchHolds, OpenPulls, forgeVars, branchVars

\* A late write that arrives while the pull request is being opened.
LEMMA LandHolds ==
  ASSUME OutcomeInductive, State.kind \in {"discovered", "judged"}, Land
  PROVE  BranchHolds
<1>1. PICK w \in inflight : IF Accepts(w) THEN Perform(w) ELSE UNCHANGED forgeVars
  BY DEF Land
<1>2. /\ w \in Writes /\ ForgeTypeOK
      /\ w.op \in {"push", "post_pr"} => LeftBehind
      /\ w.op \notin {"merge", "patch_closed", "delete_ref"}
  BY BeforeDeeds
     DEF OutcomeInductive, PromiseInductive, MergeInductive, TypeOK, BranchInStep, NothingDone
<1>3. CASE Accepts(w) /\ Perform(w)
  <2>1. CASE w.op = "push"
    BY <1>2, <1>3, <2>1, MoveKeepsOpen DEF Perform, BranchHolds
  <2>2. CASE w.op = "post_pr"
    BY <1>3, <2>2 DEF Perform, Accepts, BranchHolds, branchVars
  <2>3. CASE w.op \in {"post_note", "add_labels"}
    <3>1. \A n \in DOMAIN pulls : pulls[n] \in Pulls
      BY <1>2, PullsAre
    <3>2. /\ DOMAIN pulls' = DOMAIN pulls /\ ref' = ref
          /\ \A n \in DOMAIN pulls : pulls'[n].state = pulls[n].state
      BY <1>3, <2>3, <3>1 DEF Perform, Pulls, branchVars
    <3> QED BY <3>2, OpenKept DEF BranchHolds
  <2> QED BY <1>2, <2>1, <2>2, <2>3 DEF Writes, WriteOps
<1> QED BY <1>1, <1>3, IdleHolds

LateIsScarred ==
  \A w \in inflight' : w \in inflight \/ (w.op \in {"push", "post_pr"} => LeftBehind')

LEMMA BranchKeeps ==
  ASSUME OutcomeInductive, Recorded, State' = State, LateIsScarred,
         State.kind = "discovered" => (ref = 0 /\ ref' # 0 => LeftBehind),
         phase' = "running" /\ State.kind = "judged" /\ ~Excused' =>
           /\ call' = "push" => ref' = 0
           /\ call' \in {"find_open", "find_conflicting"} /\ ref' # 0 => OpenPulls' # {}
  PROVE  BranchInStep'
<1>1. BranchInStep /\ (LeftBehind => LeftBehind')
  BY DEF OutcomeInductive, Recorded, LeftBehind
<1>2. State'.kind = "discovered" => ref' = 0 \/ LeftBehind'
  BY <1>1 DEF BranchInStep
<1>3. \A w \in inflight' : w.op \in {"push", "post_pr"} => LeftBehind'
  BY <1>1 DEF BranchInStep, LateIsScarred
<1> QED BY <1>2, <1>3 DEF BranchInStep, Running

\* The driver where it was.
LEMMA IdleBranch ==
  ASSUME OutcomeInductive, ForgeTypeOK', ForgeMoves, Recorded, State' = State, LateIsScarred,
         phase' = phase, call' = call,
         State.kind \in {"discovered", "judged"} => BranchHolds
  PROVE  BranchInStep'
<1>1. Excused => Excused'
  BY ExcusedStays
<1>2. ASSUME phase' = "running", State.kind = "judged", ~Excused'
      PROVE  /\ call' = "push" => ref' = 0
             /\ call' \in {"find_open", "find_conflicting"} /\ ref' # 0 => OpenPulls' # {}
  <2>1. ~LeftBehind /\ ~SettledUnseen'
    BY <1>1, <1>2 DEF Excused
  <2> QED BY <1>1, <1>2, <2>1 DEF OutcomeInductive, BranchInStep, BranchHolds, Running
<1> QED BY <1>2, BranchKeeps DEF BranchHolds

LEMMA FeedBranch ==
  ASSUME OutcomeInductive, PromiseInductive', Recorded, LateIsScarred, Running,
         NEW event \in Events, Answers(State, event), Feed(event),
         State.kind = "discovered" => UNCHANGED forgeVars
  PROVE  BranchInStep'
<1>1. BranchInStep /\ PromiseInductive /\ (LeftBehind => LeftBehind')
  BY DEF OutcomeInductive, Recorded, LeftBehind
<1>2. /\ State' = Advance(State, event, closeOnRed, eligible).next
      /\ State \in BumpStates /\ closeOnRed \in BOOLEAN /\ eligible \in BOOLEAN
      /\ call' \notin {"push", "post_pr", "find_conflicting", "post_note"}
  BY <1>1, FeedBegins
<1>3. /\ State.kind = "discovered" => State'.kind = "judged"
      /\ State.kind # "discovered" => State'.kind \notin {"discovered", "judged"}
  BY <1>2, AnswerGoes, StateShape
<1>4. \A w \in inflight' : w.op \in {"push", "post_pr"} => LeftBehind'
  BY <1>1 DEF BranchInStep, LateIsScarred
<1>5. CASE State.kind = "discovered"
  <2>1. ref' = 0 \/ Excused'
    BY <1>1, <1>3, <1>5 DEF BranchInStep, Excused, forgeVars, branchVars
  <2> QED BY <1>2, <1>3, <1>4, <1>5, <2>1 DEF BranchInStep
<1>6. CASE State.kind # "discovered"
  BY <1>3, <1>4, <1>6 DEF BranchInStep
<1> QED BY <1>5, <1>6

\* A failed attempt begins by looking for an open pull request.
LEMMA FailBranch ==
  ASSUME OutcomeInductive, Recorded, LateIsScarred, Running, FailAttempt,
         State.kind = "discovered" => ref' = ref,
         State.kind = "judged" => Excused' \/ (ref' # 0 => OpenPulls' # {})
  PROVE  BranchInStep'
<1>1. /\ State' = State
      /\ \/ phase' = "failed"
         \/ call' \notin {"push", "find_conflicting"}
  BY FailBegins DEF OutcomeInductive
<1> QED BY <1>1, BranchKeeps

-----------------------------------------------------------------------------
(* The steps.                                                              *)

LEMMA StepFacts ==
  ASSUME OutcomeInductive, [Next]_vars
  PROVE  /\ PromiseInductive /\ PromiseInductive' /\ ForgeMoves /\ DeedsMove
         /\ ForgeTypeOK /\ ForgeTypeOK' /\ Driver /\ InStep
         /\ faults \in Nat /\ moves \in Nat /\ faults' \in Nat /\ moves' \in Nat
<1>1. PromiseInductive /\ PromiseInductive' /\ ForgeMoves /\ DeedsMove
  BY NextPromises, StepMoves, StepDeeds DEF OutcomeInductive
<1>2. TypeOK /\ TypeOK' /\ InStep
  BY <1>1 DEF PromiseInductive, MergeInductive
<1>3. MaxFaults \in Nat /\ MaxMoves \in Nat
  BY BoundsAssumption
<1> QED BY <1>1, <1>2, <1>3 DEF TypeOK, Driver

\* Late writes of the others do not delete the branch of a bump that opens.
LEMMA LandKeepsBranch ==
  ASSUME OutcomeInductive, State.kind \in {"discovered", "judged"}, Land, ref # 0
  PROVE  ref' # 0
<1>1. PICK w \in inflight : IF Accepts(w) THEN Perform(w) ELSE UNCHANGED forgeVars
  BY DEF Land
<1>2. /\ w \in Writes /\ commits \in Nat
      /\ w.op \notin {"merge", "patch_closed", "delete_ref"}
  BY BeforeDeeds
     DEF OutcomeInductive, PromiseInductive, MergeInductive, TypeOK, ForgeTypeOK, NothingDone
<1>3. CASE Perform(w)
  BY <1>2, <1>3 DEF Perform, MoveBranch, branchVars, Writes, WriteOps
<1> QED BY <1>1, <1>3 DEF forgeVars, branchVars

LEMMA OutsideOutcome ==
  ASSUME OutcomeInductive, [Next]_vars, Land \/ HumanMove \/ ChangeModel \/ UNCHANGED vars
  PROVE  OutcomeInductive'
<1>1. /\ PromiseInductive /\ PromiseInductive' /\ ForgeMoves /\ DeedsMove
      /\ ForgeTypeOK /\ ForgeTypeOK' /\ Driver /\ InStep
      /\ faults \in Nat /\ moves \in Nat /\ faults' \in Nat /\ moves' \in Nat
  BY StepFacts
<1>2. /\ UNCHANGED <<phase, transition, call, tries, faults, approved, scars>>
      /\ inflight' \subseteq inflight /\ (moves' = moves \/ moves' = moves + 1)
  BY DEF Land, HumanMove, ChangeModel, vars, driverVars, historyVars, budgetVars
<1>3. /\ State' = State /\ Rests /\ Recorded /\ LateIsScarred
  <2>1. moves <= moves'
    BY <1>1, <1>2
  <2>2. faults <= faults'
    BY <1>1, <1>2
  <2>3. scars \subseteq scars' /\ State' = State /\ approved' = approved /\ phase' = phase
    BY <1>2 DEF State
  <2> QED BY <1>2, <2>1, <2>2, <2>3 DEF Rests, Recorded, LateIsScarred
<1>4. Running => Owed' <= Owed \/ moves' = moves + 1
  <2>1. CASE HumanMove \/ ChangeModel
    BY <2>1 DEF HumanMove, ChangeModel
  <2>2. CASE UNCHANGED forgeVars
    <3>1. Owed' = Owed /\ Owed \in Nat
      BY <1>2, <2>2 DEF Owed, forgeVars, branchVars
    <3> QED BY <3>1
  <2>3. CASE Land
    <3>1. CASE call \in {"post_pr", "find_conflicting"} /\ Running
      <4>1. State.kind = "judged"
        BY <1>1, <3>1, CallTellsKind DEF At, Running
      <4>2. ref # 0 => ref' # 0
        BY <2>3, <4>1, LandKeepsBranch
      <4> QED BY <1>2, <4>2 DEF Owed
    <3>2. CASE call \notin {"post_pr", "find_conflicting"}
      BY <1>2, <3>2 DEF Owed
    <3> QED BY <3>1, <3>2
  <2> QED BY <2>1, <2>2, <2>3 DEF vars
<1>5. State.kind \in {"discovered", "judged"} => BranchHolds
  BY <1>1, LandHolds, PeopleHold, IdleHolds DEF HumanMove, ChangeModel, vars
<1>6. Known' /\ Done'
  BY <1>1, <1>3, RestsKnown, RestsDone
<1>7. Charged'
  BY <1>1, <1>2, <1>3, <1>4, IdleCharged
<1>8. BranchInStep'
  BY <1>1, <1>2, <1>3, <1>5, IdleBranch
<1> QED BY <1>1, <1>6, <1>7, <1>8 DEF OutcomeInductive

LEMMA FaultOutcome ==
  ASSUME OutcomeInductive, [Next]_vars, Lost \/ Unheard \/ Late \/ Denied
  PROVE  OutcomeInductive'
<1>1. /\ PromiseInductive /\ PromiseInductive' /\ ForgeMoves /\ DeedsMove
      /\ ForgeTypeOK /\ ForgeTypeOK' /\ Driver /\ InStep
      /\ faults \in Nat /\ moves \in Nat /\ faults' \in Nat /\ moves' \in Nat
  BY StepFacts
<1>2. /\ Running /\ faults' = faults + 1 /\ moves' = moves /\ approved' = approved
      /\ scars \subseteq scars'
  BY DEF Lost, Unheard, Late, Denied, Hit
<1>3. Recorded
  <2>1. faults <= faults' /\ moves <= moves'
    BY <1>1, <1>2
  <2> QED BY <1>2, <2>1 DEF Recorded
<1>4. CASE Denied
  <2>1. /\ State' = State /\ phase' = "failed" /\ inflight' = inflight /\ UNCHANGED forgeVars
        /\ Rests
    BY <1>2, <1>4 DEF Denied, State, Rests
  <2>2. Known' /\ Done'
    BY <1>1, <2>1, RestsKnown, RestsDone
  <2>3. Denial'
    BY <1>1, <1>4 DEF Denied, Hit, Denial, Driver
  <2>4. Charged'
    <3>1. phase' # "running"
      BY <2>1
    <3> QED BY <2>3, <3>1, Zenon DEF Charged, Running
  <2>5. BranchInStep'
    BY <1>3, <2>1, BranchKeeps DEF LateIsScarred, forgeVars, branchVars
  <2> QED BY <1>1, <2>2, <2>4, <2>5 DEF OutcomeInductive
<1>5. CASE Lost \/ Unheard \/ Late
  <2>1. FailAttempt
    BY <1>5 DEF Lost, Unheard, Late
  <2>2. State' = State /\ State \in BumpStates /\ phase' \in {phase, "failed"} /\ Rests
    BY <1>1, <1>2, <2>1, FailBegins DEF Rests
  <2>3. Known' /\ Done'
    BY <1>1, <2>2, RestsKnown, RestsDone
  <2>4. Excused \/ tries + 1 <= faults' + moves'
    <3>1. tries \in Nat /\ Owed \in Nat
      BY <1>1, <1>3, Budgets
    <3>2. ~Excused => tries + Owed <= faults + moves
      BY <1>2 DEF OutcomeInductive, Charged
    <3>3. tries + Owed <= faults + moves => tries + 1 <= (faults + 1) + moves
      BY <1>1, <3>1
    <3> QED BY <1>2, <3>2, <3>3
  <2>5. Charged'
    BY <1>1, <1>2, <1>3, <2>1, <2>4, FailCharged
  <2>6. LateIsScarred
    <3>1. CASE Late
      <4>1. PICK op \in WriteOps : At(op) /\ inflight' = inflight \cup {Write(op)}
        BY <3>1 DEF Late, Leaves
      <4>2. <<op, "late">> \in scars'
        BY <3>1, <4>1 DEF Late, Hit, At
      <4>3. op \in {"push", "post_pr"} => LeftBehind'
        BY <4>2 DEF LeftBehind, BranchLeftBehind
      <4> QED BY <4>1, <4>3 DEF LateIsScarred, Write
    <3>2. CASE Lost \/ Unheard
      BY <3>2 DEF Lost, Unheard, LateIsScarred
    <3> QED BY <1>5, <3>1, <3>2
  <2>7. State.kind = "discovered" => ref' = ref
    <3>1. CASE UNCHANGED forgeVars
      BY <3>1 DEF forgeVars, branchVars
    <3>2. CASE Unheard
      <4>1. PICK op \in WriteOps : At(op)
        BY <3>2 DEF Unheard, Sent
      <4> QED BY <1>1, <4>1, CallTellsKind DEF WriteOps
    <3> QED BY <1>5, <3>1, <3>2 DEF Lost, Late
  <2>8. State.kind = "judged" => Excused' \/ (ref' # 0 => OpenPulls' # {})
    <3> SUFFICES ASSUME State.kind = "judged", ~Excused', ref' # 0
                 PROVE  OpenPulls' # {}
      OBVIOUS
    <3>1. ~Excused /\ ~LeftBehind'
      BY <1>1, <1>3, <2>2, ExcusedStays DEF Excused
    <3>2. call \in {"find_open", "push", "post_pr", "find_conflicting"}
      BY <1>1, <1>2 DEF InStep, CallsOf
    <3>3. /\ call = "push" => ref = 0
          /\ call \in {"find_open", "find_conflicting"} /\ ref # 0 => OpenPulls # {}
      BY <1>2, <3>1 DEF OutcomeInductive, BranchInStep
    <3>4. CASE Lost
      <4>1. <<call, "lost">> \in scars' /\ UNCHANGED forgeVars
        BY <3>4 DEF Lost, Hit
      <4>2. call # "post_pr"
        BY <3>1, <4>1 DEF LeftBehind, BranchLeftBehind
      <4> QED BY <3>2, <3>3, <4>1, <4>2 DEF forgeVars, branchVars, OpenPulls
    <3>5. CASE Late
      <4>1. <<call, "late">> \in scars' /\ call \in WriteOps
        BY <3>5 DEF Late, Hit, Leaves, At
      <4>2. call \notin {"push", "post_pr"}
        BY <3>1, <4>1 DEF LeftBehind, BranchLeftBehind
      <4> QED BY <3>2, <4>1, <4>2 DEF WriteOps
    <3>6. CASE Unheard
      <4>1. PICK op \in WriteOps : Sent(op)
        BY <3>6 DEF Unheard
      <4>2. call = op /\ <<call, "unheard">> \in scars'
        BY <3>6, <4>1 DEF Unheard, Hit, Sent, At
      <4>3. call # "push"
        BY <3>1, <4>2 DEF LeftBehind, BranchLeftBehind
      <4>4. op = "post_pr"
        BY <3>2, <4>2, <4>3 DEF WriteOps
      <4>5. pulls' = Append(pulls, NewPull(ref)) /\ pulls \in Seq(Pulls)
        BY <1>1, <4>1, <4>4 DEF Sent, Perform, Write, ForgeTypeOK
      <4>6. Len(pulls) + 1 \in DOMAIN pulls' /\ pulls'[Len(pulls) + 1] = NewPull(ref)
        BY <1>1, <4>5, PullsAre
      <4> QED BY <4>6 DEF OpenPulls, NewPull
    <3> QED BY <1>5, <3>4, <3>5, <3>6
  <2>9. BranchInStep'
    BY <1>2, <1>3, <2>1, <2>6, <2>7, <2>8, FailBranch
  <2> QED BY <1>1, <2>3, <2>5, <2>9 DEF OutcomeInductive
<1> QED BY <1>4, <1>5

\* No call of the driver touches the budgets, the scars or the late writes.
LEMMA StepRecords ==
  ASSUME OutcomeInductive, [Next]_vars, Untouched
  PROVE  Recorded /\ LateIsScarred
<1>1. faults' = faults /\ moves' = moves /\ scars' = scars /\ inflight' = inflight
  BY DEF Untouched, budgetVars
<1>2. faults <= faults' /\ moves <= moves'
  BY <1>1, StepFacts
<1> QED BY <1>1, <1>2 DEF Recorded, LateIsScarred

\* A call that ends with an answer.
LEMMA AnswerOutcome ==
  ASSUME OutcomeInductive, [Next]_vars, Untouched, Running,
         NEW event \in Events, Answers(State, event), Feed(event),
         State.kind = "discovered" => UNCHANGED forgeVars,
         State.kind = "judged" =>
           event.pr.number \in DOMAIN pulls' /\ event.pr.sha <= commits',
         \/ approved' = approved
         \/ State.kind = "gate_reviewing" /\ (approved' => event.verdict = "clean"),
         State.kind = "merging" => State.outcome.pr.number \in Merged',
         State.kind = "recorded" => pulls'[State.outcome.pr.number].labels # {}
  PROVE  OutcomeInductive'
<1>1. /\ PromiseInductive /\ PromiseInductive' /\ ForgeMoves /\ DeedsMove
      /\ faults' \in Nat /\ moves' \in Nat /\ Recorded /\ LateIsScarred
  BY StepFacts, StepRecords
<1>2. Known'
  BY <1>1, FeedKnown
<1>3. Done'
  <2>1. approved' => approved \/ (State.kind = "gate_reviewing" /\ event.verdict = "clean")
    BY Zenon
  <2> QED BY <1>1, <2>1, FeedDone
<1>4. Charged'
  BY <1>1, FeedBegins, FreshCharged
<1>5. BranchInStep'
  BY <1>1, FeedBranch
<1> QED BY <1>1, <1>2, <1>3, <1>4, <1>5 DEF OutcomeInductive

\* A call that fails without a fault.
LEMMA RefusalOutcome ==
  ASSUME OutcomeInductive, [Next]_vars, Untouched, approved' = approved, Running, FailAttempt,
         FindConflicting \/ PushBranch \/ MergePullRequest
  PROVE  OutcomeInductive'
<1>1. /\ PromiseInductive /\ PromiseInductive' /\ ForgeMoves /\ DeedsMove
      /\ ForgeTypeOK' /\ Driver /\ InStep /\ faults' \in Nat /\ moves' \in Nat
      /\ Recorded /\ LateIsScarred
  BY StepFacts, StepRecords
<1>2. State' = State /\ Rests
  BY <1>1, FailBegins DEF Rests
<1>3. Known' /\ Done'
  BY <1>1, <1>2, RestsKnown, RestsDone
<1>4. Excused \/ (call = "find_conflicting" /\ ref = 0)
  BY FailsUnhit
<1>5. Excused \/ tries + 1 <= faults' + moves'
  <2>1. faults' = faults /\ moves' = moves
    BY DEF Untouched, budgetVars
  <2>2. ~Excused => tries + Owed <= faults + moves
    BY DEF OutcomeInductive, Charged
  <2>3. call = "find_conflicting" /\ ref = 0 => Owed = 1
    BY DEF Owed
  <2> QED BY <1>4, <2>1, <2>2, <2>3
<1>6. Charged'
  BY <1>1, <1>5, FailCharged
<1>7. State.kind # "discovered"
  BY <1>1, CallTellsKind DEF FindConflicting, PushBranch, MergePullRequest, Sent, Refused
<1>8. Excused' \/ (ref' # 0 => OpenPulls' # {})
  <2>1. CASE Excused
    BY <1>1, <1>2, <2>1, ExcusedStays
  <2>2. CASE call = "find_conflicting" /\ ref = 0
    <3>1. FindConflicting
      BY <2>2 DEF PushBranch, MergePullRequest, Sent, Refused, At
    <3> QED BY <2>2, <3>1 DEF FindConflicting, forgeVars, branchVars
  <2> QED BY <1>4, <2>1, <2>2
<1>9. BranchInStep'
  BY <1>1, <1>7, <1>8, FailBranch
<1> QED BY <1>1, <1>3, <1>6, <1>9 DEF OutcomeInductive

\* A call after which the activity goes on.
LEMMA GoesOnOutcome ==
  ASSUME OutcomeInductive, [Next]_vars, Untouched, approved' = approved, Running,
         UNCHANGED <<phase, transition>>,
         \/ tries' = 0 /\ call' \notin {"post_pr", "find_conflicting"}
         \/ tries' = tries /\ Owed' <= Owed,
         State.kind = "discovered" => ref' = ref,
         State.kind = "judged" /\ ~Excused' =>
           /\ call' = "push" => ref' = 0
           /\ call' \in {"find_open", "find_conflicting"} /\ ref' # 0 => OpenPulls' # {}
  PROVE  OutcomeInductive'
<1>1. /\ PromiseInductive' /\ ForgeMoves /\ DeedsMove /\ ForgeTypeOK'
      /\ faults' \in Nat /\ moves' \in Nat /\ Recorded /\ LateIsScarred
  BY StepFacts, StepRecords
<1>2. State' = State /\ Rests /\ phase' = "running"
  BY DEF Rests, State, Running
<1>3. Known' /\ Done'
  BY <1>1, <1>2, RestsKnown, RestsDone
<1>4. Charged'
  BY <1>1, <1>2, FreshCharged, IdleCharged
<1>5. BranchInStep'
  BY <1>1, <1>2, BranchKeeps
<1> QED BY <1>1, <1>3, <1>4, <1>5 DEF OutcomeInductive

LEMMA QuietOutcome ==
  ASSUME OutcomeInductive, [Next]_vars,
         \/ AutoMergeEligible \/ Sleep \/ FindNote \/ EditNote
         \/ ClosePullRequest /\ (PostNote \/ PatchClosed)
  PROVE  OutcomeInductive'
<1>1. Driver /\ InStep /\ tries \in Nat
  BY StepFacts DEF Driver
<1>2. /\ Untouched /\ approved' = approved /\ Running /\ UNCHANGED <<phase, transition>>
      /\ tries' = 0 \/ tries' = tries
  BY DEF AutoMergeEligible, Sleep, FindNote, EditNote, ClosePullRequest, PostNote, PatchClosed,
         Continue, Sent, At, Running
<1>3. State.kind # "judged" /\ (State.kind = "discovered" => ref' = ref)
  BY <1>1, CallTellsKind
     DEF AutoMergeEligible, Sleep, FindNote, EditNote, PostNote, PatchClosed, Sent, forgeVars, branchVars
<1>4. call' \notin {"post_pr", "find_conflicting"}
  <2>1. CASE AutoMergeEligible
    <3>1. transition.effects[1] = EffectOf(State.kind) /\ State \in BumpStates
      BY <1>1, <1>2, StateType DEF InStep
    <3> QED BY <2>1, <3>1, CallsThatBegin DEF AutoMergeEligible
  <2>2. CASE ~AutoMergeEligible
    BY <2>2 DEF Sleep, FindNote, EditNote, PostNote, PatchClosed, Continue
  <2> QED BY <2>1, <2>2
<1>5. Owed' <= Owed
  <2>1. Owed' = 0 /\ Owed \in {0, 1}
    BY <1>4 DEF Owed
  <2> QED BY <2>1
<1> QED BY <1>2, <1>3, <1>4, <1>5, GoesOnOutcome

LEMMA JudgeOutcome ==
  ASSUME OutcomeInductive, [Next]_vars, JudgeChangelog
  PROVE  OutcomeInductive'
<1>1. PICK v \in Verdicts : Feed([kind |-> "changelog_judged", verdict |-> v])
  BY DEF JudgeChangelog, Verdicts
<1> DEFINE e == [kind |-> "changelog_judged", verdict |-> v]
<1>2. State.kind = "discovered" /\ Running
  BY StepFacts, CallTellsKind DEF JudgeChangelog
<1>3. e \in Events /\ Answers(State, e) /\ Feed(e)
  BY <1>1, <1>2 DEF Events, Answers, AnswerTo
<1>4. Untouched /\ UNCHANGED forgeVars /\ approved' = approved
  BY DEF JudgeChangelog
<1> QED BY <1>2, <1>3, <1>4, AnswerOutcome

\* The pull request is at hand.
LEMMA ReadyOutcome ==
  ASSUME OutcomeInductive, [Next]_vars, Untouched, approved' = approved, Running,
         State.kind = "judged", NEW pr \in PrRefs, Ready(pr),
         pr.number \in DOMAIN pulls', pr.sha <= commits'
  PROVE  OutcomeInductive'
<1> DEFINE e == [kind |-> "pull_request_ready", pr |-> pr]
<1>1. e \in Events /\ Answers(State, e) /\ Feed(e) /\ e.pr = pr
  BY DEF Events, Answers, AnswerTo, Ready
<1> QED BY <1>1, AnswerOutcome

LEMMA FoundOutcome ==
  ASSUME OutcomeInductive, [Next]_vars, Untouched, approved' = approved, Running,
         State.kind = "judged", UNCHANGED forgeVars,
         \E n \in OpenPulls : Ready(PullRequestRef(n))
  PROVE  OutcomeInductive'
<1>1. PICK n \in OpenPulls : Ready(PullRequestRef(n))
  OBVIOUS
<1>2. ForgeKnown
  BY ForgeIsKnown
<1>3. PullRequestRef(n) \in PrRefs
  BY <1>2, OpenPullRef DEF ForgeKnown
<1>4. /\ PullRequestRef(n).number \in DOMAIN pulls'
      /\ PullRequestRef(n).sha <= commits'
  BY <1>2 DEF PullRequestRef, OpenPulls, ForgeKnown, forgeVars, branchVars
<1> QED BY <1>1, <1>3, <1>4, ReadyOutcome

LEMMA OpeningOutcome ==
  ASSUME OutcomeInductive, [Next]_vars,
         FindOpenPullRequest \/ FindConflicting \/ PushBranch \/ OpenPullRequest
  PROVE  OutcomeInductive'
<1>1. Driver /\ InStep /\ ForgeTypeOK /\ ForgeTypeOK' /\ ForgeKnown
  BY StepFacts, ForgeIsKnown
<1>2. /\ Untouched /\ approved' = approved
      /\ Running /\ State.kind = "judged"
      /\ BranchInStep
  BY <1>1, CallTellsKind
     DEF FindOpenPullRequest, FindConflicting, PushBranch, OpenPullRequest, Sent, Refused,
         OutcomeInductive
<1>3. CASE \E n \in OpenPulls : UNCHANGED forgeVars /\ Ready(PullRequestRef(n))
  BY <1>2, <1>3, FoundOutcome
<1>4. CASE FailAttempt /\ (FindConflicting \/ PushBranch)
  BY <1>2, <1>4, RefusalOutcome
<1>5. CASE FindOpenPullRequest /\ OpenPulls = {} /\ Continue("push")
  <2>1. /\ UNCHANGED <<phase, transition, tries>> /\ call' = "push" /\ call = "find_open"
        /\ UNCHANGED forgeVars
    BY <1>5 DEF Continue, FindOpenPullRequest, At
  <2>2. Owed' = 0 /\ Owed = 0
    BY <2>1 DEF Owed
  <2>3. ~Excused => ref = 0
    BY <1>2, <1>5, <2>1 DEF BranchInStep
  <2>4. Excused => Excused'
    <3>1. State' = State
      BY <2>1 DEF State
    <3> QED BY <1>1, <1>2, <3>1, StepFacts, StepRecords, ExcusedStays
  <2>5. ~Excused' => ref' = 0
    BY <2>1, <2>3, <2>4 DEF forgeVars, branchVars
  <2>6. Owed' <= Owed
    BY <2>2
  <2> QED BY <1>2, <2>1, <2>5, <2>6, GoesOnOutcome
<1>6. CASE PushBranch /\ Sent("push") /\ Continue("post_pr")
  <2>1. UNCHANGED <<phase, transition, tries>> /\ call' = "post_pr"
    BY <1>6 DEF Continue
  <2>2. ref' # 0
    BY <1>1, <1>6 DEF Sent, Perform, Write, MoveBranch, ForgeTypeOK
  <2>3. Owed' = 0 /\ Owed \in {0, 1}
    BY <2>2 DEF Owed
  <2>4. Owed' <= Owed
    BY <2>3
  <2> QED BY <1>2, <2>1, <2>4, GoesOnOutcome
<1>7. CASE OpenPullRequest /\ Refused("post_pr") /\ Continue("find_conflicting")
  <2>1. /\ UNCHANGED <<phase, transition, tries>> /\ call' = "find_conflicting"
        /\ call = "post_pr" /\ UNCHANGED forgeVars
    BY <1>7 DEF Continue, Refused, At
  <2>2. Owed' = Owed /\ Owed \in {0, 1}
    BY <2>1 DEF Owed, forgeVars, branchVars
  <2>3. ref = 0 \/ OpenPulls # {}
    BY <1>7 DEF Refused, Accepts, Write
  <2>4. ref' # 0 => OpenPulls' # {}
    BY <2>1, <2>3 DEF forgeVars, branchVars, OpenPulls
  <2>5. Owed' <= Owed
    BY <2>2
  <2> QED BY <1>2, <2>1, <2>4, <2>5, GoesOnOutcome
<1>8. CASE Sent("post_pr") /\ Ready([number |-> Len(pulls) + 1, sha |-> ref])
  <2> DEFINE pr == [number |-> Len(pulls) + 1, sha |-> ref]
  <2>1. pr \in PrRefs
    BY <1>1, SequenceDomain DEF PrRefs, ForgeTypeOK
  <2>2. pulls' = Append(pulls, NewPull(ref)) /\ pulls \in Seq(Pulls) /\ commits' = commits
    BY <1>1, <1>8 DEF Sent, Perform, Write, ForgeTypeOK, branchVars
  <2>3. pr.number \in DOMAIN pulls'
    BY <1>1, <2>2, PullsAre
  <2>4. pr.sha <= commits'
    BY <1>1, <2>2 DEF ForgeTypeOK
  <2> QED BY <1>2, <1>8, <2>1, <2>3, <2>4, ReadyOutcome
<1> QED BY <1>3, <1>4, <1>5, <1>6, <1>7, <1>8
        DEF FindOpenPullRequest, FindConflicting, PushBranch, OpenPullRequest

LEMMA ReadingOutcome ==
  ASSUME OutcomeInductive, [Next]_vars, CheckCi
  PROVE  OutcomeInductive'
<1>1. /\ Running /\ State.kind = "awaiting_ci" /\ Untouched /\ approved' = approved
  BY StepFacts, CallTellsKind DEF CheckCi
<1>2. CASE \E status \in TerminalCI : Feed([kind |-> "ci_resolved", status |-> status])
  <2>1. PICK status \in TerminalCI : Feed([kind |-> "ci_resolved", status |-> status])
    BY <1>2
  <2> DEFINE e == [kind |-> "ci_resolved", status |-> status]
  <2>2. e \in Events /\ Answers(State, e) /\ Feed(e)
    BY <1>1, <2>1 DEF Events, Answers, AnswerTo, CIStatus
  <2> QED BY <1>1, <2>2, AnswerOutcome
<1>3. CASE UNCHANGED <<phase, transition>> /\ call' = "sleep" /\ tries' = 0
  BY <1>1, <1>3, GoesOnOutcome
<1> QED BY <1>2, <1>3 DEF CheckCi, CIStatus, TerminalCI

LEMMA ReviewOutcome ==
  ASSUME OutcomeInductive, [Next]_vars, GateReview
  PROVE  OutcomeInductive'
<1>1. PICK v \in Verdicts : /\ Feed([kind |-> "gate_reviewed", verdict |-> v])
                            /\ approved' = (v = "clean")
  BY DEF GateReview
<1> DEFINE e == [kind |-> "gate_reviewed", verdict |-> v]
<1>2. State.kind = "gate_reviewing" /\ Running /\ Untouched
  BY StepFacts, CallTellsKind DEF GateReview
<1>3. e \in Events /\ Answers(State, e) /\ Feed(e) /\ e.verdict = v
  BY <1>1, <1>2 DEF Events, Answers, AnswerTo
<1>4. approved' => e.verdict = "clean"
  BY <1>1, <1>3, Zenon
<1> QED BY <1>2, <1>3, <1>4, AnswerOutcome

\* The plain answers: closed, merged, recorded.
LEMMA PlainOutcome ==
  ASSUME OutcomeInductive, [Next]_vars, Untouched, approved' = approved, Running,
         State.kind \in {"closing", "merging", "recorded"},
         Feed([kind |-> AnswerTo(State.kind)]),
         State.kind = "merging" => State.outcome.pr.number \in Merged',
         State.kind = "recorded" => pulls'[State.outcome.pr.number].labels # {}
  PROVE  OutcomeInductive'
<1> DEFINE e == [kind |-> AnswerTo(State.kind)]
<1>1. e \in Events /\ Answers(State, e) /\ Feed(e)
  BY DEF Events, Answers, AnswerTo
<1> QED BY <1>1, AnswerOutcome

LEMMA EndingOutcome ==
  ASSUME OutcomeInductive, [Next]_vars,
         \/ ClosePullRequest /\ DeleteRef
         \/ MergePullRequest \/ RecordOutcome
  PROVE  OutcomeInductive'
<1>1. /\ Driver /\ InStep /\ ForgeTypeOK /\ PromiseInductive /\ Untouched /\ approved' = approved
      /\ \A n \in DOMAIN pulls : pulls[n] \in Pulls
  BY StepFacts, PullsAre DEF ClosePullRequest, MergePullRequest, RecordOutcome
<1>2. CASE ClosePullRequest /\ DeleteRef
  <2>1. State.kind = "closing" /\ Running
    BY <1>1, <1>2, CallTellsKind DEF DeleteRef, Sent
  <2> QED BY <1>1, <1>2, <2>1, PlainOutcome DEF DeleteRef, AnswerTo
<1>3. CASE MergePullRequest
  <2>1. State.kind = "merging" /\ Running
    BY <1>1, <1>3, CallTellsKind DEF MergePullRequest, Sent, Refused
  <2>2. CASE FailAttempt
    BY <1>1, <1>3, <2>1, <2>2, RefusalOutcome
  <2>3. CASE Sent("merge") /\ Feed([kind |-> "pull_request_merged"])
    <3> DEFINE n == State.outcome.pr.number
    <3>1. ActingPr = State.outcome.pr
      BY <1>1, <2>1, OutcomePr
    <3>2. n \in OpenPulls /\ pulls' = Settle({n}, "merged", "froot")
      BY <2>3, <3>1 DEF Sent, Accepts, Perform, Write
    <3>3. n \in DOMAIN pulls' /\ pulls'[n] = [pulls[n] EXCEPT !.state = "merged", !.by = "froot"]
      BY <3>2 DEF Settle, OpenPulls
    <3>4. n \in Merged'
      BY <1>1, <3>2, <3>3 DEF Merged, SettledByFroot, OpenPulls, Pulls
    <3> QED BY <1>1, <2>1, <2>3, <3>4, PlainOutcome DEF AnswerTo
  <2> QED BY <1>3, <2>2, <2>3 DEF MergePullRequest
<1>4. CASE RecordOutcome
  <2> DEFINE n == State.outcome.pr.number
  <2>1. State.kind = "recorded" /\ Running
    BY <1>1, <1>4, CallTellsKind DEF RecordOutcome, Sent
  <2>2. ActingPr = State.outcome.pr /\ n \in DOMAIN pulls
    BY <1>1, <2>1, OutcomePr DEF OutcomeInductive, Known, Handle
  <2>3. pulls' = [pulls EXCEPT ![n].labels = @ \cup {model}]
    BY <1>4, <2>2 DEF RecordOutcome, Sent, Perform, Write
  <2>4. pulls'[n].labels # {}
    BY <1>1, <2>2, <2>3 DEF Pulls
  <2> QED BY <1>1, <1>4, <2>1, <2>4, PlainOutcome DEF RecordOutcome, AnswerTo
<1> QED BY <1>2, <1>3, <1>4

LEMMA InitOutcome ==
  ASSUME Init
  PROVE  OutcomeInductive
<1>1. PromiseInductive /\ Driver
  BY InitPromises, TypeParts DEF PromiseInductive, MergeInductive
<1>2. State.kind = "discovered" /\ phase = "running" /\ call = "auto_merge_eligible"
  BY DEF Init, Start, Advanced, State
<1>3. /\ tries = 0 /\ faults = 0 /\ moves = 0 /\ inflight = {}
      /\ commits = 0 /\ ref = 0 /\ DOMAIN pulls = {}
  BY DEF Init, ForgeInit
<1>4. ~approved
  BY Zenon DEF Init
<1>5. Known
  BY <1>1, <1>2, <1>3, ActingKinds DEF Known
<1>6. Done
  <2>1. phase # "completed"
    BY <1>2
  <2> QED BY <1>4, <2>1, Zenon DEF Done
<1>7. Charged
  <2>1. Owed = 0
    BY <1>2 DEF Owed
  <2>2. tries + Owed <= faults + moves
    BY <1>3, <2>1
  <2>3. phase # "failed"
    BY <1>2
  <2> QED BY <2>2, <2>3, Zenon DEF Charged
<1>8. BranchInStep
  BY <1>2, <1>3 DEF BranchInStep
<1> QED BY <1>1, <1>5, <1>6, <1>7, <1>8 DEF OutcomeInductive

LEMMA NextOutcome ==
  ASSUME OutcomeInductive, [Next]_vars
  PROVE  OutcomeInductive'
<1>1. CASE Step
  BY <1>1, QuietOutcome, JudgeOutcome, OpeningOutcome, ReadingOutcome, ReviewOutcome,
     EndingOutcome DEF Step, ClosePullRequest
<1>2. CASE Lost \/ Unheard \/ Late \/ Denied
  BY <1>2, FaultOutcome
<1>3. CASE Land \/ HumanMove \/ ChangeModel \/ UNCHANGED vars
  BY <1>3, OutsideOutcome
<1> QED BY <1>1, <1>2, <1>3 DEF Next

\* What is known of the pull request, what was done and what is owed is
\* inductive, for every number of attempts, faults and moves, late writes
\* included (bump_workflow.py run, activities.py push_branch to merge).
THEOREM OutcomeInductiveHolds == Spec => []OutcomeInductive
<1> QED BY InitOutcome, NextOutcome, PTL DEF Spec

\* A bump that reports success has left its mark: its pull request is
\* labelled, and an approved one was merged by froot and by nobody else, so
\* a merge is never taken for done because the pull request was merged
\* (merge_pull_request, record_outcome).
THEOREM SuccessIsDone == Spec => []CompletedIsDone
<1>1. OutcomeInductive => CompletedIsDone
  <2> SUFFICES ASSUME OutcomeInductive, phase = "completed" PROVE CompletedIsDone
    BY Zenon DEF CompletedIsDone
  <2>1. State.kind = "recorded" /\ pulls[State.outcome.pr.number].labels # {}
    BY DEF OutcomeInductive, Done
  <2>2. ActingPr = State.outcome.pr
    BY <2>1, OutcomePr DEF OutcomeInductive
  <2>3. approved => State.outcome.pr.number \in Merged
    <3>1. State.kind # "merging"
      BY <2>1
    <3> QED BY <3>1, Zenon DEF OutcomeInductive, Done
  <2> QED BY <2>1, <2>2, <2>3, Zenon DEF CompletedIsDone, Merged
<1> QED BY <1>1, OutcomeInductiveHolds, PTL

\* No bump fails without a cause: a permission it was denied, more faults and
\* moves than attempts, a branch or a settled pull request it cannot open
\* over, or a merge the forge will go on refusing (TOOL_RETRY, push_branch,
\* find_open_pull_request, merge_pull_request).
THEOREM FailureHasCause == Spec => []FailsOnlyForCause
<1>1. OutcomeInductive => FailsOnlyForCause
  BY Zenon DEF OutcomeInductive, Charged, Excused, Denial, LeftBehind, FailsOnlyForCause
<1> QED BY <1>1, OutcomeInductiveHolds, PTL

-----------------------------------------------------------------------------
(* If no write is late: one note, and nothing left of what was red.        *)

NotesKept ==
  \A n \in DOMAIN pulls' :
    pulls'[n].notes = IF n \in DOMAIN pulls THEN pulls[n].notes ELSE 0

RedGone == OpenPulls = {} /\ ref = 0

LEMMA SameNotes ==
  ASSUME DOMAIN pulls' = DOMAIN pulls,
         \A n \in DOMAIN pulls : pulls'[n].notes = pulls[n].notes
  PROVE  NotesKept
  BY DEF NotesKept

LEMMA SettleKeepsNotes ==
  ASSUME ForgeTypeOK, NEW N, NEW state, NEW by, pulls' = Settle(N, state, by)
  PROVE  NotesKept
<1>1. \A n \in DOMAIN pulls : pulls[n] \in Pulls
  BY PullsAre
<1>2. DOMAIN pulls' = DOMAIN pulls
  BY DEF Settle
<1>3. ASSUME NEW n \in DOMAIN pulls
      PROVE  pulls'[n].notes = pulls[n].notes
  <2>1. CASE n \in N \cap OpenPulls
    <3>1. pulls'[n] = [pulls[n] EXCEPT !.state = state, !.by = by]
      BY <2>1 DEF Settle
    <3> QED BY <1>1, <3>1 DEF Pulls
  <2>2. CASE n \notin N \cap OpenPulls
    BY <2>2 DEF Settle
  <2> QED BY <2>1, <2>2
<1> QED BY <1>2, <1>3, SameNotes

LEMMA BranchKeepsNotes ==
  ASSUME ForgeTypeOK, MoveBranch
  PROVE  NotesKept
<1>1. \A n \in DOMAIN pulls : pulls[n] \in Pulls
  BY PullsAre
<1>2. /\ DOMAIN pulls' = DOMAIN pulls
      /\ \A n \in DOMAIN pulls : pulls'[n].notes = pulls[n].notes
  BY <1>1 DEF MoveBranch, Pulls
<1> QED BY <1>2, SameNotes

LEMMA AppendKeepsNotes ==
  ASSUME ForgeTypeOK, pulls' = Append(pulls, NewPull(ref))
  PROVE  NotesKept
<1>1. /\ DOMAIN pulls' = DOMAIN pulls \cup {Len(pulls) + 1}
      /\ \A n \in DOMAIN pulls : pulls'[n] = pulls[n]
      /\ pulls'[Len(pulls) + 1] = NewPull(ref)
      /\ Len(pulls) + 1 \notin DOMAIN pulls
  BY PullsAre DEF ForgeTypeOK
<1>2. NewPull(ref).notes = 0
  BY DEF NewPull
<1> QED BY <1>1, <1>2 DEF NotesKept

LEMMA LabelKeepsNotes ==
  ASSUME ForgeTypeOK, NEW w \in Writes, w.op = "add_labels", Perform(w)
  PROVE  NotesKept /\ OpenPulls' = OpenPulls /\ ref' = ref
<1>1. \A n \in DOMAIN pulls : pulls[n] \in Pulls
  BY PullsAre
<1>2. /\ DOMAIN pulls' = DOMAIN pulls /\ ref' = ref
      /\ \A n \in DOMAIN pulls : pulls'[n].notes = pulls[n].notes
                                 /\ pulls'[n].state = pulls[n].state
  BY <1>1 DEF Perform, Pulls, branchVars
<1> QED BY <1>2, SameNotes, OpenKept

\* No write but the note's adds a note, and people write none of froot's.
LEMMA WriteKeepsNotes ==
  ASSUME ForgeTypeOK, NEW w \in Writes, w.op # "post_note", Perform(w)
  PROVE  NotesKept
<1>1. CASE w.op = "push"
  BY <1>1, BranchKeepsNotes DEF Perform
<1>2. CASE w.op = "post_pr"
  BY <1>2, AppendKeepsNotes DEF Perform
<1>3. CASE w.op \in {"patch_closed", "merge"}
  BY <1>3, SettleKeepsNotes DEF Perform
<1>4. CASE w.op = "delete_ref"
  BY <1>4, SettleKeepsNotes DEF Perform, DropBranch
<1> QED BY <1>1, <1>2, <1>3, <1>4, LabelKeepsNotes DEF Writes, WriteOps

LEMMA PeopleKeepNotes ==
  ASSUME ForgeTypeOK, Human
  PROVE  NotesKept
<1>1. CASE HumanPush
  BY <1>1, BranchKeepsNotes DEF HumanPush
<1>2. CASE HumanDelete
  BY <1>2, SettleKeepsNotes DEF HumanDelete, DropBranch
<1>3. CASE HumanOpens
  BY <1>3, AppendKeepsNotes DEF HumanOpens
<1>4. CASE HumanSettles
  BY <1>4, SettleKeepsNotes DEF HumanSettles
<1>5. CASE HumanBlocks
  BY <1>5, SameNotes DEF HumanBlocks
<1> QED BY <1>1, <1>2, <1>3, <1>4, <1>5 DEF Human

\* There is no branch left for people to move, and no pull request to settle.
LEMMA PeopleLeaveRed ==
  ASSUME Human
  PROVE  ~RedGone
  BY DEF Human, HumanPush, HumanDelete, HumanOpens, HumanSettles, HumanBlocks, RedGone

LEMMA StepNotes ==
  ASSUME OutcomeInductive, [Next]_vars, inflight = {}
  PROVE  NotesKept \/ Sent("post_note")
<1>1. ForgeTypeOK /\ PromiseInductive
  BY StepFacts
<1>2. ASSUME NEW op \in WriteOps, Sent(op)
      PROVE  NotesKept \/ Sent("post_note")
  <2>1. Write(op) \in Writes /\ Write(op).op = op /\ Perform(Write(op))
    BY <1>1, <1>2, SentIsBacked DEF Sent, Write
  <2> QED BY <1>1, <1>2, <2>1, WriteKeepsNotes
<1>3. CASE UNCHANGED forgeVars
  BY <1>3, SameNotes DEF forgeVars
<1>4. CASE Step
  <2>1. \/ \E op \in WriteOps : Sent(op)
        \/ UNCHANGED forgeVars
    BY <1>4 DEF Step, AutoMergeEligible, JudgeChangelog, FindOpenPullRequest, FindConflicting,
       CheckCi, Sleep, FindNote, EditNote, GateReview, PushBranch, OpenPullRequest,
       ClosePullRequest, PostNote, PatchClosed, DeleteRef, MergePullRequest, RecordOutcome,
       Refused, WriteOps
  <2> QED BY <1>2, <1>3, <2>1
<1>5. CASE Lost \/ Unheard \/ Late \/ Denied \/ ChangeModel \/ UNCHANGED vars
  BY <1>2, <1>3, <1>5 DEF Lost, Unheard, Late, Denied, ChangeModel, vars
<1>6. CASE HumanMove
  BY <1>1, <1>6, PeopleKeepNotes DEF HumanMove
<1> QED BY <1>3, <1>4, <1>5, <1>6 DEF Next, Land

\* A note is written only after a look for one.
LEMMA FeedPostsNoNote ==
  ASSUME PromiseInductive', NEW event, Feed(event)
  PROVE  call' # "post_note"
<1>1. Driver' /\ InStep' /\ (transition' \in Transitions => State' \in BumpStates)
  BY DEF PromiseInductive, MergeInductive, TypeOK, Driver, Transitions, State
<1>2. CASE phase' = "running"
  <2>1. transition'.effects[1] = EffectOf(State'.kind) /\ State' \in BumpStates
    BY <1>1, <1>2 DEF InStep, Running, Driver
  <2>2. call' = FirstCall(EffectOf(State'.kind))
    BY <1>2, <2>1 DEF Feed
  <2> QED BY <2>1, <2>2, CallsThatBegin
<1>3. CASE phase' # "running"
  BY <1>3 DEF Feed
<1> QED BY <1>2, <1>3

LEMMA FailPostsNoNote ==
  ASSUME PromiseInductive, Running, FailAttempt
  PROVE  call' # "post_note"
<1>1. phase' = "failed" => call' = "none"
  BY DEF FailAttempt, Running
<1>2. phase' # "failed" => call' # "post_note"
  BY FailBegins
<1> QED BY <1>1, <1>2

LEMMA NoteAfterLook ==
  ASSUME OutcomeInductive, [Next]_vars, call' = "post_note"
  PROVE  FindNote \/ UNCHANGED driverVars
<1>1. PromiseInductive /\ PromiseInductive' /\ Driver /\ InStep
  BY StepFacts
<1>2. ASSUME NEW event PROVE ~Feed(event)
  BY <1>1, FeedPostsNoNote
<1>3. Running => ~FailAttempt
  BY <1>1, FailPostsNoNote
<1>4. CASE AutoMergeEligible
  <2>1. transition.effects[1] = EffectOf(State.kind) /\ State \in BumpStates
    BY <1>1, <1>4, StateType DEF InStep, AutoMergeEligible, At, Running
  <2> QED BY <1>4, <2>1, CallsThatBegin DEF AutoMergeEligible
<1>5. CASE JudgeChangelog \/ FindOpenPullRequest \/ FindConflicting \/ GateReview
  BY <1>2, <1>3, <1>5
     DEF JudgeChangelog, FindOpenPullRequest, FindConflicting, GateReview, Ready, Continue,
         At, Running
<1>6. CASE PushBranch \/ OpenPullRequest \/ MergePullRequest \/ RecordOutcome \/ ClosePullRequest
  BY <1>2, <1>3, <1>6
     DEF PushBranch, OpenPullRequest, MergePullRequest, RecordOutcome, ClosePullRequest, PostNote,
         PatchClosed, DeleteRef, Ready, Continue, Sent, Refused, At, Running
<1>7. CASE CheckCi \/ Sleep \/ EditNote
  BY <1>2, <1>7 DEF CheckCi, Sleep, EditNote, Continue
<1>8. CASE Lost \/ Unheard \/ Late \/ Denied
  BY <1>3, <1>8 DEF Lost, Unheard, Late, Denied, Hit
<1>9. CASE Land \/ HumanMove \/ ChangeModel \/ UNCHANGED vars
  BY <1>9 DEF Land, HumanMove, ChangeModel, vars
<1> QED BY <1>4, <1>5, <1>6, <1>7, <1>8, <1>9 DEF Next, Step

LEMMA OneNote ==
  ASSUME OutcomeInductive, OutcomeInductive', Prompt, [Next]_vars
  PROVE  NoteOnce' /\ (At("post_note")' => pulls'[State'.outcome.pr.number].notes = 0)
<1>1. /\ PromiseInductive /\ Driver /\ InStep /\ ForgeMoves /\ ForgeTypeOK
      /\ \A n \in DOMAIN pulls : pulls[n] \in Pulls
  BY StepFacts, PullsAre
<1>2. CASE Sent("post_note")
  <2> DEFINE n == State.outcome.pr.number
  <2>1. State.kind = "closing" /\ call = "post_note"
    BY <1>1, <1>2, CallTellsKind DEF Sent, At
  <2>2. ActingPr = State.outcome.pr /\ n \in DOMAIN pulls /\ pulls[n].notes = 0
    BY <1>1, <1>2, <2>1, OutcomePr DEF OutcomeInductive, Known, Handle, Prompt, Sent
  <2>3. pulls' = [pulls EXCEPT ![n].notes = @ + 1]
    BY <1>2, <2>2 DEF Sent, Perform, Write
  <2>4. NoteOnce'
    BY <1>1, <2>2, <2>3 DEF Prompt, NoteOnce, Pulls
  <2>5. call' # "post_note"
    <3>1. ~FindNote
      BY <2>1 DEF FindNote, At
    <3>2. forgeVars' # forgeVars
      <4>1. pulls'[n].notes = 1
        BY <1>1, <2>2, <2>3 DEF Pulls
      <4> QED BY <2>2, <4>1 DEF forgeVars
    <3>3. ASSUME call' = "post_note", UNCHANGED driverVars PROVE FALSE
      <4>1. ~Unheard
        BY <1>1, <2>1, <3>3, FailPostsNoNote DEF Unheard, Hit
      <4>2. ~PostNote
        BY <3>3 DEF PostNote, Continue
      <4>3. ~Step
        BY <2>1, <3>2, <4>2
           DEF Step, AutoMergeEligible, JudgeChangelog, FindOpenPullRequest, FindConflicting,
               CheckCi, Sleep, FindNote, EditNote, GateReview, PushBranch, OpenPullRequest,
               ClosePullRequest, PatchClosed, DeleteRef, MergePullRequest, RecordOutcome,
               Sent, Refused, At
      <4>4. ~(Lost \/ Late \/ Denied \/ ChangeModel \/ UNCHANGED vars)
        BY <3>2 DEF Lost, Late, Denied, ChangeModel, vars
      <4>5. ~HumanMove
        <5>1. HumanMove => NotesKept
          BY <1>1, PeopleKeepNotes DEF HumanMove
        <5>2. pulls'[n].notes = 1 /\ n \in DOMAIN pulls'
          BY <1>1, <2>2, <2>3 DEF Pulls
        <5> QED BY <2>2, <5>1, <5>2 DEF NotesKept
      <4> QED BY <4>1, <4>3, <4>4, <4>5 DEF Next, Land, Prompt
    <3> QED BY <3>1, <3>3, NoteAfterLook
  <2> QED BY <2>4, <2>5 DEF At
<1>3. CASE NotesKept
  <2>1. NoteOnce'
    BY <1>3 DEF NotesKept, Prompt, NoteOnce
  <2>2. ASSUME phase' = "running", call' = "post_note"
        PROVE  pulls'[State'.outcome.pr.number].notes = 0
    <3> DEFINE n == State.outcome.pr.number
    <3>1. CASE FindNote
      <4>1. State.kind = "closing" /\ State' = State /\ pulls' = pulls
        BY <1>1, <3>1, CallTellsKind DEF FindNote, Continue, State, forgeVars
      <4>2. ActingPr = State.outcome.pr /\ n \in DOMAIN pulls
        BY <1>1, <4>1, OutcomePr DEF OutcomeInductive, Known, Handle
      <4>3. ~(pulls[n].notes > 0) /\ pulls[n].notes \in Nat
        BY <1>1, <2>2, <3>1, <4>2 DEF FindNote, Continue, Pulls
      <4> QED BY <4>1, <4>3
    <3>2. CASE UNCHANGED driverVars
      <4>1. State' = State /\ At("post_note")
        BY <2>2, <3>2 DEF driverVars, State, At
      <4>2. State.kind = "closing"
        BY <1>1, <4>1, CallTellsKind
      <4>3. n \in DOMAIN pulls /\ pulls[n].notes = 0
        BY <1>1, <4>1, <4>2, OutcomePr DEF OutcomeInductive, Known, Handle, Prompt
      <4>4. n \in DOMAIN pulls'
        BY <1>1, <4>3 DEF ForgeMoves, PullMoves
      <4> QED BY <1>3, <4>1, <4>3, <4>4 DEF NotesKept
    <3> QED BY <2>2, <3>1, <3>2, NoteAfterLook
  <2> QED BY <2>1, <2>2 DEF At
<1> QED BY <1>2, <1>3, StepNotes DEF Prompt

\* What is red and to be closed is recorded only once it is closed and its
\* branch deleted; from then on nothing brings either back.
LEMMA RecordedRed ==
  ASSUME PromiseInductive, PromiseInductive', Running, NEW event \in Events,
         Answers(State, event), Feed(event), State.kind # "recorded"
  PROVE  State'.kind = "recorded" /\ closeOnRed /\ State'.outcome.ci = "failed"
           => State.kind = "closing"
<1> DEFINE next == Advance(State, event, closeOnRed, eligible).next
<1>1. /\ State' = next /\ State \in BumpStates
      /\ closeOnRed \in BOOLEAN /\ eligible \in BOOLEAN
  BY FeedBegins
<1>2. CASE State.kind \in {"discovered", "judged"}
  BY <1>1, <1>2, AnswerGoes
<1>3. CASE State.kind = "awaiting_ci"
  <2>1. next.outcome.ci = event.status
    BY <1>1, <1>3, AnswerGoes
  <2>2. closeOnRed /\ event.status = "failed" => next.kind = "closing"
    BY <1>3 DEF Advance, FromAwaitingCi, Resolve, MayGate, Carry, Answers, AnswerTo, Advanced, TerminalCI
  <2>3. next.kind = "closing" => next.kind # "recorded"
    OBVIOUS
  <2> QED BY <1>1, <2>1, <2>2, <2>3, Zenon
<1>4. CASE State.kind \in {"gate_reviewing", "merging"}
  <2>1. State.outcome.ci = "passed"
    BY <1>4 DEF PromiseInductive, Backed, MergeFacts
  <2>2. next.outcome = State.outcome
    BY <1>1, <1>4, AnswerGoes
  <2> QED BY <1>1, <2>1, <2>2
<1> QED BY <1>1, <1>2, <1>3, <1>4, StateShape

LEMMA RedStaysGone ==
  ASSUME OutcomeInductive, [Next]_vars, inflight = {}, State.kind = "recorded", RedGone
  PROVE  RedGone'
<1>1. ForgeTypeOK /\ PromiseInductive /\ Driver /\ InStep
  BY StepFacts
<1>2. ASSUME NEW op \in WriteOps, Sent(op)
      PROVE  RedGone'
  <2>1. Write(op) \in Writes /\ Write(op).op = op /\ Perform(Write(op))
    BY <1>1, <1>2, SentIsBacked DEF Sent, Write
  <2>2. op = "add_labels"
    BY <1>1, <1>2, CallTellsKind DEF Sent, WriteOps
  <2> QED BY <1>1, <2>1, <2>2, LabelKeepsNotes DEF RedGone
<1>3. CASE UNCHANGED forgeVars
  BY <1>3 DEF forgeVars, branchVars, RedGone, OpenPulls
<1>4. CASE Step
  <2>1. \/ \E op \in WriteOps : Sent(op)
        \/ UNCHANGED forgeVars
    BY <1>4 DEF Step, AutoMergeEligible, JudgeChangelog, FindOpenPullRequest, FindConflicting,
       CheckCi, Sleep, FindNote, EditNote, GateReview, PushBranch, OpenPullRequest,
       ClosePullRequest, PostNote, PatchClosed, DeleteRef, MergePullRequest, RecordOutcome,
       Refused, WriteOps
  <2> QED BY <1>2, <1>3, <2>1
<1>5. CASE Lost \/ Unheard \/ Late \/ Denied \/ ChangeModel \/ UNCHANGED vars
  BY <1>2, <1>3, <1>5 DEF Lost, Unheard, Late, Denied, ChangeModel, vars
<1>6. CASE HumanMove
  BY <1>6, PeopleLeaveRed DEF HumanMove
<1> QED BY <1>3, <1>4, <1>5, <1>6 DEF Next, Land

\* Where the machine goes, it goes by an answer.
LEMMA StateMoves ==
  ASSUME OutcomeInductive, [Next]_vars
  PROVE  \/ State' = State
         \/ \E event \in Events : Running /\ Answers(State, event) /\ Feed(event)
<1>1. PromiseInductive /\ Driver /\ InStep /\ ForgeTypeOK
  BY StepFacts
<1>2. FailAttempt \/ UNCHANGED transition => State' = State
  BY DEF FailAttempt, State
<1>3. CASE JudgeChangelog
  <2>1. PICK v \in Verdicts : Feed([kind |-> "changelog_judged", verdict |-> v])
    BY <1>3 DEF JudgeChangelog, Verdicts
  <2>2. State.kind = "discovered" /\ Running
    BY <1>1, <1>3, CallTellsKind DEF JudgeChangelog
  <2> QED BY <2>1, <2>2 DEF Events, Answers, AnswerTo
<1>4. ASSUME NEW pr \in PrRefs, Ready(pr), State.kind = "judged", Running
      PROVE  \E event \in Events : Running /\ Answers(State, event) /\ Feed(event)
  BY <1>4 DEF Ready, Events, Answers, AnswerTo
<1>5. CASE FindOpenPullRequest \/ FindConflicting
  <2>1. State.kind = "judged" /\ Running
    BY <1>1, <1>5, CallTellsKind DEF FindOpenPullRequest, FindConflicting
  <2> QED BY <1>1, <1>2, <1>4, <1>5, <2>1, OpenPullRef
          DEF FindOpenPullRequest, FindConflicting, Continue
<1>6. CASE OpenPullRequest
  <2>1. State.kind = "judged" /\ Running
    BY <1>1, <1>6, CallTellsKind DEF OpenPullRequest, Sent, Refused
  <2>2. [number |-> Len(pulls) + 1, sha |-> ref] \in PrRefs
    BY <1>1, SequenceDomain DEF PrRefs, ForgeTypeOK
  <2> QED BY <1>2, <1>4, <1>6, <2>1, <2>2 DEF OpenPullRequest, Continue
<1>7. CASE CheckCi
  <2>1. State.kind = "awaiting_ci" /\ Running
    BY <1>1, <1>7, CallTellsKind DEF CheckCi
  <2>2. \/ \E status \in TerminalCI : Feed([kind |-> "ci_resolved", status |-> status])
        \/ UNCHANGED transition
    BY <1>7 DEF CheckCi, CIStatus, TerminalCI
  <2> QED BY <1>2, <2>1, <2>2 DEF Events, Answers, AnswerTo, CIStatus
<1>8. CASE GateReview
  <2>1. State.kind = "gate_reviewing" /\ Running
    BY <1>1, <1>8, CallTellsKind DEF GateReview
  <2>2. PICK v \in Verdicts : Feed([kind |-> "gate_reviewed", verdict |-> v])
    BY <1>8 DEF GateReview
  <2> QED BY <2>1, <2>2 DEF Events, Answers, AnswerTo
<1>9. CASE DeleteRef \/ MergePullRequest \/ RecordOutcome
  <2>1. CASE DeleteRef
    <3>1. State.kind = "closing" /\ Running
      BY <1>1, <2>1, CallTellsKind DEF DeleteRef, Sent
    <3> QED BY <2>1, <3>1 DEF DeleteRef, Events, Answers, AnswerTo
  <2>2. CASE MergePullRequest
    <3>1. State.kind = "merging" /\ Running
      BY <1>1, <2>2, CallTellsKind DEF MergePullRequest, Sent, Refused
    <3> QED BY <1>2, <2>2, <3>1 DEF MergePullRequest, Events, Answers, AnswerTo
  <2>3. CASE RecordOutcome
    <3>1. State.kind = "recorded" /\ Running
      BY <1>1, <2>3, CallTellsKind DEF RecordOutcome, Sent
    <3> QED BY <2>3, <3>1 DEF RecordOutcome, Events, Answers, AnswerTo
  <2> QED BY <1>9, <2>1, <2>2, <2>3
<1>10. CASE Step
  <2>1. CASE AutoMergeEligible \/ Sleep \/ FindNote \/ EditNote \/ PostNote \/ PatchClosed \/ PushBranch
    BY <1>2, <2>1 DEF AutoMergeEligible, Sleep, FindNote, EditNote, PostNote, PatchClosed,
       PushBranch, Continue
  <2> QED BY <1>3, <1>5, <1>6, <1>7, <1>8, <1>9, <1>10, <2>1 DEF Step, ClosePullRequest
<1>11. CASE Lost \/ Unheard \/ Late \/ Denied \/ Land \/ HumanMove \/ ChangeModel \/ UNCHANGED vars
  BY <1>2, <1>11 DEF Lost, Unheard, Late, Denied, Land, HumanMove, ChangeModel, vars, driverVars
<1> QED BY <1>10, <1>11 DEF Next

\* Only the deletion of the branch answers a close.
LEMMA CloseAnswer ==
  ASSUME OutcomeInductive, [Next]_vars, State.kind = "closing", State'.kind = "recorded"
  PROVE  RedGone'
<1>1. Driver /\ InStep /\ ForgeTypeOK
  BY StepFacts
<1>2. State' # State
  OBVIOUS
<1>3. FailAttempt \/ UNCHANGED transition => State' = State
  BY DEF FailAttempt, State
<1>4. CASE Sent("delete_ref")
  <2>1. ref' = 0 /\ pulls' = Settle(OpenPulls, "closed", "froot")
    BY <1>4 DEF Sent, Perform, Write, DropBranch
  <2>2. \A n \in DOMAIN pulls : pulls[n] \in Pulls
    BY <1>1, PullsAre
  <2>3. ASSUME NEW n \in DOMAIN pulls PROVE pulls'[n].state # "open"
    <3>1. CASE n \in OpenPulls
      <4>1. pulls'[n] = [pulls[n] EXCEPT !.state = "closed", !.by = "froot"]
        BY <2>1, <3>1 DEF Settle
      <4> QED BY <2>2, <4>1 DEF Pulls
    <3>2. CASE n \notin OpenPulls
      BY <2>1, <3>2 DEF Settle, OpenPulls
    <3> QED BY <3>1, <3>2
  <2>4. DOMAIN pulls' = DOMAIN pulls
    BY <2>1 DEF Settle
  <2> QED BY <2>1, <2>3, <2>4 DEF RedGone, OpenPulls
<1>5. \A c \in {"judge", "find_open", "find_conflicting", "post_pr", "check_ci",
               "gate_review", "merge", "add_labels"} : ~At(c)
  BY <1>1, CallTellsKind
<1>6. CASE Step
  BY <1>2, <1>3, <1>4, <1>5, <1>6
     DEF Step, AutoMergeEligible, JudgeChangelog, FindOpenPullRequest, FindConflicting,
         CheckCi, Sleep, FindNote, EditNote, GateReview, PushBranch, OpenPullRequest,
         ClosePullRequest, PostNote, PatchClosed, DeleteRef, MergePullRequest, RecordOutcome,
         Sent, Refused, Continue
<1>7. CASE Lost \/ Unheard \/ Late \/ Denied \/ Land \/ HumanMove \/ ChangeModel \/ UNCHANGED vars
  BY <1>2, <1>3, <1>7 DEF Lost, Unheard, Late, Denied, Land, HumanMove, ChangeModel, vars, driverVars
<1> QED BY <1>6, <1>7 DEF Next

LEMMA PinnedStays ==
  ASSUME [Next]_vars
  PROVE  closeOnRed' = closeOnRed
<1>1. CASE Step
  BY <1>1 DEF Step, AutoMergeEligible, JudgeChangelog, FindOpenPullRequest, FindConflicting,
     CheckCi, Sleep, FindNote, EditNote, GateReview, PushBranch, OpenPullRequest,
     ClosePullRequest, MergePullRequest, RecordOutcome, Untouched, pinnedVars
<1>2. CASE Lost \/ Unheard \/ Late \/ Denied \/ Land \/ HumanMove \/ ChangeModel \/ UNCHANGED vars
  BY <1>2 DEF Lost, Unheard, Late, Denied, Hit, Land, HumanMove, ChangeModel, vars, pinnedVars
<1> QED BY <1>1, <1>2 DEF Next

LEMMA NothingRedStep ==
  ASSUME OutcomeInductive, OutcomeInductive', Prompt, [Next]_vars,
         State'.kind = "recorded", closeOnRed', State'.outcome.ci = "failed"
  PROVE  RedGone'
<1>1. PromiseInductive /\ PromiseInductive' /\ closeOnRed
  BY PinnedStays, StepFacts
<1>2. CASE State' = State
  BY <1>1, <1>2, RedStaysGone DEF Prompt, RedGone
<1>3. CASE \E event \in Events : Running /\ Answers(State, event) /\ Feed(event)
  <2>1. PICK event \in Events : Running /\ Answers(State, event) /\ Feed(event)
    BY <1>3
  <2>2. CASE State.kind = "recorded"
    <3>1. /\ State' = Advance(State, event, closeOnRed, eligible).next /\ State \in BumpStates
          /\ closeOnRed \in BOOLEAN /\ eligible \in BOOLEAN
      BY <1>1, <2>1, FeedBegins
    <3>2. State'.outcome = State.outcome
      BY <2>1, <2>2, <3>1, AnswerGoes
    <3> QED BY <1>1, <2>2, <3>2, RedStaysGone DEF Prompt, RedGone
  <2>3. CASE State.kind # "recorded"
    BY <1>1, <2>1, <2>3, RecordedRed, CloseAnswer
  <2> QED BY <2>2, <2>3
<1> QED BY <1>2, <1>3, StateMoves

LEMMA PromptStep ==
  ASSUME "late" \notin FaultKinds, OutcomeInductive, OutcomeInductive', Prompt, [Next]_vars
  PROVE  Prompt'
<1>1. inflight' = {}
  <2>1. CASE Step
    BY <2>1 DEF Step, AutoMergeEligible, JudgeChangelog, FindOpenPullRequest, FindConflicting,
       CheckCi, Sleep, FindNote, EditNote, GateReview, PushBranch, OpenPullRequest,
       ClosePullRequest, MergePullRequest, RecordOutcome, Untouched, Prompt
  <2>2. CASE Lost \/ Unheard \/ Denied \/ HumanMove \/ ChangeModel \/ UNCHANGED vars
    BY <2>2 DEF Lost, Unheard, Denied, HumanMove, ChangeModel, vars, Prompt
  <2> QED BY <2>1, <2>2 DEF Next, Late, Hit, Land, Prompt
<1>2. State'.kind = "recorded" /\ closeOnRed' /\ State'.outcome.ci = "failed" => RedGone'
  BY NothingRedStep
<1> QED BY <1>1, <1>2, OneNote DEF Prompt, RedGone

LEMMA InitPrompt ==
  ASSUME Init
  PROVE  Prompt
<1>1. State.kind = "discovered" /\ call = "auto_merge_eligible"
  BY DEF Init, Start, Advanced, State
<1>2. inflight = {} /\ DOMAIN pulls = {}
  BY DEF Init, ForgeInit
<1> QED BY <1>1, <1>2 DEF Prompt, NoteOnce, At

LEMMA PromptHolds ==
  ASSUME "late" \notin FaultKinds
  PROVE  Spec => []Prompt
<1>1. OutcomeInductive /\ OutcomeInductive' /\ Prompt /\ [Next]_vars => Prompt'
  BY PromptStep
<1> QED BY <1>1, InitPrompt, OutcomeInductiveHolds, PTL DEF Spec

\* Whatever fails and is tried again, no pull request carries the note twice;
\* a post that arrives after its attempt timed out is what could break it
\* (close_pull_request, upsert_issue_comment).
THEOREM NotesOnce ==
  ASSUME "late" \notin FaultKinds
  PROVE  Spec => []NoteOnce
<1>1. Prompt => NoteOnce
  BY DEF Prompt
<1> QED BY <1>1, PromptHolds, PTL

\* Close-on-red leaves neither an open pull request nor a branch, whatever
\* people did to them and whatever failed on the way; a push or a pull
\* request that arrives late is what could break it (close_pull_request).
THEOREM NothingRedLeft ==
  ASSUME "late" \notin FaultKinds
  PROVE  Spec => []LeavesNothingRed
<1>1. OutcomeInductive /\ Prompt => LeavesNothingRed
  BY DEF OutcomeInductive, Done, Prompt, LeavesNothingRed
<1> QED BY <1>1, OutcomeInductiveHolds, PromptHolds, PTL
=============================================================================
