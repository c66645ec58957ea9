---------------------------- MODULE ScanLoop_proofs ----------------------------
(***************************************************************************)
(* Type correctness of the scan loop, that no bump is proposed twice by    *)
(* dispatch, and that reconcile never closes the newest proposal: for any  *)
(* number of packages, versions, attempts, faults and moves.               *)
(***************************************************************************)
EXTENDS ScanLoop, TLAPS

\* The part of the invariant that is about the scans, and the part about
\* pull requests and bumps.
ForgeType ==
  /\ installed \in [Packages -> Versions]
  /\ pull \in [Bumps -> {"none", "open", "merged", "closed"}]
  /\ by \in [Bumps -> {"nobody", "bump", "reconcile", "human"}]
  /\ cutFrom \in [Bumps -> 0..MaxVersion]
  /\ opened \in [Bumps -> Nat]

SelectedType == selected \in [Packages -> 0..MaxVersion] /\ signal \in [Packages -> Versions]
BumpType     == bump \in [Bumps -> BumpStages]
ScanType     == scan \in [Scans -> ScanStates]
BudgetType   == faults \in 0..MaxFaults /\ moves \in 0..MaxMoves

LEMMA TypeParts ==
  TypeOK <=> ForgeType /\ SelectedType /\ BumpType /\ ScanType /\ BudgetType
  BY DEF TypeOK, ForgeType, SelectedType, BumpType, ScanType, BudgetType

\* What reconcile has closed or is about to close.
Justified == \A s \in Scans : \A b \in Doomed(s) : b[2] < selected[b[1]]

LEMMA BumpPair ==
  ASSUME NEW b \in Bumps
  PROVE  b[1] \in Packages /\ b[2] \in Versions /\ b = <<b[1], b[2]>>
  BY DEF Bumps

-----------------------------------------------------------------------------
(* Pull requests and branches.                                             *)

LEMMA SettleType ==
  ASSUME ForgeType, NEW b \in Bumps, NEW state \in {"merged", "closed"},
         NEW who \in {"bump", "reconcile", "human"}, SettlePull(b, state, who)
  PROVE  /\ pull' \in [Bumps -> {"none", "open", "merged", "closed"}]
         /\ by' \in [Bumps -> {"nobody", "bump", "reconcile", "human"}]
  BY DEF ForgeType, SettlePull

\* Only reconcile marks a pull request as closed by reconcile.
LEMMA SettleSpares ==
  ASSUME ForgeType, NewestSurvivesReconcile, NEW b \in Bumps, NEW state,
         NEW who \in {"bump", "reconcile", "human"}, SettlePull(b, state, who),
         who = "reconcile" => b[2] < selected[b[1]],
         selected' = selected
  PROVE  NewestSurvivesReconcile'
  BY DEF ForgeType, SettlePull, NewestSurvivesReconcile

LEMMA DeleteType ==
  ASSUME ForgeType, NEW b \in Bumps, NEW who \in {"bump", "reconcile", "human"},
         DeleteBranch(b, who), UNCHANGED <<installed, opened>>, MaxVersion \in Nat
  PROVE  ForgeType'
<1>1. cutFrom' \in [Bumps -> 0..MaxVersion]
  BY DEF DeleteBranch, ForgeType
<1> QED BY <1>1, SettleType DEF DeleteBranch, ForgeType

LEMMA MergeType ==
  ASSUME ForgeType, NEW b \in Bumps, NEW who \in {"bump", "human"}, Merge(b, who)
  PROVE  ForgeType'
<1>1. installed' \in [Packages -> Versions]
  BY BumpPair DEF Merge, ForgeType
<1> QED BY <1>1, SettleType DEF Merge, ForgeType

LEMMA OpenPullType ==
  ASSUME ForgeType, NEW b \in Bumps, OpenPull(b)
  PROVE  /\ pull' \in [Bumps -> {"none", "open", "merged", "closed"}]
         /\ by' \in [Bumps -> {"nobody", "bump", "reconcile", "human"}]
         /\ opened' \in [Bumps -> Nat]
         /\ NewestSurvivesReconcile /\ selected' = selected => NewestSurvivesReconcile'
  BY DEF ForgeType, OpenPull, NewestSurvivesReconcile

LEMMA CutType ==
  ASSUME ForgeType, NEW b \in Bumps, CutBranch(b), MaxVersion \in Nat
  PROVE  cutFrom' \in [Bumps -> 0..MaxVersion]
<1>1. installed[b[1]] \in 0..MaxVersion
  BY BumpPair DEF ForgeType, Versions
<1> QED BY <1>1 DEF CutBranch, ForgeType

LEMMA ForgeUnchanged ==
  ASSUME ForgeType, NewestSurvivesReconcile, UNCHANGED forgeVars, selected' = selected
  PROVE  ForgeType' /\ NewestSurvivesReconcile'
  BY DEF forgeVars, ForgeType, NewestSurvivesReconcile

-----------------------------------------------------------------------------
(* Scans.                                                                  *)

LEMMA AtType ==
  ASSUME NEW place \in ScanPlaces
  PROVE  At(place) \in ScanStates
<1>1. MaxAttempts - 1 \in Nat
  BY LoopAssumption
<1> QED BY <1>1 DEF At, ScanStates

\* A scan somewhere with nothing in hand dooms nothing.
LEMMA GotoKeeps ==
  ASSUME ScanType, Justified, NEW s \in Scans, NEW place \in ScanPlaces,
         Goto(s, place), selected' = selected
  PROVE  ScanType' /\ Justified'
<1>1. ScanType'
  BY AtType DEF ScanType, Goto
<1>2. \A t \in Scans : scan'[t] = IF t = s THEN At(place) ELSE scan[t]
  BY DEF ScanType, Goto
<1>3. Justified'
  BY <1>2 DEF Justified, Doomed, At
<1> QED BY <1>1, <1>3

\* A scan that holds only what is overtaken may be anywhere.
LEMMA WithinKeeps ==
  ASSUME ScanType, Justified, NEW s \in Scans, NEW place \in ScanPlaces,
         NEW work \in SUBSET Bumps, NEW closing \in SUBSET Bumps,
         Within(s, place, work, closing),
         \A b \in closing : b[2] < selected'[b[1]],
         place \in {"close", "delete"} => \A b \in work : b[2] < selected'[b[1]],
         \A t \in Scans : \A b \in Doomed(t) : b[2] < selected'[b[1]]
  PROVE  ScanType' /\ Justified'
<1>1. \A t \in Scans : scan[t] \in ScanStates
  BY DEF ScanType
<1>2. \A t \in Scans :
        scan'[t] = IF t = s THEN [scan[t] EXCEPT !.at = place, !.work = work,
                                                 !.closing = closing]
                   ELSE scan[t]
  BY <1>1 DEF ScanType, Within, ScanStates
<1>3. scan' = [t \in Scans |-> scan'[t]]
  BY DEF ScanType, Within
<1>4. \A t \in Scans : scan'[t] \in ScanStates
  BY <1>1, <1>2 DEF ScanStates
<1>5. Justified'
  <2>1. \A t \in Scans : t # s => Doomed(t)' = Doomed(t)
    BY <1>2 DEF Doomed
  <2>2. Doomed(s)' = closing \cup (IF place \in {"close", "delete"} THEN work ELSE {})
    BY <1>1, <1>2 DEF Doomed, ScanStates
  <2> QED BY <2>1, <2>2 DEF Justified
<1> QED BY <1>3, <1>4, <1>5 DEF ScanType

LEMMA DispatchNextKeeps ==
  ASSUME ScanType, NEW s \in Scans, NEW left \in SUBSET Bumps,
         DispatchNext(s, left),
         \A t \in Scans : \A b \in Doomed(t) : b[2] < selected'[b[1]]
  PROVE  ScanType' /\ Justified'
<1> DEFINE place == IF left = {} THEN "list" ELSE "dispatch"
<1>2. \A t \in Scans :
        scan'[t] = IF t = s THEN [At(place) EXCEPT !.work = left] ELSE scan[t]
  BY DEF ScanType, DispatchNext
<1>3. [At(place) EXCEPT !.work = left] \in ScanStates
  <2>1. place \in ScanPlaces
    BY DEF ScanPlaces, Activities
  <2> HIDE DEF place
  <2> QED BY <2>1, AtType DEF ScanStates
<1>4. ScanType'
  BY <1>3 DEF ScanType, DispatchNext
<1>5. Doomed(s)' = {}
  BY <1>2 DEF Doomed, At
<1>6. \A t \in Scans : t # s => Doomed(t)' = Doomed(t)
  BY <1>2 DEF Doomed
<1> QED BY <1>4, <1>5, <1>6 DEF Justified

LEMMA FailAttemptKeeps ==
  ASSUME ScanType, Justified, NEW s \in Scans, FailAttempt(s),
         scan[s].at \in Activities, selected' = selected
  PROVE  ScanType' /\ Justified'
<1> DEFINE again == IF scan[s].at \in {"derive", "close", "delete"} THEN "list"
                    ELSE scan[s].at
           left  == IF again = "dispatch" THEN scan[s].work ELSE {}
           next  == IF scan[s].tries + 1 < MaxAttempts
                    THEN [at |-> again, work |-> left, closing |-> {},
                          tries |-> scan[s].tries + 1]
                    ELSE At("dead")
<1>1. scan' = [scan EXCEPT ![s] = next]
  BY DEF FailAttempt
<1>2. scan[s] \in ScanStates
  BY DEF ScanType
<1>3. again \in Activities /\ again \notin {"close", "delete"}
  BY DEF Activities
<1>4. left \in SUBSET Bumps
  BY <1>2 DEF ScanStates
<1>5. scan[s].tries \in 0..(MaxAttempts - 1)
  BY <1>2 DEF ScanStates
<1>6. next \in ScanStates
  <2>1. CASE scan[s].tries + 1 < MaxAttempts
    <3>1. scan[s].tries + 1 \in 0..(MaxAttempts - 1)
      BY <1>5, <2>1, LoopAssumption
    <3>2. again \in ScanPlaces
      BY <1>3 DEF ScanPlaces
    <3> HIDE DEF again, left
    <3> QED BY <1>4, <2>1, <3>1, <3>2 DEF ScanStates
  <2>2. CASE ~(scan[s].tries + 1 < MaxAttempts)
    BY <2>2, AtType DEF ScanPlaces
  <2> QED BY <2>1, <2>2
<1>7. next.closing = {} /\ next.at \notin {"close", "delete"}
  <2> HIDE DEF again, left
  <2> QED BY <1>3 DEF At
<1> HIDE DEF next
<1>8. \A t \in Scans : scan'[t] = IF t = s THEN next ELSE scan[t]
  BY <1>1 DEF ScanType
<1>9. ScanType'
  BY <1>1, <1>6 DEF ScanType
<1>10. Justified'
  BY <1>7, <1>8 DEF Justified, Doomed
<1> QED BY <1>9, <1>10

\* What a version was selected for stays selected, and so does what replaces it.
LEMMA NoteSelectedKeeps ==
  ASSUME SelectedType, NoteSelected, UNCHANGED signal, MaxVersion \in Nat
  PROVE  /\ SelectedType'
         /\ \A p \in Packages : selected'[p] \in Nat /\ selected[p] \in Nat
                              /\ selected'[p] >= selected[p]
         /\ \A c \in Candidates : c[1] \in Packages /\ selected'[c[1]] >= c[2]
<1>1. \A p \in Packages : signal[p] \in 0..MaxVersion /\ selected[p] \in 0..MaxVersion
  BY DEF SelectedType, Versions
<1>2. \A p \in Packages :
        selected'[p] = IF <<p, signal[p]>> \in Candidates /\ signal[p] > selected[p]
                       THEN signal[p] ELSE selected[p]
  BY DEF NoteSelected
<1>3. \A p \in Packages : selected'[p] \in 0..MaxVersion
  BY <1>1, <1>2
<1>4. SelectedType'
  BY <1>3 DEF NoteSelected, SelectedType
<1>5. ASSUME NEW c \in Candidates
      PROVE  c[1] \in Packages /\ selected'[c[1]] >= c[2]
  <2>1. c \in Bumps /\ c[2] = signal[c[1]]
    BY DEF Candidates
  <2>2. c[1] \in Packages /\ <<c[1], signal[c[1]]>> \in Candidates
    BY <2>1, BumpPair
  <2> QED BY <1>1, <1>2, <2>1, <2>2
<1>6. \A p \in Packages : selected'[p] \in Nat /\ selected[p] \in Nat
                           /\ selected'[p] >= selected[p]
  <2> SUFFICES ASSUME NEW p \in Packages
               PROVE  /\ selected'[p] \in Nat /\ selected[p] \in Nat
                      /\ selected'[p] >= selected[p]
    OBVIOUS
  <2>1. signal[p] \in Nat /\ selected[p] \in Nat /\ selected'[p] \in Nat
    BY <1>1, <1>3
  <2>2. selected'[p] = selected[p] \/ (selected'[p] = signal[p] /\ signal[p] > selected[p])
    BY <1>2
  <2> QED BY <2>1, <2>2
<1> QED BY <1>4, <1>5, <1>6

\* A larger selection justifies what a smaller one did.
LEMMA StillJustified ==
  ASSUME ScanType, SelectedType, Justified, NewestSurvivesReconcile,
         NoteSelected, UNCHANGED signal, MaxVersion \in Nat
  PROVE  /\ \A b \in Bumps : by[b] = "reconcile" => b[2] < selected'[b[1]]
         /\ \A t \in Scans : \A b \in Doomed(t) : b[2] < selected'[b[1]]
<1>1. \A t \in Scans : Doomed(t) \subseteq Bumps
  BY DEF ScanType, ScanStates, Doomed
<1>2. \A b \in Bumps : b[2] < selected[b[1]] => b[2] < selected'[b[1]]
  <2> SUFFICES ASSUME NEW b \in Bumps, b[2] < selected[b[1]]
               PROVE  b[2] < selected'[b[1]]
    OBVIOUS
  <2>1. b[1] \in Packages /\ b[2] \in Nat
    BY BumpPair DEF Versions
  <2> QED BY <2>1, NoteSelectedKeeps
<1> QED BY <1>1, <1>2 DEF Justified, NewestSurvivesReconcile

-----------------------------------------------------------------------------
(* The actions.                                                            *)

\* A dispatch starts a workflow under an id that was never used, or none.
LEMMA StartBumpType ==
  ASSUME BumpType, NEW b \in Bumps, StartBump(b)
  PROVE  BumpType'
  BY DEF BumpType, StartBump, BumpStages

LEMMA AdvanceType ==
  ASSUME BumpType, NEW b \in Bumps, NEW stage \in BumpStages, Advance(b, stage)
  PROVE  BumpType'
  BY DEF BumpType, Advance

LEMMA SelectedUnchanged ==
  ASSUME SelectedType, UNCHANGED <<signal, selected>>
  PROVE  SelectedType'
  BY DEF SelectedType

LEMMA BudgetSpent ==
  ASSUME BudgetType, Fault \/ Move \/ UNCHANGED budgetVars
  PROVE  BudgetType'
  BY LoopAssumption DEF BudgetType, Fault, Move, budgetVars

LEMMA DoomedType ==
  ASSUME ScanType, NEW s \in Scans
  PROVE  /\ scan[s] \in ScanStates
         /\ scan[s].work \in SUBSET Bumps /\ scan[s].closing \in SUBSET Bumps
         /\ Doomed(s) \in SUBSET Bumps
  BY DEF ScanType, ScanStates, Doomed

\* The requests that reconcile sends keep what it closes overtaken.
LEMMA ReconcileWrites ==
  ASSUME ForgeType, Justified, NewestSurvivesReconcile, ScanType,
         NEW s \in Scans, NEW b \in Doomed(s),
         PatchClosed(b) \/ DeleteBranch(b, "reconcile"),
         UNCHANGED <<installed, opened, selected>>
  PROVE  ForgeType' /\ NewestSurvivesReconcile'
<1>1. b \in Bumps /\ b[2] < selected[b[1]]
  BY DoomedType DEF Justified
<1>2. MaxVersion \in Nat
  BY LoopAssumption
<1>3. SettlePull(b, "closed", "reconcile")
  BY DEF PatchClosed, DeleteBranch
<1>4. ForgeType'
  <2>1. CASE PatchClosed(b)
    BY <1>1, <2>1, SettleType DEF PatchClosed, ForgeType
  <2>2. CASE DeleteBranch(b, "reconcile")
    BY <1>1, <1>2, <2>2, DeleteType
  <2> QED BY <2>1, <2>2
<1>5. NewestSurvivesReconcile'
  BY <1>1, <1>3, SettleSpares
<1> QED BY <1>4, <1>5

LEMMA TickKeeps ==
  ASSUME ReconcileInductive, NEW s \in Scans, ScanStep(s)
  PROVE  ReconcileInductive'
<1>0. /\ ForgeType /\ SelectedType /\ BumpType /\ ScanType /\ BudgetType
      /\ NewestSurvivesReconcile /\ Justified
  BY TypeParts DEF ReconcileInductive, Justified
<1>1. MaxVersion \in Nat
  BY LoopAssumption
<1>2. SUFFICES /\ ForgeType' /\ SelectedType' /\ BumpType' /\ ScanType' /\ BudgetType'
               /\ NewestSurvivesReconcile' /\ Justified'
  BY TypeParts DEF ReconcileInductive, Justified, TypeOK, ForgeType, SelectedType,
                   BumpType, ScanType, BudgetType
<1>3. BudgetType'
  BY <1>0, BudgetSpent
     DEF ScanStep, ScanCandidates, DispatchBump, ListOpenPullRequests, DeriveClosures,
         CloseOvertaken, DeleteOvertaken, SelfTest, ContinueAsNew
<1>4. Candidates \in SUBSET Bumps
  BY DEF Candidates
<1>5. CASE ScanCandidates(s)
  <2>1. /\ \A b \in Bumps : by[b] = "reconcile" => b[2] < selected'[b[1]]
        /\ \A t \in Scans : \A b \in Doomed(t) : b[2] < selected'[b[1]]
    BY <1>0, <1>1, <1>5, StillJustified DEF ScanCandidates
  <2>2. ScanType' /\ Justified'
    BY <1>0, <1>4, <1>5, <2>1, DispatchNextKeeps DEF ScanCandidates
  <2>3. SelectedType'
    BY <1>0, <1>1, <1>5, NoteSelectedKeeps DEF ScanCandidates
  <2>4. ForgeType' /\ BumpType' /\ NewestSurvivesReconcile'
    BY <1>0, <1>5, <2>1 DEF ScanCandidates, forgeVars, ForgeType, BumpType,
                            NewestSurvivesReconcile
  <2> QED BY <1>3, <2>2, <2>3, <2>4
<1>6. CASE DispatchBump(s)
  <2>1. PICK b \in scan[s].work : StartBump(b) /\ DispatchNext(s, scan[s].work \ {b})
    BY <1>6 DEF DispatchBump
  <2>2. UNCHANGED <<forgeVars, signal, selected>>
    BY <1>6 DEF DispatchBump
  <2>3. b \in Bumps /\ scan[s].work \ {b} \in SUBSET Bumps
    BY <1>0, DoomedType
  <2>4. ScanType' /\ Justified'
    BY <1>0, <2>1, <2>2, <2>3, DispatchNextKeeps DEF Justified
  <2> QED BY <1>0, <1>3, <2>1, <2>2, <2>3, <2>4, StartBumpType, ForgeUnchanged,
             SelectedUnchanged
<1>7. CASE ListOpenPullRequests(s)
  <2>1. Open \in SUBSET Bumps
    BY DEF Open
  <2>2. Within(s, "derive", Open, {}) /\ selected' = selected
    BY <1>7 DEF ListOpenPullRequests
  <2>3. \A t \in Scans : \A b \in Doomed(t) : b[2] < selected'[b[1]]
    BY <1>0, <2>2 DEF Justified
  <2>4. "derive" \in ScanPlaces /\ "derive" \notin {"close", "delete"}
    BY DEF ScanPlaces, Activities
  <2>5. ScanType' /\ Justified'
    <3> DEFINE none == {}
    <3>1. none \in SUBSET Bumps /\ \A b \in none : b[2] < selected'[b[1]]
      OBVIOUS
    <3>2. Within(s, "derive", Open, none)
      BY <2>2
    <3> HIDE DEF none
    <3> QED BY <1>0, <2>1, <2>3, <2>4, <3>1, <3>2, WithinKeeps
  <2> QED BY <1>0, <1>3, <1>7, <2>5, ForgeUnchanged, SelectedUnchanged
             DEF ListOpenPullRequests, BumpType
<1>8. CASE DeriveClosures(s)
  <2> DEFINE work == Overtaken(scan[s].work, Candidates)
  <2>1. /\ \A b \in Bumps : by[b] = "reconcile" => b[2] < selected'[b[1]]
        /\ \A t \in Scans : \A b \in Doomed(t) : b[2] < selected'[b[1]]
    BY <1>0, <1>1, <1>8, StillJustified DEF DeriveClosures
  <2>2. work \in SUBSET Bumps
    BY <1>0, DoomedType DEF Overtaken
  <2>3. ASSUME NEW b \in work PROVE b[2] < selected'[b[1]]
    <3>1. PICK c \in Candidates : c[1] = b[1] /\ b[2] < c[2]
      BY DEF Overtaken
    <3>2. c[1] \in Packages /\ selected'[c[1]] >= c[2] /\ selected'[c[1]] \in Nat
      BY <1>0, <1>1, <1>8, NoteSelectedKeeps DEF DeriveClosures
    <3>3. b[2] \in Nat /\ c[2] \in Nat
      BY <1>4, <2>2, BumpPair DEF Versions
    <3> QED BY <3>1, <3>2, <3>3
  <2>4. ScanType' /\ Justified'
    <3>1. CASE work = {}
      <4>1. Goto(s, "selftest")
        BY <1>8, <3>1 DEF DeriveClosures, CloseNext
      <4>2. scan' = [scan EXCEPT ![s] = At("selftest")]
        BY <4>1 DEF Goto
      <4>3. ScanType'
        BY <1>0, <4>2, AtType DEF ScanType, ScanPlaces, Activities
      <4>4. \A t \in Scans : Doomed(t)' = IF t = s THEN {} ELSE Doomed(t)
        BY <1>0, <4>2 DEF ScanType, Doomed, At
      <4> QED BY <2>1, <4>3, <4>4 DEF Justified
    <3>2. CASE work # {}
      <4>1. Within(s, "close", work, {})
        BY <1>8, <3>2 DEF DeriveClosures, CloseNext
      <4> HIDE DEF work
      <4> QED BY <1>0, <2>1, <2>2, <2>3, <4>1, WithinKeeps DEF ScanPlaces, Activities
    <3> QED BY <3>1, <3>2
  <2>5. SelectedType'
    BY <1>0, <1>1, <1>8, NoteSelectedKeeps DEF DeriveClosures
  <2>6. ForgeType' /\ BumpType' /\ NewestSurvivesReconcile'
    BY <1>0, <1>8, <2>1 DEF DeriveClosures, forgeVars, ForgeType, BumpType,
                            NewestSurvivesReconcile
  <2> QED BY <1>3, <2>4, <2>5, <2>6
<1>9. CASE CloseOvertaken(s)
  <2>1. PICK b \in scan[s].work :
          PatchClosed(b) /\ Within(s, "delete", scan[s].work \ {b}, {b})
    BY <1>9 DEF CloseOvertaken
  <2>2. scan[s].work \subseteq Doomed(s)
    BY <1>9 DEF CloseOvertaken, Doomed
  <2>3. scan[s].work \in SUBSET Bumps /\ UNCHANGED <<installed, opened, signal, bump, selected>>
    BY <1>0, <1>9, DoomedType DEF CloseOvertaken
  <2>4. \A c \in scan[s].work : c[2] < selected'[c[1]]
    BY <1>0, <2>2, <2>3 DEF Justified
  <2>5. ScanType' /\ Justified'
    BY <1>0, <2>1, <2>3, <2>4, WithinKeeps DEF Justified, ScanPlaces, Activities
  <2>6. ForgeType' /\ NewestSurvivesReconcile'
    BY <1>0, <2>1, <2>2, <2>3, ReconcileWrites
  <2> QED BY <1>0, <1>3, <2>3, <2>5, <2>6, SelectedUnchanged DEF BumpType
<1>10. CASE DeleteOvertaken(s)
  <2>1. PICK b \in scan[s].closing : DeleteBranch(b, "reconcile")
    BY <1>10 DEF DeleteOvertaken
  <2>2. scan[s].closing \cup scan[s].work \subseteq Doomed(s)
    BY <1>10 DEF DeleteOvertaken, Doomed
  <2>3. scan[s].work \in SUBSET Bumps /\ UNCHANGED <<installed, opened, signal, bump, selected>>
    BY <1>0, <1>10, DoomedType DEF DeleteOvertaken
  <2>4. \A c \in scan[s].work : c[2] < selected'[c[1]]
    BY <1>0, <2>2, <2>3 DEF Justified
  <2>5. ScanType' /\ Justified'
    <3>1. CASE Goto(s, "selftest")
      BY <1>0, <2>3, <3>1, GotoKeeps DEF ScanPlaces, Activities
    <3>2. CASE Within(s, "close", scan[s].work, {})
      <4> DEFINE none == {}
      <4>1. none \in SUBSET Bumps /\ \A c \in none : c[2] < selected'[c[1]]
        OBVIOUS
      <4>2. \A t \in Scans : \A c \in Doomed(t) : c[2] < selected'[c[1]]
        BY <1>0, <2>3 DEF Justified
      <4>3. "close" \in ScanPlaces
        BY DEF ScanPlaces, Activities
      <4>4. Within(s, "close", scan[s].work, none)
        BY <3>2
      <4> HIDE DEF none
      <4> QED BY <1>0, <2>3, <2>4, <4>1, <4>2, <4>3, <4>4, WithinKeeps
    <3> QED BY <1>10, <3>1, <3>2 DEF DeleteOvertaken, CloseNext
  <2>6. ForgeType' /\ NewestSurvivesReconcile'
    BY <1>0, <2>1, <2>2, <2>3, ReconcileWrites
  <2> QED BY <1>0, <1>3, <2>3, <2>5, <2>6, SelectedUnchanged DEF BumpType
<1>11. CASE SelfTest(s) \/ ContinueAsNew(s)
  <2>1. UNCHANGED <<forgeVars, signal, bump, selected>>
    BY <1>11 DEF SelfTest, ContinueAsNew
  <2>2. \E place \in ScanPlaces : Goto(s, place)
    BY <1>11 DEF SelfTest, ContinueAsNew, ScanPlaces, Activities
  <2>3. ScanType' /\ Justified'
    BY <1>0, <2>1, <2>2, GotoKeeps
  <2> QED BY <1>0, <1>3, <2>1, <2>3, ForgeUnchanged, SelectedUnchanged DEF BumpType
<1> QED BY <1>5, <1>6, <1>7, <1>8, <1>9, <1>10, <1>11 DEF ScanStep

\* The conjuncts to restore after a step, by name.
LEMMA Assemble ==
  ASSUME ForgeType', SelectedType', BumpType', ScanType', BudgetType',
         NewestSurvivesReconcile', Justified'
  PROVE  ReconcileInductive'
  BY DEF ReconcileInductive, Justified, TypeOK, ForgeType, SelectedType,
         BumpType, ScanType, BudgetType

LEMMA Parts ==
  ASSUME ReconcileInductive
  PROVE  /\ ForgeType /\ SelectedType /\ BumpType /\ ScanType /\ BudgetType
         /\ NewestSurvivesReconcile /\ Justified /\ MaxVersion \in Nat
  BY TypeParts, LoopAssumption DEF ReconcileInductive, Justified

LEMMA ScansUnchanged ==
  ASSUME ScanType, Justified, UNCHANGED <<scan, selected>>
  PROVE  ScanType' /\ Justified'
  BY DEF ScanType, Justified, Doomed

LEMMA ScanFaultsKeep ==
  ASSUME ReconcileInductive, NEW s \in Scans, ScanLost(s) \/ ScanUnheard(s)
  PROVE  ReconcileInductive'
<1>0. /\ ForgeType /\ SelectedType /\ BumpType /\ ScanType /\ BudgetType
      /\ NewestSurvivesReconcile /\ Justified
  BY Parts
<1>1. UNCHANGED <<signal, selected>> /\ SelectedType'
  BY <1>0, SelectedUnchanged DEF ScanLost, ScanUnheard
<1>2. BudgetType'
  BY <1>0, BudgetSpent DEF ScanLost, ScanUnheard
<1>3. ScanType' /\ Justified'
  <2>1. CASE Goto(s, "dead")
    BY <1>0, <1>1, <2>1, GotoKeeps DEF ScanPlaces
  <2>2. CASE FailAttempt(s)
    <3>1. scan[s].at \in Activities
      BY DEF ScanLost, ScanUnheard, Activities
    <3> QED BY <1>0, <1>1, <2>2, <3>1, FailAttemptKeeps
  <2> QED BY <2>1, <2>2 DEF ScanLost, ScanUnheard
<1>4. ForgeType' /\ NewestSurvivesReconcile' /\ BumpType'
  <2>1. CASE ScanLost(s)
    <3>1. UNCHANGED <<forgeVars, bump>>
      BY <2>1 DEF ScanLost
    <3> QED BY <1>0, <1>1, <3>1, ForgeUnchanged DEF BumpType
  <2>2. CASE ScanUnheard(s)
    <3>0. UNCHANGED <<installed, opened>>
      BY <2>2 DEF ScanUnheard
    <3>1. CASE /\ \E b \in scan[s].work : StartBump(b)
               /\ UNCHANGED <<pull, by, cutFrom>>
      <4>1. BumpType'
        BY <1>0, <3>1, DoomedType, StartBumpType
      <4>2. UNCHANGED forgeVars
        BY <3>0, <3>1 DEF forgeVars
      <4> QED BY <1>0, <1>1, <4>1, <4>2, ForgeUnchanged
    <3>2. CASE /\ scan[s].at = "close" /\ \E b \in scan[s].work : PatchClosed(b)
               /\ UNCHANGED bump
      <4>1. PICK b \in Doomed(s) : PatchClosed(b)
        BY <3>2 DEF Doomed
      <4>2. ForgeType' /\ NewestSurvivesReconcile'
        BY <1>0, <1>1, <3>0, <4>1, ReconcileWrites
      <4> QED BY <1>0, <3>2, <4>2 DEF BumpType
    <3>3. CASE /\ \E b \in scan[s].closing : DeleteBranch(b, "reconcile")
               /\ UNCHANGED bump
      <4>1. PICK b \in Doomed(s) : DeleteBranch(b, "reconcile")
        BY <3>3 DEF Doomed
      <4>2. ForgeType' /\ NewestSurvivesReconcile'
        BY <1>0, <1>1, <3>0, <4>1, ReconcileWrites
      <4> QED BY <1>0, <3>3, <4>2 DEF BumpType
    <3> QED BY <2>2, <3>1, <3>2, <3>3 DEF ScanUnheard
  <2> QED BY <2>1, <2>2
<1> QED BY <1>0, <1>1, <1>2, <1>3, <1>4, Assemble

\* Merging and closing by anyone but reconcile.
LEMMA MergeKeeps ==
  ASSUME ForgeType, NewestSurvivesReconcile, selected' = selected,
         NEW b \in Bumps, NEW who \in {"bump", "human"}, Merge(b, who)
  PROVE  ForgeType' /\ NewestSurvivesReconcile'
  BY MergeType, SettleSpares DEF Merge

LEMMA DeleteKeeps ==
  ASSUME ForgeType, NewestSurvivesReconcile, selected' = selected,
         NEW b \in Bumps, NEW who \in {"bump", "human"}, DeleteBranch(b, who),
         UNCHANGED <<installed, opened>>
  PROVE  ForgeType' /\ NewestSurvivesReconcile'
<1>1. MaxVersion \in Nat
  BY LoopAssumption
<1>2. NewestSurvivesReconcile'
  BY SettleSpares DEF DeleteBranch
<1> QED BY <1>1, <1>2, DeleteType

LEMMA OpenKeeps ==
  ASSUME ForgeType, NewestSurvivesReconcile, selected' = selected,
         NEW b \in Bumps, CutBranch(b), UNCHANGED installed,
         OpenPull(b) \/ UNCHANGED <<pull, by, opened>>
  PROVE  ForgeType' /\ NewestSurvivesReconcile'
<1>1. cutFrom' \in [Bumps -> 0..MaxVersion]
  BY LoopAssumption, CutType
<1>2. CASE OpenPull(b)
  BY <1>1, <1>2, OpenPullType DEF ForgeType
<1>3. CASE UNCHANGED <<pull, by, opened>>
  BY <1>1, <1>3 DEF ForgeType, NewestSurvivesReconcile
<1> QED BY <1>2, <1>3

LEMMA BumpKeeps ==
  ASSUME ReconcileInductive, NEW b \in Bumps,
         BumpStep(b) \/ BumpOpensUnheard(b) \/ BumpGivesUp(b)
  PROVE  ReconcileInductive'
<1>0. /\ ForgeType /\ SelectedType /\ BumpType /\ ScanType /\ BudgetType
      /\ NewestSurvivesReconcile /\ Justified
  BY Parts
<1>1. UNCHANGED <<signal, scan, selected>> /\ (Fault \/ UNCHANGED budgetVars)
  BY DEF BumpStep, BumpOpens, BumpRefused, BumpResolves, BumpMerges, BumpCloses,
         BumpRecords, BumpOpensUnheard, BumpGivesUp
<1>2. SelectedType' /\ BudgetType' /\ ScanType' /\ Justified'
  BY <1>0, <1>1, SelectedUnchanged, BudgetSpent, ScansUnchanged
<1>3. BumpType'
  <2>1. (\E stage \in BumpStages : Advance(b, stage)) \/ UNCHANGED bump
    BY DEF BumpStep, BumpOpens, BumpRefused, BumpResolves, BumpMerges, BumpCloses,
           BumpRecords, BumpOpensUnheard, BumpGivesUp, BumpStages
  <2> QED BY <1>0, <2>1, AdvanceType DEF BumpType
<1>4. ForgeType' /\ NewestSurvivesReconcile'
  <2>1. CASE UNCHANGED forgeVars
    BY <1>0, <1>1, <2>1, ForgeUnchanged
  <2>2. CASE Merge(b, "bump")
    BY <1>0, <1>1, <2>2, MergeKeeps
  <2>3. CASE DeleteBranch(b, "bump") /\ UNCHANGED <<installed, opened>>
    BY <1>0, <1>1, <2>3, DeleteKeeps
  <2>4. CASE /\ CutBranch(b) /\ UNCHANGED installed
             /\ OpenPull(b) \/ UNCHANGED <<pull, by, opened>>
    BY <1>0, <1>1, <2>4, OpenKeeps
  <2>5. \/ UNCHANGED forgeVars \/ Merge(b, "bump")
        \/ DeleteBranch(b, "bump") /\ UNCHANGED <<installed, opened>>
        \/ /\ CutBranch(b) /\ UNCHANGED installed
           /\ OpenPull(b) \/ UNCHANGED <<pull, by, opened>>
    BY DEF BumpStep, BumpOpens, BumpRefused, BumpResolves, BumpMerges, BumpCloses,
           BumpRecords, BumpOpensUnheard, BumpGivesUp, forgeVars
  <2> QED BY <2>1, <2>2, <2>3, <2>4, <2>5
<1> QED BY <1>0, <1>2, <1>3, <1>4, Assemble

LEMMA WorldKeeps ==
  ASSUME ReconcileInductive, Revive \/ Trigger \/ Terminate \/ World
  PROVE  ReconcileInductive'
<1>0. /\ ForgeType /\ SelectedType /\ BumpType /\ ScanType /\ BudgetType
      /\ NewestSurvivesReconcile /\ Justified
  BY Parts
<1>1. UNCHANGED <<bump, selected>> /\ (Move \/ UNCHANGED budgetVars)
  BY DEF Revive, Trigger, Terminate, World, SignalMoves, HumanMerges, HumanCloses,
         HumanUpgrades
<1>2. BumpType' /\ BudgetType'
  BY <1>0, <1>1, BudgetSpent DEF BumpType
<1>3. CASE Revive \/ Trigger \/ Terminate
  <2>1. UNCHANGED <<forgeVars, signal>>
    BY <1>3 DEF Revive, Trigger, Terminate
  <2>2. \E s \in Scans, place \in ScanPlaces : Goto(s, place)
    BY <1>3 DEF Revive, Trigger, Terminate, Scans, ScanPlaces, Activities
  <2>3. ScanType' /\ Justified'
    BY <1>0, <1>1, <2>2, GotoKeeps
  <2> QED BY <1>0, <1>1, <1>2, <2>1, <2>3, ForgeUnchanged, SelectedUnchanged, Assemble
<1>4. CASE World
  <2>1. ScanType' /\ Justified'
    BY <1>0, <1>1, <1>4, ScansUnchanged
       DEF World, SignalMoves, HumanMerges, HumanCloses, HumanUpgrades
  <2>2. SelectedType'
    BY <1>0, <1>1, <1>4
       DEF World, SignalMoves, HumanMerges, HumanCloses, HumanUpgrades, SelectedType
  <2>3. ForgeType' /\ NewestSurvivesReconcile'
    <3>1. CASE SignalMoves
      BY <1>0, <1>1, <3>1, ForgeUnchanged DEF SignalMoves
    <3>2. CASE HumanMerges
      BY <1>0, <1>1, <3>2, MergeKeeps DEF HumanMerges
    <3>3. CASE HumanCloses
      <4>1. PICK b \in Open : \/ SettlePull(b, "closed", "human") /\ UNCHANGED cutFrom
                              \/ DeleteBranch(b, "human")
        BY <3>3 DEF HumanCloses
      <4>2. b \in Bumps /\ UNCHANGED <<installed, opened>>
        BY <3>3, <4>1 DEF HumanCloses, Open
      <4>3. CASE SettlePull(b, "closed", "human") /\ UNCHANGED cutFrom
        BY <1>0, <1>1, <4>2, <4>3, SettleType, SettleSpares DEF ForgeType
      <4>4. CASE DeleteBranch(b, "human")
        BY <1>0, <1>1, <4>2, <4>4, DeleteKeeps
      <4> QED BY <4>1, <4>3, <4>4
    <3>4. CASE HumanUpgrades
      BY <1>0, <1>1, <3>4 DEF HumanUpgrades, ForgeType, NewestSurvivesReconcile
    <3> QED BY <1>4, <3>1, <3>2, <3>3, <3>4 DEF World
  <2> QED BY <1>0, <1>2, <2>1, <2>2, <2>3, Assemble
<1> QED BY <1>3, <1>4

LEMMA InitHolds ==
  ASSUME Init
  PROVE  ReconcileInductive
<1>1. At("off") \in ScanStates
  BY AtType DEF ScanPlaces
<1>2. ScanType
  BY <1>1 DEF Init, ScanType
<1>3. BudgetType
  BY LoopAssumption DEF Init, BudgetType
<1>4. ForgeType /\ SelectedType /\ BumpType
  BY LoopAssumption DEF Init, ForgeType, SelectedType, BumpType, BumpStages, Versions
<1>5. Justified
  BY DEF Init, Justified, Doomed, At
<1>6. NewestSurvivesReconcile
  BY DEF Init, NewestSurvivesReconcile
<1> QED BY <1>2, <1>3, <1>4, <1>5, <1>6, TypeParts DEF ReconcileInductive, Justified

LEMMA StutterKeeps ==
  ASSUME ReconcileInductive, UNCHANGED vars
  PROVE  ReconcileInductive'
<1>0. /\ ForgeType /\ SelectedType /\ BumpType /\ ScanType /\ BudgetType
      /\ NewestSurvivesReconcile /\ Justified
  BY Parts
<1>1. UNCHANGED <<forgeVars, signal, bump, scan, budgetVars, selected>>
  BY DEF vars
<1> QED BY <1>0, <1>1, ForgeUnchanged, SelectedUnchanged, ScansUnchanged, BudgetSpent,
           Assemble DEF BumpType

-----------------------------------------------------------------------------
(* The theorems.                                                           *)

\* However the scans, their retries and their deaths interleave, whatever
\* reconcile has closed or is about to close was overtaken by a version
\* selected before (reconcile_open_prs).
THEOREM ReconcileInductiveHolds == Spec => []ReconcileInductive
<1>1. Init => ReconcileInductive
  BY InitHolds
<1>2. ReconcileInductive /\ [Next]_vars => ReconcileInductive'
  BY TickKeeps, ScanFaultsKeep, BumpKeeps, WorldKeeps, StutterKeeps DEF Next
<1> QED BY <1>1, <1>2, PTL DEF Spec

\* Every variable of the scan loop holds what the code's types let it hold.
THEOREM ScanTypeCorrect == Spec => []TypeOK
<1>1. ReconcileInductive => TypeOK
  BY DEF ReconcileInductive
<1> QED BY <1>1, ReconcileInductiveHolds, PTL

\* Reconcile never closes a pull request of the newest version selected of its
\* package (reconciliations), from however stale a listing it works.
THEOREM NewestSurvives == Spec => []NewestSurvivesReconcile
<1>1. ReconcileInductive => NewestSurvivesReconcile
  BY DEF ReconcileInductive
<1> QED BY <1>1, ReconcileInductiveHolds, PTL

-----------------------------------------------------------------------------
(* Dispatch.                                                               *)

LEMMA StartLeavesOver ==
  ASSUME BumpType, NEW b \in Bumps, StartBump(b), UNCHANGED opened
  PROVE  LeavesOver
  BY DEF BumpType, StartBump, LeavesOver, Over

LEMMA AdvanceLeavesOver ==
  ASSUME BumpType, ForgeType, NEW b \in Bumps, bump[b] \notin Over,
         (\E stage \in BumpStages : Advance(b, stage)) \/ UNCHANGED bump,
         OpenPull(b) \/ UNCHANGED opened
  PROVE  LeavesOver
  BY DEF BumpType, ForgeType, Advance, OpenPull, LeavesOver

LEMMA ScansLeaveOver ==
  ASSUME ReconcileInductive, NEW s \in Scans,
         ScanStep(s) \/ ScanLost(s) \/ ScanUnheard(s)
  PROVE  LeavesOver
<1>1. BumpType /\ scan[s].work \in SUBSET Bumps
  BY Parts, DoomedType
<1>2. UNCHANGED opened
  BY DEF ScanStep, ScanCandidates, DispatchBump, ListOpenPullRequests, DeriveClosures,
         CloseOvertaken, DeleteOvertaken, SelfTest, ContinueAsNew, ScanLost, ScanUnheard,
         forgeVars
<1>3. UNCHANGED bump \/ \E b \in scan[s].work : StartBump(b)
  BY DEF ScanStep, ScanCandidates, DispatchBump, ListOpenPullRequests, DeriveClosures,
         CloseOvertaken, DeleteOvertaken, SelfTest, ContinueAsNew, ScanLost, ScanUnheard
<1> QED BY <1>1, <1>2, <1>3, StartLeavesOver DEF LeavesOver

LEMMA BumpLeavesOver ==
  ASSUME ReconcileInductive, NEW b \in Bumps,
         BumpStep(b) \/ BumpOpensUnheard(b) \/ BumpGivesUp(b)
  PROVE  LeavesOver
<1>1. ForgeType /\ BumpType
  BY Parts
<1>2. bump[b] \notin Over
  BY DEF BumpStep, BumpOpens, BumpRefused, BumpResolves, BumpMerges, BumpCloses,
         BumpRecords, BumpOpensUnheard, BumpGivesUp, Over
<1>3. (\E stage \in BumpStages : Advance(b, stage)) \/ UNCHANGED bump
  BY DEF BumpStep, BumpOpens, BumpRefused, BumpResolves, BumpMerges, BumpCloses,
         BumpRecords, BumpOpensUnheard, BumpGivesUp, BumpStages
<1>4. OpenPull(b) \/ UNCHANGED opened
  BY DEF BumpStep, BumpOpens, BumpRefused, BumpResolves, BumpMerges, BumpCloses,
         BumpRecords, BumpOpensUnheard, BumpGivesUp, Merge, forgeVars
<1> QED BY <1>1, <1>2, <1>3, <1>4, AdvanceLeavesOver

LEMMA WorldLeavesOver ==
  ASSUME Revive \/ Trigger \/ Terminate \/ World
  PROVE  LeavesOver
<1>1. UNCHANGED <<bump, opened>>
  BY DEF Revive, Trigger, Terminate, World, SignalMoves, HumanMerges, HumanCloses,
         HumanUpgrades, Merge, forgeVars
<1> QED BY <1>1 DEF LeavesOver

\* A bump whose workflow is over is never started again and never opens another
\* pull request, by whatever scan and after whatever fault (dispatch_bump).
THEOREM DispatchOnce == Spec => NeverProposedAgain
<1>1. ReconcileInductive /\ [Next]_vars => [LeavesOver]_vars
  BY ScansLeaveOver, BumpLeavesOver, WorldLeavesOver DEF Next
<1> QED BY <1>1, ReconcileInductiveHolds, PTL DEF Spec, NeverProposedAgain
=============================================================================
