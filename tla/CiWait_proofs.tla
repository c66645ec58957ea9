------------------------------ MODULE CiWait_proofs ------------------------------
(***************************************************************************)
(* What a reading of CI is worth, for any number of checks, contexts,      *)
(* pages, poll intervals, attempts and re-runs.                            *)
(***************************************************************************)
EXTENDS CiWait, TLAPS

LEMMA Numbers ==
  /\ MaxAttempts \in Nat \ {0} /\ Deadline \in Nat
  /\ MaxFaults \in Nat /\ MaxReruns \in Nat
  BY BoundsAssumption

\* What the forge says of the contexts together it has from one of them.
LEMMA CombinedSays ==
  ASSUME TypeOK
  PROVE  /\ Combined = "failure" => \E c \in Contexts : contexts[c] = "failure"
         /\ Combined # "none" => \E c \in Contexts : contexts[c] # "unreported"
<1> DEFINE reported == {contexts[c] : c \in Contexts} \ {"unreported"}
<1>1. reported \subseteq {"pending", "success", "failure"}
  BY DEF TypeOK, ContextStates
<1>2. \A state \in reported : \E c \in Contexts : contexts[c] = state
  OBVIOUS
<1>3. CASE reported = {}
  <2>1. Combined = "none"
    BY <1>3 DEF Combined
  <2> QED BY <2>1
<1>4. CASE "failure" \in reported
  BY <1>2, <1>4
<1>5. CASE reported # {} /\ "failure" \notin reported
  <2>1. Combined \in {"pending", "success"}
    BY <1>1, <1>5 DEF Combined
  <2> QED BY <1>2, <1>5, <2>1
<1> QED BY <1>3, <1>4, <1>5

\* What each answer of the mapping says of the rows seen.
LEMMA StatusSays ==
  ASSUME NEW checks \in [Checks -> RowStates], NEW combined
  PROVE  LET status == CiStatusFromChecks(checks, combined)
         IN /\ status \in {"absent", "pending", "failed", "passed"}
            /\ status = "passed" => \A c \in Checks : checks[c] \in {"unregistered", "good"}
            /\ status = "failed" => combined = "failure" \/ \E c \in Checks : checks[c] = "bad"
            /\ status = "pending" => combined # "none"
                                       \/ \E c \in Checks : checks[c] # "unregistered"
<1>1. checks # Unfetched => \E c \in Checks : checks[c] # "unregistered"
  BY DEF Unfetched
<1>2. \A c \in Checks : checks[c] \in {"unregistered", "running", "good", "bad"}
  BY DEF RowStates
<1> QED BY <1>1, <1>2 DEF CiStatusFromChecks, Unresolved, Failing

LEMMA InitReading == Init => ReadingInductive
<1> SUFFICES ASSUME Init PROVE ReadingInductive
  OBVIOUS
<1>1. TypeOK
  BY Numbers DEF Init, TypeOK, Unfetched, RowStates, ContextStates, Results
<1>2. AllAccountedFor /\ SeenStands
  BY DEF Init, AllAccountedFor, SeenStands, Unfetched
<1>3. GreenIsComplete /\ ReadingStillTrue /\ TimeoutHasWaited
  BY DEF Init, GreenIsComplete, ReadingStillTrue, TimeoutHasWaited
<1> QED BY <1>1, <1>2, <1>3 DEF ReadingInductive

\* A reading that is not over promises nothing yet.
LEMMA NothingYet ==
  ASSUME result \notin {"passed", "failed", "timed_out"}
  PROVE  GreenIsComplete /\ ReadingStillTrue /\ TimeoutHasWaited
  BY DEF GreenIsComplete, ReadingStillTrue, TimeoutHasWaited

\* An attempt that starts has seen nothing and has all before it.
LEMMA StartKeeps ==
  ASSUME ReadingInductive, StartAttempt, result = "none",
         UNCHANGED <<ciVars, result, baseline>>,
         elapsed' \in 0..Deadline, tries' \in 0..(MaxAttempts - 1), faults' \in 0..MaxFaults
  PROVE  ReadingInductive'
<1> USE DEF StartAttempt, ciVars
<1>1. TypeOK'
  BY DEF ReadingInductive, TypeOK, Unfetched, RowStates
<1>2. AllAccountedFor' /\ SeenStands'
  BY DEF ReadingInductive, TypeOK, AllAccountedFor, SeenStands, Unfetched
<1>3. GreenIsComplete' /\ ReadingStillTrue' /\ TimeoutHasWaited'
  BY DEF GreenIsComplete, ReadingStillTrue, TimeoutHasWaited
<1> QED BY <1>1, <1>2, <1>3 DEF ReadingInductive

LEMMA ReadPageKeeps == ReadingInductive /\ ReadPage => ReadingInductive'
<1> SUFFICES ASSUME ReadingInductive, ReadPage PROVE ReadingInductive'
  OBVIOUS
<1>1. PICK page \in SUBSET unread :
        /\ seen' = [c \in Checks |-> IF c \in page THEN rows[c] ELSE seen[c]]
        /\ unread' = unread \ page
        /\ pc' = IF unread \ page = {} THEN "combined" ELSE "page"
  BY DEF ReadPage, kSubset
<1>2. /\ pc = "page" /\ result = "none"
      /\ baseline' = IF unread = Checks THEN Registered ELSE baseline
      /\ UNCHANGED <<rows, contexts, reruns, elapsed, tries, result, faults>>
  BY DEF ReadPage, ciVars, ReadingInductive, AllAccountedFor
<1>3. /\ rows \in [Checks -> RowStates] /\ seen \in [Checks -> RowStates]
      /\ unread \subseteq Checks /\ baseline \subseteq Checks
      /\ Registered \subseteq Checks
  BY DEF ReadingInductive, TypeOK, Registered
<1>4. TypeOK'
  <2>1. seen' \in [Checks -> RowStates] /\ unread' \subseteq Checks /\ baseline' \subseteq Checks
    BY <1>1, <1>2, <1>3
  <2>2. pc' \in {"page", "combined", "sleep", "done"}
    BY <1>1
  <2> QED BY <1>2, <2>1, <2>2 DEF ReadingInductive, TypeOK
<1>5. AllAccountedFor'
  <2>1. \A c \in baseline' : c \in unread \/ seen[c] # "unregistered"
    BY <1>2 DEF ReadingInductive, AllAccountedFor, Registered
  <2>2. \A c \in baseline' : rows'[c] # "unregistered" /\ (c \in unread' \/ seen'[c] # "unregistered")
    <3> SUFFICES ASSUME NEW c \in baseline'
                 PROVE  rows'[c] # "unregistered" /\ (c \in unread' \/ seen'[c] # "unregistered")
      OBVIOUS
    <3>1. c \in Checks /\ rows[c] # "unregistered" /\ rows' = rows
      BY <1>2, <1>3 DEF ReadingInductive, AllAccountedFor, Registered
    <3> QED BY <1>1, <2>1, <3>1
  <2>3. (pc' = "combined" => unread' = {}) /\ pc' # "done" /\ result' = "none"
    BY <1>1, <1>2
  <2> QED BY <2>2, <2>3 DEF AllAccountedFor
<1>6. SeenStands'
  BY <1>1, <1>2, <1>3 DEF ReadingInductive, SeenStands
<1>7. result' = "none"
  BY <1>2
<1>8. GreenIsComplete' /\ ReadingStillTrue' /\ TimeoutHasWaited'
  BY <1>7 DEF GreenIsComplete, ReadingStillTrue, TimeoutHasWaited
<1> QED BY <1>4, <1>5, <1>6, <1>8 DEF ReadingInductive

LEMMA DecideKeeps == ReadingInductive /\ Decide => ReadingInductive'
<1> SUFFICES ASSUME ReadingInductive, Decide PROVE ReadingInductive'
  OBVIOUS
<1> DEFINE status == CiStatusFromChecks(seen, Combined)
<1>1. /\ pc = "combined" /\ unread = {} /\ result = "none" /\ tries' = 0
      /\ elapsed \in 0..Deadline /\ elapsed' \in 0..Deadline
      /\ \/ status # "pending" /\ Return(status)
         \/ status = "pending" /\ elapsed' >= Deadline /\ Return("timed_out")
         \/ status = "pending" /\ pc' = "sleep" /\ UNCHANGED result
      /\ UNCHANGED <<rows, contexts, reruns, unread, seen, faults, baseline>>
  BY Numbers DEF Decide, ciVars, ReadingInductive, AllAccountedFor, TypeOK
<1>2. TypeOK /\ seen \in [Checks -> RowStates] /\ baseline \subseteq Checks
  BY DEF ReadingInductive, TypeOK
<1>3. /\ status \in {"absent", "pending", "failed", "passed"}
      /\ status = "passed" => \A c \in Checks : seen[c] \in {"unregistered", "good"}
      /\ status = "failed" => Combined = "failure" \/ \E c \in Checks : seen[c] = "bad"
      /\ status = "pending" => Combined # "none" \/ \E c \in Checks : seen[c] # "unregistered"
  BY <1>2, StatusSays
<1> HIDE DEF status
<1>4. TypeOK'
  BY <1>1, <1>2, <1>3, Numbers DEF TypeOK, Return, Results
<1>5. AllAccountedFor'
  BY <1>1, <1>3 DEF ReadingInductive, AllAccountedFor, Return
<1>6. SeenStands'
  BY <1>1 DEF ReadingInductive, SeenStands
<1>7. ASSUME result' = "passed" PROVE \A c \in baseline : seen[c] = "good"
  BY <1>1, <1>2, <1>3, <1>7 DEF ReadingInductive, AllAccountedFor, Return
<1>8. GreenIsComplete'
  BY <1>1, <1>7 DEF GreenIsComplete
<1>9. ReadingStillTrue'
  <2>1. ASSUME reruns = 0, result' = "passed" PROVE \A c \in baseline : rows[c] = "good"
    BY <1>2, <1>7, <2>1 DEF ReadingInductive, SeenStands
  <2>2. ASSUME reruns = 0, result' = "failed"
        PROVE  (\E c \in Checks : rows[c] = "bad") \/ \E c \in Contexts : contexts[c] = "failure"
    <3>1. Combined = "failure" \/ \E c \in Checks : seen[c] = "bad"
      BY <1>1, <1>3, <2>2 DEF Return
    <3> QED BY <1>2, <2>2, <3>1, CombinedSays DEF ReadingInductive, SeenStands
  <2> QED BY <1>1, <2>1, <2>2 DEF ReadingStillTrue
<1>10. TimeoutHasWaited'
  <2> SUFFICES ASSUME result' = "timed_out"
               PROVE  /\ elapsed' = Deadline
                      /\ Registered' # {} \/ \E c \in Contexts : contexts'[c] # "unreported"
    BY DEF TimeoutHasWaited
  <2>1. status = "pending" /\ elapsed' >= Deadline
    BY <1>1, <1>3 DEF Return
  <2>2. elapsed' = Deadline
    BY <1>1, <2>1, Numbers
  <2>3. (\E c \in Checks : rows[c] # "unregistered") \/ \E c \in Contexts : contexts[c] # "unreported"
    BY <1>2, <1>3, <2>1, CombinedSays DEF ReadingInductive, SeenStands
  <2> QED BY <1>1, <2>2, <2>3 DEF Registered
<1> QED BY <1>4, <1>5, <1>6, <1>8, <1>9, <1>10 DEF ReadingInductive

LEMMA SleepKeeps == ReadingInductive /\ Sleep => ReadingInductive'
<1> SUFFICES ASSUME ReadingInductive, Sleep PROVE ReadingInductive'
  OBVIOUS
<1>1. /\ StartAttempt /\ result = "none"
      /\ UNCHANGED <<ciVars, result, baseline, tries, faults>>
  BY DEF Sleep, ReadingInductive, AllAccountedFor
<1>2. elapsed' \in 0..Deadline /\ tries' \in 0..(MaxAttempts - 1) /\ faults' \in 0..MaxFaults
  BY <1>1, Numbers DEF Sleep, ReadingInductive, TypeOK
<1> QED BY <1>1, <1>2, StartKeeps

LEMMA ReadFailsKeeps == ReadingInductive /\ ReadFails => ReadingInductive'
<1> SUFFICES ASSUME ReadingInductive, ReadFails PROVE ReadingInductive'
  OBVIOUS
<1>1. /\ result = "none" /\ faults' \in 0..MaxFaults
      /\ UNCHANGED <<ciVars, elapsed, baseline>>
      /\ elapsed \in 0..Deadline /\ tries \in 0..(MaxAttempts - 1)
  BY Numbers DEF ReadFails, ReadingInductive, AllAccountedFor, TypeOK
<1>2. CASE tries + 1 < MaxAttempts
  <2>1. StartAttempt /\ UNCHANGED result /\ tries' \in 0..(MaxAttempts - 1)
    BY <1>1, <1>2, Numbers DEF ReadFails
  <2> QED BY <1>1, <2>1, StartKeeps
<1>3. CASE ~(tries + 1 < MaxAttempts)
  <2>1. Return("raised") /\ UNCHANGED <<rows, contexts, reruns, tries, unread, seen>>
    BY <1>1, <1>3, Numbers DEF ReadFails, ciVars
  <2>2. TypeOK'
    BY <1>1, <2>1 DEF ReadingInductive, TypeOK, Return, Results
  <2>3. AllAccountedFor' /\ SeenStands'
    BY <1>1, <2>1 DEF ReadingInductive, AllAccountedFor, SeenStands, Return
  <2>4. GreenIsComplete' /\ ReadingStillTrue' /\ TimeoutHasWaited'
    BY <2>1 DEF Return, GreenIsComplete, ReadingStillTrue, TimeoutHasWaited
  <2> QED BY <2>2, <2>3, <2>4 DEF ReadingInductive
<1> QED BY <1>2, <1>3

\* What CI may do to what has been read of it: a check that has registered stays,
\* one that has concluded is not touched except by a re-run, a failure stays.
CiOnly ==
  /\ UNCHANGED <<waitVars, faults>>
  /\ rows' \in [Checks -> RowStates] /\ contexts' \in [Contexts -> ContextStates]
  /\ reruns' \in 0..MaxReruns /\ (reruns' = 0 => reruns = 0)
  /\ \A c \in Checks :
       /\ rows[c] # "unregistered" => rows'[c] # "unregistered"
       /\ reruns' = 0 /\ rows[c] \in {"good", "bad"} => rows'[c] = rows[c]
  /\ \A c \in Contexts :
       /\ contexts[c] # "unreported" => contexts'[c] # "unreported"
       /\ contexts[c] = "failure" => contexts'[c] = "failure"

LEMMA CiMoves ==
  ASSUME TypeOK, RunCheck \/ Rerun \/ Report
  PROVE  CiOnly
<1>1. CASE RunCheck
  BY <1>1 DEF RunCheck, Register, Finish, CiOnly, TypeOK, RowStates
<1>2. CASE Rerun
  BY <1>2, Numbers DEF Rerun, CiOnly, TypeOK, RowStates
<1>3. CASE Report
  BY <1>3 DEF Report, CiOnly, TypeOK, ContextStates
<1> QED BY <1>1, <1>2, <1>3

LEMMA CiKeeps == ReadingInductive /\ CiOnly => ReadingInductive'
<1> SUFFICES ASSUME ReadingInductive, CiOnly PROVE ReadingInductive'
  OBVIOUS
<1>1. UNCHANGED <<pc, unread, seen, elapsed, tries, result, baseline, faults>>
  BY DEF CiOnly, waitVars
<1>2. TypeOK /\ baseline \subseteq Checks
  BY DEF ReadingInductive, TypeOK
<1>3. TypeOK'
  BY <1>1 DEF CiOnly, ReadingInductive, TypeOK
<1>4. AllAccountedFor' /\ SeenStands'
  BY <1>1, <1>2 DEF CiOnly, ReadingInductive, AllAccountedFor, SeenStands
<1>5. GreenIsComplete' /\ ReadingStillTrue'
  BY <1>1, <1>2 DEF CiOnly, ReadingInductive, GreenIsComplete, ReadingStillTrue
<1>6. TimeoutHasWaited'
  BY <1>1 DEF CiOnly, ReadingInductive, TimeoutHasWaited, Registered
<1> QED BY <1>3, <1>4, <1>5, <1>6 DEF ReadingInductive

LEMMA NextKeepsReading == ReadingInductive /\ [Next]_vars => ReadingInductive'
<1> SUFFICES ASSUME ReadingInductive, [Next]_vars PROVE ReadingInductive'
  OBVIOUS
<1>1. CASE Wait
  BY <1>1, ReadPageKeeps, DecideKeeps, SleepKeeps DEF Wait
<1>2. CASE ReadFails
  BY <1>2, ReadFailsKeeps
<1>3. CASE RunCheck \/ Rerun \/ Report
  BY <1>3, CiMoves, CiKeeps DEF ReadingInductive
<1>4. CASE UNCHANGED vars
  BY <1>4 DEF vars, ciVars, waitVars, ReadingInductive, TypeOK, AllAccountedFor, SeenStands,
              GreenIsComplete, ReadingStillTrue, TimeoutHasWaited, Registered
<1> QED BY <1>1, <1>2, <1>3, <1>4 DEF Next

\* What holds of every reading, page by page, under a CI that moves meanwhile
\* (ci_status, _await_ci).
THEOREM ReadingInductiveHolds == Spec => []ReadingInductive
<1> QED BY InitReading, NextKeepsReading, PTL DEF Spec

\* The types of the wait and of CI.
THEOREM WaitTypeCorrect == Spec => []TypeOK
<1>1. ReadingInductive => TypeOK
  BY DEF ReadingInductive
<1> QED BY <1>1, ReadingInductiveHolds, PTL

\* Green counts every page, however many there are (_iter_pages).
THEOREM GreenCountsEveryPage == Spec => []GreenIsComplete
<1>1. ReadingInductive => GreenIsComplete
  BY DEF ReadingInductive
<1> QED BY <1>1, ReadingInductiveHolds, PTL

\* Pages read at different times add up to a reading that is still true of the
\* checks it could see, unless one is re-run (ci_status_from_checks).
THEOREM ReadingsStand == Spec => []ReadingStillTrue
<1>1. ReadingInductive => ReadingStillTrue
  BY DEF ReadingInductive
<1> QED BY <1>1, ReadingInductiveHolds, PTL

\* A wait times out only at its deadline and on something that CI had started
\* (_await_ci).
THEOREM TimeoutsHaveWaited == Spec => []TimeoutHasWaited
<1>1. ReadingInductive => TimeoutHasWaited
  BY DEF ReadingInductive
<1> QED BY <1>1, ReadingInductiveHolds, PTL
================================================================================
