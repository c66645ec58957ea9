-------------------------------- MODULE CiWait --------------------------------
(***************************************************************************)
(* The oracle as froot reads it: the durable wait of bump_workflow.py      *)
(* (_await_ci), the paginated check-run read followed by the combined      *)
(* status read of adapters/github.py (ci_status), and the mapping of the   *)
(* two to one status (ci_status_from_checks), while the repository's CI    *)
(* registers, runs and re-runs its checks on the same commit.              *)
(***************************************************************************)
EXTENDS Naturals, FiniteSets, FiniteSetsExt

CONSTANTS
  Checks,       (* check runs the repository's CI creates for the commit    *)
  Contexts,     (* legacy status contexts it reports                        *)
  PageSize,     (* check runs on one page                                   *)
  Deadline,     (* poll intervals in the wait                               *)
  MaxAttempts,  (* attempts of one check_ci activity                        *)
  MaxFaults,    (* bound: failed reads in one behaviour                     *)
  MaxReruns     (* bound: checks started over in one behaviour              *)

ASSUME BoundsAssumption ==
  /\ IsFiniteSet(Checks)
  /\ PageSize \in Nat \ {0} /\ MaxAttempts \in Nat \ {0}
  /\ Deadline \in Nat /\ MaxFaults \in Nat /\ MaxReruns \in Nat

VARIABLES
  rows,      (* each check run on the forge                                 *)
  contexts,  (* each status context on the forge                            *)
  pc,        (* what the wait does next                                     *)
  unread,    (* checks whose page this attempt has not fetched              *)
  seen,      (* the rows this attempt has fetched                           *)
  elapsed,   (* poll intervals of the wait that have gone by                *)
  tries,     (* failed attempts of the running check_ci                     *)
  result,    (* what the wait returned, "none" until it has                 *)
  faults, reruns,
  baseline   (* history: checks registered when this attempt began          *)

ciVars   == <<rows, contexts, reruns>>
waitVars == <<pc, unread, seen, elapsed, tries, result, baseline>>
vars     == <<ciVars, waitVars, faults>>

RowStates     == {"unregistered", "running", "good", "bad"}
ContextStates == {"unreported", "pending", "success", "failure"}
Results       == {"none", "raised", "passed", "failed", "absent", "timed_out"}

Registered == {c \in Checks : rows[c] # "unregistered"}

Unfetched == [c \in Checks |-> "unregistered"]

Init ==
  /\ rows = Unfetched
  /\ contexts = [c \in Contexts |-> "unreported"]
  /\ pc = "page" /\ unread = Checks /\ seen = Unfetched
  /\ elapsed = 0 /\ tries = 0 /\ result = "none"
  /\ faults = 0 /\ reruns = 0 /\ baseline = {}

-----------------------------------------------------------------------------
\* The forge rolls the contexts up; no context at all reads as none.
Combined ==
  LET reported == {contexts[c] : c \in Contexts} \ {"unreported"}
  IN  CASE reported = {}          -> "none"
        [] "failure" \in reported -> "failure"
        [] "pending" \in reported /\ "failure" \notin reported -> "pending"
        [] reported = {"success"} -> "success"

\* Mutant: a running check is not waited for.
UnresolvedStatusOnly(checks, combined) == combined = "pending"

Unresolved(checks, combined) ==
  combined = "pending" \/ \E c \in Checks : checks[c] = "running"

Failing(checks, combined) ==
  combined = "failure" \/ \E c \in Checks : checks[c] = "bad"

\* Mutant: a commit without a check is pending.
CiStatusNeverAbsent(checks, combined) ==
  IF (combined = "none" /\ checks = Unfetched) \/ Unresolved(checks, combined)
  THEN "pending"
  ELSE IF Failing(checks, combined) THEN "failed" ELSE "passed"

CiStatusFromChecks(checks, combined) ==
  IF combined = "none" /\ checks = Unfetched THEN "absent"
  ELSE IF Unresolved(checks, combined) THEN "pending"
  ELSE IF Failing(checks, combined) THEN "failed" ELSE "passed"

StartAttempt == pc' = "page" /\ unread' = Checks /\ seen' = Unfetched

Return(value) == pc' = "done" /\ result' = value

\* Mutant: only the first page is read.
ReadPageFirst ==
  /\ pc = "page"
  /\ \E page \in kSubset(Min({PageSize, Cardinality(unread)}), unread) :
       /\ seen' = [c \in Checks |-> IF c \in page THEN rows[c] ELSE seen[c]]
       /\ unread' = unread \ page
       /\ pc' = "combined"
  /\ baseline' = IF unread = Checks THEN Registered ELSE baseline
  /\ UNCHANGED <<ciVars, elapsed, tries, result, faults>>

\* One page of check runs, each row as it is when its page is fetched.
ReadPage ==
  /\ pc = "page"
  /\ \E page \in kSubset(Min({PageSize, Cardinality(unread)}), unread) :
       /\ seen' = [c \in Checks |-> IF c \in page THEN rows[c] ELSE seen[c]]
       /\ unread' = unread \ page
       /\ pc' = IF unread \ page = {} THEN "combined" ELSE "page"
  /\ baseline' = IF unread = Checks THEN Registered ELSE baseline
  /\ UNCHANGED <<ciVars, elapsed, tries, result, faults>>

\* Mutant: the deadline is never looked at.
DecideForever ==
  /\ pc = "combined"
  /\ tries' = 0
  /\ LET status == CiStatusFromChecks(seen, Combined) IN
     \/ status # "pending" /\ Return(status) /\ UNCHANGED <<unread, seen>>
     \/ status = "pending" /\ StartAttempt /\ UNCHANGED result
  /\ UNCHANGED <<ciVars, elapsed, faults, baseline>>

\* The combined status closes the activity; a pending answer ends the wait
\* only past the deadline, which a slow reading may bring about by itself.
Decide ==
  /\ pc = "combined"
  /\ tries' = 0
  /\ LET status == CiStatusFromChecks(seen, Combined) IN
     /\ elapsed' \in elapsed..Deadline
     /\ \/ status # "pending" /\ Return(status)
        \/ status = "pending" /\ elapsed' >= Deadline /\ Return("timed_out")
        \/ /\ status = "pending" /\ elapsed' < Deadline
           /\ pc' = "sleep" /\ UNCHANGED result
  /\ UNCHANGED <<ciVars, unread, seen, faults, baseline>>

Sleep ==
  /\ pc = "sleep"
  /\ elapsed' \in (elapsed + 1)..Deadline
  /\ StartAttempt
  /\ UNCHANGED <<ciVars, tries, result, faults, baseline>>

\* A read raises: the activity starts over from its first page, or fails.
ReadFails ==
  /\ pc \in {"page", "combined"}
  /\ faults < MaxFaults /\ faults' = faults + 1
  /\ \/ tries + 1 < MaxAttempts /\ tries' = tries + 1 /\ StartAttempt
        /\ UNCHANGED result
     \/ tries + 1 >= MaxAttempts /\ Return("raised") /\ UNCHANGED <<tries, unread, seen>>
  /\ UNCHANGED <<ciVars, elapsed, baseline>>

-----------------------------------------------------------------------------
(* The repository's CI.                                                    *)
Register(c) ==
  rows[c] = "unregistered" /\ rows' = [rows EXCEPT ![c] = "running"]

Finish(c) ==
  /\ rows[c] = "running"
  /\ \E conclusion \in {"good", "bad"} : rows' = [rows EXCEPT ![c] = conclusion]

RunCheck ==
  /\ \E c \in Checks : Register(c) \/ Finish(c)
  /\ UNCHANGED <<contexts, reruns, waitVars, faults>>

Rerun ==
  /\ reruns < MaxReruns /\ reruns' = reruns + 1
  /\ \E c \in Checks : /\ rows[c] \in {"good", "bad"}
                       /\ rows' = [rows EXCEPT ![c] = "running"]
  /\ UNCHANGED <<contexts, waitVars, faults>>

Report ==
  /\ \E c \in Contexts :
       /\ contexts[c] \in {"unreported", "pending"}
       /\ \E state \in {"pending", "success", "failure"} \ {contexts[c]} :
            contexts' = [contexts EXCEPT ![c] = state]
  /\ UNCHANGED <<rows, reruns, waitVars, faults>>

Wait == ReadPage \/ Decide \/ Sleep

Next == Wait \/ ReadFails \/ RunCheck \/ Rerun \/ Report

\* froot's timers and reads go on; CI may hang for ever.
Spec == Init /\ [][Next]_vars /\ WF_vars(Wait)

-----------------------------------------------------------------------------
TypeOK ==
  /\ rows \in [Checks -> RowStates]
  /\ contexts \in [Contexts -> ContextStates]
  /\ pc \in {"page", "combined", "sleep", "done"}
  /\ unread \subseteq Checks
  /\ seen \in [Checks -> RowStates]
  /\ elapsed \in 0..Deadline
  /\ tries \in 0..(MaxAttempts - 1)
  /\ result \in Results
  /\ faults \in 0..MaxFaults /\ reruns \in 0..MaxReruns
  /\ baseline \subseteq Checks

\* Green counts every page: no check that was there when the read began is
\* missing from it or less than good in it (_iter_pages in ci_status).
GreenIsComplete ==
  result = "passed" => \A c \in baseline : seen[c] = "good"

\* Though pages and status are read at different times, what the wait returns
\* is still so of the checks it could see, as long as nobody re-runs one: a
\* green has no check running or bad, a red has a failure to show for it.
ReadingStillTrue ==
  reruns = 0 =>
    /\ result = "passed" => \A c \in baseline : rows[c] = "good"
    /\ result = "failed" => \/ \E c \in Checks : rows[c] = "bad"
                            \/ \E c \in Contexts : contexts[c] = "failure"

\* A wait times out only with its deadline gone by and on something the forge
\* had started: a commit nobody ever reported on is absent, never timed out
\* (_await_ci, ci_status_from_checks).
TimeoutHasWaited ==
  result = "timed_out" =>
    /\ elapsed = Deadline
    /\ Registered # {} \/ \E c \in Contexts : contexts[c] # "unreported"

\* The inductive invariant behind these: what an attempt has left unread it has
\* not seen, and all that was there when it began, and still is, is one or the
\* other; a row once seen is still registered and, unless re-run, a conclusion seen still
\* stands; nothing is decided before the last page is read.
AllAccountedFor ==
  /\ \A c \in baseline :
       rows[c] # "unregistered" /\ (c \in unread \/ seen[c] # "unregistered")
  /\ pc = "combined" => unread = {}
  /\ pc = "done" <=> result # "none"
SeenStands ==
  \A c \in Checks :
    /\ seen[c] # "unregistered" => c \notin unread /\ rows[c] # "unregistered"
    /\ reruns = 0 /\ seen[c] \in {"good", "bad"} => rows[c] = seen[c]
ReadingInductive ==
  /\ TypeOK /\ AllAccountedFor /\ SeenStands
  /\ GreenIsComplete /\ ReadingStillTrue /\ TimeoutHasWaited

\* However CI behaves, the wait ends (_await_ci's deadline).
WaitEnds == <>(result # "none")
=============================================================================
