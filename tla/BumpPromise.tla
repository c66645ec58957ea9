------------------------------ MODULE BumpPromise ------------------------------
(***************************************************************************)
(* What one bump promises, whatever its attempts, faults and interlopers:  *)
(* froot proposes once, acts on its proposal only on the evidence each act *)
(* asks for, acts at most one way, and the bump comes to an end.           *)
(*                                                                         *)
(*   stage     deciding, proposed, resolved, then recorded or gave_up      *)
(*   evidence  what has been established about this bump                   *)
(*   deed      what froot itself has done to the pull request              *)
(***************************************************************************)
VARIABLES stage, evidence, deed

vars == <<stage, evidence, deed>>

Facts == {"close_on_red", "earned", "clean", "green", "red", "approved"}

Final == {"recorded", "gave_up"}

\* The four legs an automatic merge stands on.
MergeEvidence == {"earned", "clean", "green", "approved"}
CloseEvidence == {"close_on_red", "red"}

Init ==
  /\ stage = "deciding"
  /\ evidence \in SUBSET {"close_on_red"}
  /\ deed = "none"

Weigh ==
  /\ stage = "deciding"
  /\ \E more \in SUBSET {"earned", "clean"} : evidence' = evidence \cup more
  /\ UNCHANGED <<stage, deed>>

Propose ==
  /\ stage = "deciding" /\ stage' = "proposed"
  /\ UNCHANGED <<evidence, deed>>

\* The oracle is read to the end once, and may tell nothing.
Resolve ==
  /\ stage = "proposed" /\ stage' = "resolved"
  /\ \E reading \in {{}, {"green"}, {"red"}} : evidence' = evidence \cup reading
  /\ UNCHANGED deed

Approve ==
  /\ stage = "resolved"
  /\ {"earned", "clean", "green"} \subseteq evidence
  /\ evidence' = evidence \cup {"approved"}
  /\ UNCHANGED <<stage, deed>>

\* An act may be the last thing an attempt does before the bump gives up, and
\* may reach the forge when the bump is already over.
MayEnd == stage' \in IF stage = "resolved" THEN {stage, "gave_up"} ELSE {stage}

Merge ==
  /\ deed = "none" /\ deed' = "merged"
  /\ MergeEvidence \subseteq evidence
  /\ MayEnd /\ UNCHANGED evidence

Close ==
  /\ deed = "none" /\ deed' = "closed"
  /\ CloseEvidence \subseteq evidence
  /\ MayEnd /\ UNCHANGED evidence

\* An approved bump is recorded only once froot has merged it.
Record ==
  /\ stage = "resolved" /\ stage' = "recorded"
  /\ "approved" \in evidence => deed = "merged"
  /\ UNCHANGED <<evidence, deed>>

GiveUp ==
  /\ stage \notin Final /\ stage' = "gave_up"
  /\ UNCHANGED <<evidence, deed>>

Progress == Propose \/ Resolve \/ Record \/ GiveUp

Next == Weigh \/ Approve \/ Merge \/ Close \/ Progress

Spec == Init /\ [][Next]_vars /\ WF_vars(Progress)
=============================================================================
