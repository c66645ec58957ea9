----------------------------- MODULE MCEarnedGate -----------------------------
(* The policies of the runs: one under which the self-test is silent, and    *)
(* one that it alarms about.                                                 *)
EXTENDS EarnedGate, TLC

StrictPolicy == [minRate |-> 60, minDecided |-> 2, windowDays |-> 1, minDetermined |-> 2,
                 maxDefectRate |-> 0, allowlisted |-> {Repo}]
LoosePolicy  == [StrictPolicy EXCEPT !.minDetermined = 1]
TwoPolicies  == {StrictPolicy, LoosePolicy}
LooseOnly    == {LoosePolicy}
Swap         == Permutations(Models)
=============================================================================
