---------------------------- MODULE MCBumpWorkflow ----------------------------
(* Small instances of BumpWorkflow for TLC: which faults each run allows.    *)
EXTENDS BumpWorkflow

AttemptFaults == {"lost", "unheard", "denied"}
LateFaults    == {"late"}
OnlyLost      == {"lost"}
=============================================================================
