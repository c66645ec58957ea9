-------------------------------- MODULE Forge --------------------------------
(***************************************************************************)
(* GitHub as adapters/github.py uses it, for the one head branch a bump    *)
(* owns (policy/naming.py derives the branch from the bump, so no other    *)
(* bump of the loop writes it).  The remote is external: what is modelled  *)
(* is the answer the adapter's code relies on for each request it sends.   *)
(*                                                                         *)
(*   commits  how many commits have been pushed; commit i is the i-th      *)
(*   ref      the head commit of the branch on the remote, 0 if there is   *)
(*            no such branch                                               *)
(*   blocked  the branch cannot be merged: it conflicts with the default   *)
(*            branch, or a protection rule is not satisfied                *)
(*   pulls    the pull requests opened for the branch, by number           *)
(***************************************************************************)
EXTENDS Naturals, Sequences, BumpMachine

CONSTANT Models   \* judge models an environment label can name

VARIABLES commits, ref, blocked, pulls

branchVars == <<commits, ref, blocked>>
forgeVars  == <<branchVars, pulls>>

PullStates == {"open", "merged", "closed"}
Actors     == {"nobody", "froot", "human"}

\* "by" is who merged or closed it, "notes" how many comments carry the close
\* marker, "labels" the environments stamped on it.
Pulls == [state : PullStates, head : Nat, by : Actors, notes : Nat,
          labels : SUBSET Models]

WriteOps == {"push", "post_pr", "post_note", "patch_closed", "delete_ref",
             "merge", "add_labels"}

\* A write on its way to the forge: the pull request it names (and, for a
\* merge, the head it insists on) and the environment it would stamp.
Writes == [op : WriteOps, pr : PrRefs, env : Models]

ForgeInit == commits = 0 /\ ref = 0 /\ blocked = FALSE /\ pulls = <<>>

ForgeTypeOK ==
  /\ commits \in Nat
  /\ ref \in 0..commits
  /\ blocked \in BOOLEAN
  /\ pulls \in Seq(Pulls)

-----------------------------------------------------------------------------
\* find_open_pull_request: GitHub allows one open pull request per head.
OpenPulls == {n \in DOMAIN pulls : pulls[n].state = "open"}

\* The ones froot itself merged, or closed.
SettledByFroot(state) ==
  {n \in DOMAIN pulls : pulls[n].state = state /\ pulls[n].by = "froot"}

PullRequestRef(n) == [number |-> n, sha |-> pulls[n].head]

\* The default branch already holds the change, so an edit of a fresh clone
\* of it leaves nothing to commit.
BaseHasBump == \E n \in DOMAIN pulls : pulls[n].state = "merged"

NewPull(head) == [state |-> "open", head |-> head, by |-> "nobody",
                  notes |-> 0, labels |-> {}]

\* The open ones among pull requests N, settled one way; settling one that
\* is no longer open changes nothing.
Settle(N, state, by) ==
  [n \in DOMAIN pulls |->
     IF n \in N \cap OpenPulls
     THEN [pulls[n] EXCEPT !.state = state, !.by = by]
     ELSE pulls[n]]

\* The branch moves to a new commit, made on the default branch as it is now,
\* and an open pull request follows it.
MoveBranch ==
  /\ commits' = commits + 1
  /\ ref' = commits + 1
  /\ blocked' = FALSE
  /\ pulls' = [n \in DOMAIN pulls |->
                 IF n \in OpenPulls
                 THEN [pulls[n] EXCEPT !.head = commits + 1]
                 ELSE pulls[n]]

\* Deleting the head branch closes the pull request open on it.
DropBranch(by) ==
  /\ ref' = 0
  /\ pulls' = Settle(OpenPulls, "closed", by)
  /\ UNCHANGED <<commits, blocked>>

-----------------------------------------------------------------------------
\* Mutant: a merge names no head commit.
AcceptsAnyHead(w) ==
  CASE w.op = "push"    -> ref = 0
    [] w.op = "post_pr" -> ref # 0 /\ OpenPulls = {}
    [] w.op = "merge"   -> w.pr.number \in OpenPulls /\ ~blocked
    [] OTHER            -> TRUE

\* A push from a fresh clone is not forced, so an existing branch refuses it
\* (non-fast-forward).  A second open pull request is a 422; a merge is a 405
\* if the pull request is not open or not mergeable, a 409 if its head moved.
Accepts(w) ==
  CASE w.op = "push"    -> ref = 0
    [] w.op = "post_pr" -> ref # 0 /\ OpenPulls = {}
    [] w.op = "merge"   -> /\ w.pr.number \in OpenPulls /\ ~blocked
                           /\ pulls[w.pr.number].head = w.pr.sha
    [] OTHER            -> TRUE

\* What an accepted write does.
Perform(w) ==
  \/ /\ w.op = "push"
     /\ MoveBranch
  \/ /\ w.op = "post_pr"
     /\ pulls' = Append(pulls, NewPull(ref))
     /\ UNCHANGED branchVars
  \/ /\ w.op = "post_note"
     /\ pulls' = [pulls EXCEPT ![w.pr.number].notes = @ + 1]
     /\ UNCHANGED branchVars
  \/ /\ w.op = "patch_closed"
     /\ pulls' = Settle({w.pr.number}, "closed", "froot")
     /\ UNCHANGED branchVars
  \/ /\ w.op = "delete_ref"
     /\ DropBranch("froot")
  \/ /\ w.op = "merge"
     /\ pulls' = Settle({w.pr.number}, "merged", "froot")
     /\ UNCHANGED branchVars
  \/ /\ w.op = "add_labels"
     /\ pulls' = [pulls EXCEPT ![w.pr.number].labels = @ \cup {w.env}]
     /\ UNCHANGED branchVars

-----------------------------------------------------------------------------
(* What people do to the branch and its pull request.                      *)
HumanPush   == ref # 0 /\ MoveBranch
HumanDelete == ref # 0 /\ DropBranch("human")

HumanOpens ==
  /\ ref # 0 /\ OpenPulls = {} /\ ~BaseHasBump
  /\ pulls' = Append(pulls, NewPull(ref))
  /\ UNCHANGED branchVars

HumanSettles ==
  /\ OpenPulls # {}
  /\ \E state \in {"merged", "closed"} : pulls' = Settle(OpenPulls, state, "human")
  /\ UNCHANGED branchVars

\* Something else is merged that conflicts, or a rule is put up.  Only a push
\* lifts it: a block that goes away by itself is a lost merge request.
HumanBlocks ==
  /\ ref # 0 /\ ~blocked /\ blocked' = TRUE
  /\ UNCHANGED <<commits, ref, pulls>>

Human == HumanPush \/ HumanDelete \/ HumanOpens \/ HumanSettles \/ HumanBlocks
=============================================================================
