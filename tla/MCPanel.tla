-------------------------------- MODULE MCPanel --------------------------------
(* Two repositories, the name of one beginning that of the other.            *)
EXTENDS Panel

Web    == [owner |-> <<Capital, "acme">>, name |-> <<"web">>]
WebApp == [owner |-> <<Capital, "acme">>, name |-> <<"web", "-", "app">>]
TwoRepos == <<Web, WebApp>>
BumpLoopsOnly == {"dependency-patch", "security-patch"}
Proposal(repo, loop, target) ==
  [repo |-> repo, loop |-> loop, package |-> <<"ui">>, target |-> target]
SomeProposals ==
  {Proposal(Web, "dependency-patch", "1.0.1"), Proposal(WebApp, "dependency-patch", "1.0.1"),
   Proposal(Web, "security-patch", CanaryTarget)}
TwoReadings ==
  {[verdict |-> "clean", ci |-> "passed"], [verdict |-> "risky", ci |-> "failed"]}
Review(repo, number, head) == [repo |-> repo, number |-> number, head |-> head]
SomeReviews ==
  {Review(Web, "1", "a1"), Review(WebApp, "1", "b2"), Review(Web, "1", "a3"), Review(Web, "2", "b4")}
TwoRoots == {<<WebApp, "dependency-patch">>, <<Web, "determinism-review">>}
EagerPolicy == [minRate |-> 60, minDecided |-> 1, windowDays |-> 1, minDetermined |-> 1,
                maxDefectRate |-> 0, allowlisted |-> {Web}]

ASSUME RootNamesApart == RootsApart
ASSUME RepoNamesTell == NamesTell
=============================================================================
