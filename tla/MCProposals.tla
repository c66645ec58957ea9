------------------------------ MODULE MCProposals ------------------------------
(* Versions, packages and vulnerabilities of the runs.                       *)
EXTENDS Proposals

Web == [owner |-> <<Capital, "acme">>, name |-> <<"web">>]
OneRepo == {Web}

Foo    == <<"foo">>
FooBar == <<"@", "foo", "/", "bar">>
TwoPackages == {Foo, FooBar}

FewVersions ==
  "1.0.0" :> <<1, 0, 0, 1>> @@ "1.0.1" :> <<1, 0, 1, 1>> @@ "1.0.2" :> <<1, 0, 2, 1>> @@
  "1.0.1-rc.1" :> <<1, 0, 1, 0>>
AllOld   == [p \in Packages |-> "1.0.0"]
OneBehind == [p \in Packages |-> IF p = Foo THEN {"1.0.1"} ELSE {}]

\* Two about the one package, a fix apart; "b", known at first, about the other
\* too, and "c" about that with a prerelease for a fix: read without "b", it has
\* the selection fail.
ThreeVulns ==
  "a" :> (Foo :> <<<<"introduced", "0">>, <<"fixed", "1.0.1">>>>) @@
  "b" :> (Foo :> <<<<"introduced", "1.0.0">>, <<"fixed", "1.0.2">>, <<"introduced", "1.0.2">>>> @@
          FooBar :> <<<<"introduced", "0">>, <<"fixed", "1.0.1">>>>) @@
  "c" :> (FooBar :> <<<<"introduced", "0">>, <<"fixed", "1.0.1-rc.1">>>>)

\* The only fix is a prerelease.
JustFoo == {Foo}
PrereleaseFix == "a" :> (Foo :> <<<<"introduced", "0">>, <<"fixed", "1.0.1-rc.1">>>>)

ASSUME RecordsHaveOneFix == OneFix
ASSUME BumpIdsApart == IdsApart
=============================================================================
