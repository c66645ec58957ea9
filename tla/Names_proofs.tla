------------------------------ MODULE Names_proofs ------------------------------
(***************************************************************************)
(* What a name tells, whatever the repositories, packages and versions:    *)
(* texts that were joined are taken apart from the end, and of two texts   *)
(* that begin a third one begins the other.                                *)
(***************************************************************************)
EXTENDS Names, SequencesExt, SequenceTheorems, FiniteSetTheorems, WellFoundedInduction, TLAPS

-----------------------------------------------------------------------------
(* Texts.                                                                  *)

\* Concatenation, by the laws that the names need.
Cat(s, t) == s \o t

LEMMA Associative ==
  ASSUME NEW S, NEW s \in Seq(S), NEW t \in Seq(S), NEW u \in Seq(S)
  PROVE  s \o t \in Seq(S) /\ (s \o t) \o u = s \o (t \o u)
  BY ConcatProperties, ConcatAssociative

LEMMA CancelLeft ==
  ASSUME NEW S, NEW s \in Seq(S), NEW t \in Seq(S), NEW u \in Seq(S), s \o t = s \o u
  PROVE  t = u
  BY ConcatSimplifications

LEMMA CancelRight ==
  ASSUME NEW S, NEW s \in Seq(S), NEW t \in Seq(S), NEW u \in Seq(S), s \o u = t \o u
  PROVE  s = t
  BY ConcatSimplifications

LEMMA AppendsApart ==
  ASSUME NEW S, NEW s \in Seq(S), NEW t \in Seq(S), NEW v \in S, NEW w \in S,
         s \o <<v>> = t \o <<w>>
  PROVE  s = t /\ v = w
  BY AppendIsConcat, AppendInjective

LEMMA HeadOfCat ==
  ASSUME NEW S, NEW s \in Seq(S), NEW t \in Seq(S), s # <<>>
  PROVE  Head(s \o t) = Head(s)
  OBVIOUS

LEMMA Tuples ==
  ASSUME NEW S, NEW x \in S, NEW y \in S
  PROVE  /\ <<x>> \in Seq(S) /\ <<y>> \in Seq(S) /\ <<x, y>> \in Seq(S)
         /\ <<x>> # <<>> /\ <<x, y>> # <<>>
         /\ <<x>> \o <<y>> = <<x, y>> /\ Append(<<x>>, y) = <<x, y>>
<1>1. <<x>> \in Seq(S) /\ <<y>> \in Seq(S) /\ <<x, y>> \in Seq(S)
  OBVIOUS
<1>2. <<x>> # <<>> /\ <<x, y>> # <<>>
  OBVIOUS
<1>3. <<x, y>> = Append(<<x>>, y)
  OBVIOUS
<1>4. <<x>> \o <<y>> = <<x, y>>
  BY <1>1, <1>3, AppendIsConcat
<1> QED BY <1>1, <1>2, <1>3, <1>4

\* All of a text after its prefix.
LEMMA PrefixAndRest ==
  ASSUME NEW S, NEW s \in Seq(S), NEW t \in Seq(S), IsPrefix(s, t)
  PROVE  t = s \o SubSeq(t, Len(s) + 1, Len(t))
<1>1. /\ Len(s) \in Nat /\ Len(t) \in Nat /\ Len(s) <= Len(t)
      /\ SubSeq(s, 1, Len(s)) = SubSeq(t, 1, Len(s))
  BY LenProperties DEF IsPrefix
<1>2. SubSeq(s, 1, Len(s)) = s /\ SubSeq(t, 1, Len(t)) = t
  BY SubSeqFull
<1>3. /\ 1 \in 1..(Len(t) + 1) /\ Len(s) \in (1 - 1)..Len(t) /\ Len(t) \in Len(s)..Len(t)
  BY <1>1
<1>4. SubSeq(t, 1, Len(s)) \o SubSeq(t, Len(s) + 1, Len(t)) = SubSeq(t, 1, Len(t))
  BY <1>3, ConcatAdjacentSubSeq
<1> QED BY <1>1, <1>2, <1>4

\* A beginning and the rest.
LEMMA PrefixIs ==
  ASSUME NEW S, NEW s \in Seq(S), NEW t \in Seq(S)
  PROVE  IsPrefix(s, t) <=> \E u \in Seq(S) : t = s \o u
<1>1. ASSUME IsPrefix(s, t) PROVE \E u \in Seq(S) : t = s \o u
  <2>1. Len(s) \in Nat /\ Len(t) \in Nat /\ Len(s) <= Len(t)
    BY <1>1, LenProperties DEF IsPrefix
  <2>2. SubSeq(t, Len(s) + 1, Len(t)) \in Seq(S)
    BY <2>1, SubSeqProperties
  <2> QED BY <1>1, <2>2, PrefixAndRest
<1>2. ASSUME NEW u \in Seq(S), t = s \o u PROVE IsPrefix(s, t)
  BY <1>2 DEF IsPrefix
<1> QED BY <1>1, <1>2

\* Of two beginnings of one text one begins the other: the one that is not
\* longer.
LEMMA Comparable ==
  ASSUME NEW S, NEW s \in Seq(S), NEW t \in Seq(S), NEW u \in Seq(S),
         IsPrefix(s, u), IsPrefix(t, u), Len(s) <= Len(t)
  PROVE  IsPrefix(s, t)
<1>1. /\ Len(s) \in Nat /\ Len(t) \in Nat /\ Len(t) <= Len(u) /\ Len(u) \in Nat
      /\ \A i \in 1..Len(s) : s[i] = u[i]
      /\ \A i \in 1..Len(t) : t[i] = u[i]
  <2>1. ASSUME NEW v \in Seq(S), IsPrefix(v, u)
        PROVE  Len(v) \in Nat /\ Len(v) <= Len(u) /\ \A i \in 1..Len(v) : v[i] = u[i]
    <3>1. PICK w \in Seq(S) : u = v \o w
      BY <2>1, PrefixIs
    <3> QED BY <3>1
  <2> QED BY <2>1, LenProperties
<1>2. \A i \in 1..Len(s) : s[i] = t[i]
  BY <1>1
<1>3. SubSeq(s, 1, Len(s)) = SubSeq(t, 1, Len(s))
  BY <1>1, <1>2
<1> QED BY <1>3 DEF IsPrefix

-----------------------------------------------------------------------------
(* Induction over a set of numbers.                                        *)

\* The numbers from 1 to one that is left out are a set; of those sets one is
\* least.
LEMMA NatSetInduction ==
  ASSUME NEW T \in SUBSET Nat, 0 \in T, \A n \in T : n + 1 \in T
  PROVE  T = Nat
<1> DEFINE below(n) == 1..n
           bad == {below(n) : n \in Nat \ T}
<1>1. SUFFICES ASSUME bad # {} PROVE FALSE
  OBVIOUS
<1>2. bad \subseteq FiniteSubsetsOf(Nat)
  <2>1. \A n \in Nat : 1..n \in SUBSET Nat /\ IsFiniteSet(1..n)
    BY FS_Interval
  <2> QED BY <2>1 DEF FiniteSubsetsOf
<1>3. IsWellFoundedOn(StrictSubsetOrdering(Nat), FiniteSubsetsOf(Nat))
  BY FS_StrictSubsetOrderingWellFounded
<1>4. PICK x \in bad : \A y \in bad : <<y, x>> \notin StrictSubsetOrdering(Nat)
  <2> HIDE DEF bad
  <2> QED BY <1>1, <1>2, <1>3, WFMin
<1>5. PICK n \in Nat \ T : x = 1..n
  OBVIOUS
<1>6. n # 0 /\ n - 1 \in Nat
  OBVIOUS
<1>7. n - 1 \notin T
  <2>1. (n - 1) + 1 = n
    OBVIOUS
  <2> QED BY <1>6, <2>1
<1>8. 1..(n - 1) \in bad
  BY <1>6, <1>7
<1>9. <<1..(n - 1), 1..n>> \in StrictSubsetOrdering(Nat)
  <2>1. 1..(n - 1) \subseteq 1..n /\ n \in 1..n /\ n \notin 1..(n - 1)
    BY <1>6
  <2>2. 1..n \in SUBSET Nat
    OBVIOUS
  <2> QED BY <2>1, <2>2 DEF StrictSubsetOrdering
<1> QED BY <1>4, <1>5, <1>8, <1>9
-----------------------------------------------------------------------------
(* Texts that are joined.                                                  *)

\* The joined beginnings of a sequence of texts.
UpTo(f, parts, n) ==
  f = [k \in 1..n |-> IF k = 1 THEN parts[1] ELSE f[k - 1] \o <<Hyphen>> \o parts[k]]

LEMMA UpToExists ==
  ASSUME NEW parts
  PROVE  \A n \in Nat : \E f : UpTo(f, parts, n)
<1> DEFINE T == {m \in Nat : \E f : UpTo(f, parts, m)}
<1>1. \E f : UpTo(f, parts, 0)
  <2>1. UpTo([k \in 1..0 |-> k], parts, 0)
    BY DEF UpTo
  <2> QED BY <2>1
<1>2. ASSUME NEW m \in Nat, NEW f, UpTo(f, parts, m) PROVE \E g : UpTo(g, parts, m + 1)
  <2> DEFINE next(h, k) == IF k = 1 THEN parts[1] ELSE h[k - 1] \o <<Hyphen>> \o parts[k]
             g == [k \in 1..(m + 1) |-> next(f, k)]
  <2>1. \A k \in 1..m : f[k] = next(f, k)
    BY <1>2 DEF UpTo
  <2>2. \A k \in 1..(m + 1) : k # 1 => k - 1 \in 1..m /\ k - 1 \in 1..(m + 1)
    OBVIOUS
  <2>3. \A k \in 1..m : g[k] = f[k]
    BY <2>1
  <2>4. \A k \in 1..(m + 1) : next(f, k) = next(g, k)
    <3> HIDE DEF g
    <3> QED BY <2>2, <2>3
  <2>5. g = [k \in 1..(m + 1) |-> next(g, k)]
    <3> HIDE DEF next
    <3> QED BY <2>4
  <2> HIDE DEF g
  <2> QED BY <2>5 DEF UpTo
<1>3. T = Nat
  <2>1. T \in SUBSET Nat /\ 0 \in T /\ \A m \in T : m + 1 \in T
    BY <1>1, <1>2
  <2> HIDE DEF T
  <2> QED BY <2>1, NatSetInduction
<1> QED BY <1>3

LEMMA JoinIs ==
  ASSUME NEW S, NEW parts \in Seq(S), parts # <<>>
  PROVE  /\ Len(parts) \in Nat /\ Len(parts) # 0 /\ DOMAIN parts = 1..Len(parts)
         /\ \E f : /\ Join(parts) = f[Len(parts)] /\ f[1] = parts[1]
                   /\ \A k \in Nat : k # 0 /\ k + 1 \in 1..Len(parts) =>
                        f[k + 1] = f[k] \o <<Hyphen>> \o parts[k + 1]
<1> DEFINE n == Len(parts)
           upTo == CHOOSE f : UpTo(f, parts, n)
<1>1. DOMAIN parts = 1..n /\ n \in Nat /\ n # 0
  BY LenProperties
<1>2. Join(parts) = upTo[n]
  BY <1>1 DEF Join, UpTo
<1>3. UpTo(upTo, parts, n)
  BY <1>1, UpToExists
<1> HIDE DEF n, upTo
<1>4. upTo = [k \in 1..n |-> IF k = 1 THEN parts[1] ELSE upTo[k - 1] \o <<Hyphen>> \o parts[k]]
  BY <1>3 DEF UpTo
<1>5. upTo[1] = parts[1]
  <2>1. 1 \in 1..n
    BY <1>1
  <2> QED BY <1>4, <2>1
<1>6. ASSUME NEW k \in Nat, k # 0, k + 1 \in 1..n
      PROVE  upTo[k + 1] = upTo[k] \o <<Hyphen>> \o parts[k + 1]
  <2>1. k + 1 # 1 /\ (k + 1) - 1 = k
    BY <1>6
  <2> QED BY <1>4, <1>6, <2>1
<1> QED BY <1>1, <1>2, <1>5, <1>6 DEF n

\* One more is joined at the end.
LEMMA JoinGrows ==
  ASSUME NEW S, NEW parts \in Seq(S), parts # <<>>, NEW p \in S
  PROVE  Join(Append(parts, p)) = Join(parts) \o <<Hyphen>> \o p
<1> DEFINE n == Len(parts)
           more == Append(parts, p)
<1>1. /\ n \in Nat /\ n # 0 /\ more \in Seq(S) /\ Len(more) = n + 1 /\ more[n + 1] = p
      /\ DOMAIN more = 1..(n + 1) /\ DOMAIN parts = 1..n
      /\ \A k \in 1..n : more[k] = parts[k]
  BY AppendProperties, LenProperties
<1> HIDE DEF more
<1>2. PICK f : /\ Join(parts) = f[n] /\ f[1] = parts[1]
               /\ \A k \in Nat : k # 0 /\ k + 1 \in 1..n =>
                    f[k + 1] = f[k] \o <<Hyphen>> \o parts[k + 1]
  BY JoinIs
<1>3. PICK g : /\ Join(more) = g[n + 1] /\ g[1] = more[1]
               /\ \A k \in Nat : k # 0 /\ k + 1 \in 1..(n + 1) =>
                    g[k + 1] = g[k] \o <<Hyphen>> \o more[k + 1]
  <2>1. more \in Seq(S) /\ more # <<>> /\ Len(more) = n + 1
    BY <1>1
  <2>2. \E g : /\ Join(more) = g[Len(more)] /\ g[1] = more[1]
               /\ \A k \in Nat : k # 0 /\ k + 1 \in 1..Len(more) =>
                    g[k + 1] = g[k] \o <<Hyphen>> \o more[k + 1]
    BY <2>1, JoinIs
  <2> QED BY <2>1, <2>2
<1> HIDE DEF n
<1> DEFINE T == {k \in Nat : k \in 1..n => f[k] = g[k]}
<1>4. T = Nat
  <2>1. ASSUME NEW k \in Nat, k \in 1..n => f[k] = g[k], k + 1 \in 1..n
        PROVE  f[k + 1] = g[k + 1]
    <3>1. CASE k = 0
      <4>1. k + 1 = 1 /\ 1 \in 1..n
        BY <2>1, <3>1
      <4> QED BY <1>1, <1>2, <1>3, <4>1
    <3>2. CASE k # 0
      <4>1. k \in 1..n /\ k + 1 \in 1..(n + 1)
        BY <1>1, <2>1, <3>2
      <4> QED BY <1>1, <1>2, <1>3, <2>1, <3>2, <4>1
    <3> QED BY <3>1, <3>2
  <2>2. T \in SUBSET Nat /\ 0 \in T /\ \A k \in T : k + 1 \in T
    BY <2>1
  <2> HIDE DEF T
  <2> QED BY <2>2, NatSetInduction
<1>5. f[n] = g[n]
  BY <1>1, <1>4
<1>6. g[n + 1] = g[n] \o <<Hyphen>> \o p
  <2>1. n + 1 \in 1..(n + 1) /\ n + 1 \in Nat
    BY <1>1
  <2> QED BY <1>1, <1>3, <2>1
<1> QED BY <1>2, <1>3, <1>5, <1>6 DEF more, n

LEMMA JoinOne ==
  ASSUME NEW p
  PROVE  Join(<<p>>) = p
<1>1. /\ <<p>> \in Seq({p}) /\ Len(<<p>>) = 1 /\ DOMAIN <<p>> = 1..1 /\ <<p>>[1] = p
  OBVIOUS
<1> QED BY <1>1, JoinIs

\* What is joined of texts is a text.
LEMMA JoinIsText ==
  ASSUME NEW A, Hyphen \in A, NEW parts \in Seq(Seq(A)), parts # <<>>
  PROVE  Join(parts) \in Seq(A)
<1> DEFINE n == Len(parts)
<1>1. /\ n \in Nat /\ n # 0 /\ DOMAIN parts = 1..n /\ \A k \in 1..n : parts[k] \in Seq(A)
  BY LenProperties, ElementOfSeq
<1>2. PICK f : /\ Join(parts) = f[n] /\ f[1] = parts[1]
               /\ \A k \in Nat : k # 0 /\ k + 1 \in 1..n =>
                    f[k + 1] = f[k] \o <<Hyphen>> \o parts[k + 1]
  BY JoinIs
<1> HIDE DEF n
<1> DEFINE T == {k \in Nat : k \in 1..n => f[k] \in Seq(A)}
<1>3. T = Nat
  <2>1. ASSUME NEW k \in Nat, k \in 1..n => f[k] \in Seq(A), k + 1 \in 1..n
        PROVE  f[k + 1] \in Seq(A)
    <3>1. CASE k = 0
      <4>1. k + 1 = 1
        BY <3>1
      <4> QED BY <1>1, <1>2, <2>1, <4>1
    <3>2. CASE k # 0
      <4>1. f[k + 1] = f[k] \o <<Hyphen>> \o parts[k + 1]
        BY <1>2, <2>1, <3>2
      <4>2. f[k] \in Seq(A) /\ <<Hyphen>> \in Seq(A) /\ parts[k + 1] \in Seq(A)
        BY <1>1, <2>1, <3>2
      <4> QED BY <4>1, <4>2, ConcatProperties
    <3> QED BY <3>1, <3>2
  <2>2. T \in SUBSET Nat /\ 0 \in T /\ \A k \in T : k + 1 \in T
    BY <2>1
  <2> HIDE DEF T
  <2> QED BY <2>2, NatSetInduction
<1>4. n \in 1..n
  BY <1>1
<1> QED BY <1>1, <1>2, <1>3, <1>4

-----------------------------------------------------------------------------
(* The laws that names need.                                               *)

LEMMA Laws ==
  ASSUME NEW A, NEW s \in Seq(A), NEW t \in Seq(A), NEW u \in Seq(A)
  PROVE  /\ Cat(s, t) \in Seq(A) /\ Cat(Cat(s, t), u) = Cat(s, Cat(t, u))
         /\ Cat(s, t) = Cat(s, u) => t = u
         /\ Cat(s, u) = Cat(t, u) => s = t
         /\ s # <<>> => Head(Cat(s, t)) = Head(s)
<1>1. Cat(s, t) \in Seq(A) /\ Cat(Cat(s, t), u) = Cat(s, Cat(t, u))
  BY Associative DEF Cat
<1>2. Cat(s, t) = Cat(s, u) => t = u
  BY CancelLeft DEF Cat
<1>3. Cat(s, u) = Cat(t, u) => s = t
  BY CancelRight DEF Cat
<1>4. s # <<>> => Head(Cat(s, t)) = Head(s)
  BY HeadOfCat DEF Cat
<1> QED BY <1>1, <1>2, <1>3, <1>4

\* What comes first may be taken out.
LEMMA Glued ==
  ASSUME NEW A, NEW s \in Seq(A), NEW t \in Seq(A), NEW u \in Seq(A), NEW v \in Seq(A)
  PROVE  Cat(Cat(Cat(s, t), u), v) = Cat(s, Cat(Cat(t, u), v))
<1>1. Cat(Cat(s, t), u) = Cat(s, Cat(t, u)) /\ Cat(t, u) \in Seq(A)
  BY Laws
<1>2. Cat(Cat(s, Cat(t, u)), v) = Cat(s, Cat(Cat(t, u), v))
  BY <1>1, Laws
<1> QED BY <1>1, <1>2

\* What ends in a hyphen and a word is taken apart in one way only.
LEMMA TailsApart ==
  ASSUME NEW A, Hyphen \in A, NEW s \in Seq(A), NEW t \in Seq(A), NEW v \in A, NEW w \in A
  PROVE  Cat(Cat(s, <<Hyphen>>), <<v>>) = Cat(Cat(t, <<Hyphen>>), <<w>>) => s = t /\ v = w
<1> DEFINE h == <<Hyphen>>
<1>1. h \in Seq(A)
  BY Tuples
<1> HIDE DEF h
<1>2. Cat(s, h) \in Seq(A) /\ Cat(t, h) \in Seq(A) /\ (Cat(s, h) = Cat(t, h) => s = t)
  BY <1>1, Laws
<1>3. ASSUME NEW x \in Seq(A), NEW y \in Seq(A)
      PROVE  Cat(x, <<v>>) = Cat(y, <<w>>) => x = y /\ v = w
  BY AppendsApart DEF Cat
<1>4. Cat(Cat(s, h), <<v>>) = Cat(Cat(t, h), <<w>>) => s = t /\ v = w
  BY <1>2, <1>3
<1> QED BY <1>4 DEF h

\* Beginnings: of a longer text, after a common one, and of the same text.
LEMMA Begins ==
  ASSUME NEW A, NEW s \in Seq(A), NEW t \in Seq(A), NEW u \in Seq(A)
  PROVE  /\ IsPrefix(s, Cat(s, t))
         /\ IsPrefix(s, t) => IsPrefix(s, Cat(t, u))
         /\ IsPrefix(Cat(u, s), Cat(u, t)) => IsPrefix(s, t)
         /\ IsPrefix(s, u) /\ IsPrefix(t, u) => IsPrefix(s, t) \/ IsPrefix(t, s)
<1>1. IsPrefix(s, Cat(s, t))
  <2>1. s \o t \in Seq(A)
    BY Associative
  <2> QED BY <2>1, PrefixIs DEF Cat
<1>2. ASSUME IsPrefix(s, t) PROVE IsPrefix(s, Cat(t, u))
  <2>1. PICK v \in Seq(A) : t = s \o v
    BY <1>2, PrefixIs
  <2>2. t \o u \in Seq(A) /\ v \o u \in Seq(A) /\ t \o u = s \o (v \o u)
    BY <2>1, Associative
  <2> QED BY <2>2, PrefixIs DEF Cat
<1>3. ASSUME IsPrefix(Cat(u, s), Cat(u, t)) PROVE IsPrefix(s, t)
  <2>1. Cat(u, s) \in Seq(A) /\ Cat(u, t) \in Seq(A)
    BY Laws
  <2>2. PICK v \in Seq(A) : Cat(u, t) = Cat(Cat(u, s), v)
    <3> DEFINE us == Cat(u, s)
               ut == Cat(u, t)
    <3>1. us \in Seq(A) /\ ut \in Seq(A) /\ IsPrefix(us, ut)
      BY <1>3, <2>1
    <3> HIDE DEF us, ut
    <3>2. \E v \in Seq(A) : ut = us \o v
      BY <3>1, PrefixIs
    <3>3. \E v \in Seq(A) : ut = Cat(us, v)
      BY <3>2 DEF Cat
    <3> QED BY <3>3 DEF us, ut
  <2>3. Cat(s, v) \in Seq(A) /\ Cat(u, t) = Cat(u, Cat(s, v))
    BY <2>2, Laws
  <2>4. t = Cat(s, v)
    BY <2>3, Laws
  <2> QED BY <2>4, PrefixIs DEF Cat
<1>4. ASSUME IsPrefix(s, u), IsPrefix(t, u) PROVE IsPrefix(s, t) \/ IsPrefix(t, s)
  <2>1. Len(s) \in Nat /\ Len(t) \in Nat
    BY LenProperties
  <2>2. Len(s) <= Len(t) \/ Len(t) <= Len(s)
    BY <2>1
  <2> QED BY <1>4, <2>2, Comparable
<1> QED BY <1>1, <1>2, <1>3, <1>4

-----------------------------------------------------------------------------
(* The names of repositories, loops and bumps.                             *)

NamedLoops ==
  {"dependency-patch", "security-patch", "dead-code",
   "determinism-review", "a11y-review", "doc-refs", "doc-coherence"}
Marks ==
  {"froot", "-", "/", "bump", "pr", "dependency", "security", "patch", "dead", "code",
   "review", "a11y", "docrefs", "doccoh"}

LEMMA WordsAre ==
  ASSUME NEW A, Marks \subseteq A, NEW loop \in NamedLoops
  PROVE  Words(loop) \in Seq(A) /\ Words(loop) # <<>>
<1>1. ASSUME NEW S, Marks \subseteq S
      PROVE  /\ <<"dependency", "-", "patch">> \in Seq(S)
             /\ <<"security", "-", "patch">> \in Seq(S) /\ <<"dead", "-", "code">> \in Seq(S)
             /\ <<"review">> \in Seq(S) /\ <<"a11y">> \in Seq(S)
             /\ <<"docrefs">> \in Seq(S) /\ <<"doccoh">> \in Seq(S)
  BY <1>1 DEF Marks
<1>2. /\ Words("dependency-patch") = <<"dependency", "-", "patch">>
      /\ Words("security-patch") = <<"security", "-", "patch">>
      /\ Words("dead-code") = <<"dead", "-", "code">>
      /\ Words("determinism-review") = <<"review">> /\ Words("a11y-review") = <<"a11y">>
      /\ Words("doc-refs") = <<"docrefs">> /\ Words("doc-coherence") = <<"doccoh">>
  BY DEF Words
<1>3. \A s, t, u : <<s, t, u>> # <<>> /\ <<s>> # <<>>
  OBVIOUS
<1> QED BY <1>1, <1>2, <1>3 DEF NamedLoops

\* The full name of a repository: its owner and its name.
LEMMA FullNameIs ==
  ASSUME NEW A, Marks \subseteq A, NEW repo, RepoParts(repo) \in Seq(Seq(A))
  PROVE  /\ Slug(repo.owner) \in Seq(A) /\ Slug(repo.name) \in Seq(A)
         /\ Join(RepoParts(repo)) = Cat(Cat(Slug(repo.owner), <<Hyphen>>), Slug(repo.name))
         /\ Join(RepoParts(repo)) \in Seq(A)
<1> DEFINE o == Slug(repo.owner)
           n == Slug(repo.name)
<1>1. RepoParts(repo) = <<o, n>>
  BY DEF RepoParts
<1> HIDE DEF o, n
<1>2. o \in Seq(A) /\ n \in Seq(A)
  <2>1. <<o, n>>[1] = o /\ <<o, n>>[2] = n /\ 1 \in 1..Len(<<o, n>>) /\ 2 \in 1..Len(<<o, n>>)
    OBVIOUS
  <2> QED BY <1>1, <2>1, ElementOfSeq
<1>3. <<o>> \in Seq(Seq(A)) /\ <<o>> # <<>> /\ <<o, n>> = Append(<<o>>, n) /\ <<o, n>> # <<>>
  BY <1>2
<1>4. Join(<<o, n>>) = Join(<<o>>) \o <<Hyphen>> \o n
  BY <1>2, <1>3, JoinGrows
<1>5. Hyphen \in A
  BY DEF Marks, Hyphen
<1>6. Join(RepoParts(repo)) \in Seq(A)
  BY <1>1, <1>3, <1>5, JoinIsText
<1> QED BY <1>1, <1>2, <1>4, <1>6, JoinOne DEF o, n, Cat

\* One more part before the repository's.
LEMMA JoinBefore ==
  ASSUME NEW A, Marks \subseteq A, NEW repo, RepoParts(repo) \in Seq(Seq(A)),
         NEW head \in Seq(Seq(A)), head # <<>>
  PROVE  /\ head \o RepoParts(repo) \in Seq(Seq(A)) /\ head \o RepoParts(repo) # <<>>
         /\ Join(head \o RepoParts(repo)) = Cat(Cat(Join(head), <<Hyphen>>), Join(RepoParts(repo)))
<1> DEFINE o == Slug(repo.owner)
           n == Slug(repo.name)
           first == Append(head, o)
           all == Append(first, n)
           j == Join(head)
           h == <<Hyphen>>
<1>1. RepoParts(repo) = <<o, n>> /\ o \in Seq(A) /\ n \in Seq(A)
  BY FullNameIs DEF RepoParts
<1>2. Join(RepoParts(repo)) = Cat(Cat(o, h), n)
  BY FullNameIs
<1>3. Hyphen \in A /\ h \in Seq(A)
  BY DEF Marks, Hyphen
<1>4. j \in Seq(A)
  BY <1>3, JoinIsText
<1> HIDE DEF o, n
<1>5. first \in Seq(Seq(A)) /\ first # <<>> /\ all \in Seq(Seq(A)) /\ all # <<>>
  <2>1. first \in Seq(Seq(A)) /\ first # <<>>
    BY <1>1, AppendProperties
  <2> HIDE DEF first
  <2>2. all \in Seq(Seq(A)) /\ all # <<>>
    BY <1>1, <2>1, AppendProperties
  <2> QED BY <2>1, <2>2
<1>6. head \o <<o, n>> = all
  <2>1. <<o, n>> = <<o>> \o <<n>> /\ <<o>> \in Seq(Seq(A)) /\ <<n>> \in Seq(Seq(A))
    BY <1>1, Tuples
  <2>2. first = head \o <<o>> /\ all = first \o <<n>>
    BY <1>1, <1>5, AppendIsConcat
  <2> QED BY <2>1, <2>2, ConcatAssociative
<1>7. Join(first) = Cat(Cat(j, h), o)
  BY <1>1, JoinGrows DEF Cat
<1> HIDE DEF first, j, h
<1>8. Join(all) = Cat(Cat(Join(first), h), n)
  BY <1>1, <1>5, JoinGrows DEF Cat, h
<1>9. Cat(Cat(Cat(Cat(j, h), o), h), n) = Cat(Cat(j, h), Cat(Cat(o, h), n))
  <2>1. Cat(j, h) \in Seq(A) /\ Cat(h, n) \in Seq(A) /\ Cat(Cat(j, h), o) \in Seq(A)
    BY <1>1, <1>3, <1>4, Laws
  <2>2. Cat(Cat(Cat(Cat(j, h), o), h), n) = Cat(Cat(Cat(j, h), o), Cat(h, n))
    BY <1>1, <1>3, <2>1, Laws
  <2>3. Cat(Cat(Cat(j, h), o), Cat(h, n)) = Cat(Cat(j, h), Cat(o, Cat(h, n)))
    BY <1>1, <2>1, Laws
  <2>4. Cat(o, Cat(h, n)) = Cat(Cat(o, h), n)
    BY <1>1, <1>3, Laws
  <2> QED BY <2>2, <2>3, <2>4
<1> HIDE DEF all
<1> QED BY <1>1, <1>2, <1>5, <1>6, <1>7, <1>8, <1>9 DEF j, h

\* The name of a bump without its package and target.
BumpHead(repo, loop) == <<<<"froot", "-", "bump">>>> \o LoopIdSegment(loop) \o RepoParts(repo)

LEMMA BumpHeadIs ==
  ASSUME NEW A, Marks \subseteq A, NEW repo, RepoParts(repo) \in Seq(Seq(A)),
         NEW loop \in NamedLoops
  PROVE  /\ BumpHead(repo, loop) \in Seq(Seq(A)) /\ BumpHead(repo, loop) # <<>>
         /\ Join(BumpHead(repo, loop)) \in Seq(A)
         /\ Join(BumpHead(repo, loop)) =
              Cat(<<"froot", "-", "bump", "-">>,
                  IF loop = "dependency-patch" THEN Join(RepoParts(repo))
                  ELSE Cat(Cat(Words(loop), <<Hyphen>>), Join(RepoParts(repo))))
<1> DEFINE b == <<"froot", "-", "bump">>
           bh == <<"froot", "-", "bump", "-">>
           h == <<Hyphen>>
           full == Join(RepoParts(repo))
           w == Words(loop)
<1>1. Hyphen \in A /\ h \in Seq(A) /\ b \in Seq(A) /\ bh \in Seq(A) /\ Cat(b, h) = bh
  <2>1. ASSUME NEW S, Marks \subseteq S
        PROVE  "-" \in S /\ <<"-">> \in Seq(S) /\ <<"froot", "-", "bump">> \in Seq(S)
               /\ <<"froot", "-", "bump", "-">> \in Seq(S)
    BY <2>1 DEF Marks
  <2>2. <<"froot", "-", "bump">> \o <<"-">> = <<"froot", "-", "bump", "-">>
    <3>1. "froot" \in Marks /\ "-" \in Marks /\ "bump" \in Marks
      BY DEF Marks
    <3>2. ASSUME NEW S, NEW x \in S, NEW y \in S, NEW z \in S
          PROVE  <<x, y, z>> \o <<y>> = <<x, y, z, y>>
      <4>1. <<x, y, z, y>> = Append(<<x, y, z>>, y)
        OBVIOUS
      <4>2. <<x, y, z>> \in Seq(S)
        OBVIOUS
      <4> QED BY <4>1, <4>2, AppendIsConcat
    <3> QED BY <3>1, <3>2
  <2> QED BY <2>1, <2>2 DEF Hyphen, Cat
<1>2. w \in Seq(A) /\ full \in Seq(A)
  BY WordsAre, FullNameIs
<1>3. /\ BumpHead(repo, loop) = <<b>> \o LoopIdSegment(loop) \o RepoParts(repo)
      /\ LoopIdSegment(loop) = IF loop = "dependency-patch" THEN <<>> ELSE <<w>>
  BY DEF BumpHead, LoopIdSegment
<1> HIDE DEF b, bh, h, full, w
<1>4. <<b>> \in Seq(Seq(A)) /\ <<b>> # <<>> /\ Join(<<b>>) = b
  BY <1>1, JoinOne
<1>5. CASE loop = "dependency-patch"
  <2>1. <<b>> \o <<>> = <<b>>
    BY <1>4, ConcatEmptySeq
  <2>2. BumpHead(repo, loop) = <<b>> \o RepoParts(repo)
    BY <1>3, <1>5, <2>1
  <2>3. /\ BumpHead(repo, loop) \in Seq(Seq(A)) /\ BumpHead(repo, loop) # <<>>
        /\ Join(BumpHead(repo, loop)) = Cat(Cat(b, h), full)
    BY <1>4, <2>2, JoinBefore DEF h, full
  <2>4. Join(BumpHead(repo, loop)) = Cat(bh, full) /\ Cat(bh, full) \in Seq(A)
    BY <1>1, <1>2, <2>3, Laws
  <2> QED BY <1>5, <2>3, <2>4 DEF bh, full
<1>6. CASE loop # "dependency-patch"
  <2> DEFINE head == Append(<<b>>, w)
  <2>1. head \in Seq(Seq(A)) /\ head # <<>> /\ <<b>> \o <<w>> = head
    BY <1>2, <1>4
  <2>2. Join(head) = Cat(Cat(b, h), w)
    BY <1>2, <1>4, JoinGrows DEF Cat, h
  <2> HIDE DEF head
  <2>3. BumpHead(repo, loop) = head \o RepoParts(repo)
    BY <1>3, <1>6, <2>1
  <2>4. /\ BumpHead(repo, loop) \in Seq(Seq(A)) /\ BumpHead(repo, loop) # <<>>
        /\ Join(BumpHead(repo, loop)) = Cat(Cat(Join(head), h), full)
    BY <2>1, <2>3, JoinBefore DEF h, full
  <2>5. Join(BumpHead(repo, loop)) = Cat(Cat(Cat(bh, w), h), full)
    BY <1>1, <2>2, <2>4
  <2>6. Cat(Cat(Cat(bh, w), h), full) = Cat(bh, Cat(Cat(w, h), full))
    <3>1. Cat(w, h) \in Seq(A) /\ Cat(Cat(bh, w), h) = Cat(bh, Cat(w, h))
      BY <1>1, <1>2, Laws
    <3> QED BY <1>1, <1>2, <3>1, Laws
  <2>7. Cat(bh, Cat(Cat(w, h), full)) \in Seq(A)
    <3>1. Cat(Cat(w, h), full) \in Seq(A)
      <4>1. Cat(w, h) \in Seq(A)
        BY <1>1, <1>2, Laws
      <4> QED BY <1>2, <4>1, Laws
    <3> QED BY <1>1, <3>1, Laws
  <2> QED BY <1>6, <2>4, <2>5, <2>6, <2>7 DEF bh, w, h, full
<1> QED BY <1>5, <1>6

\* The id of a bump ends in its package's slug and its target.
LEMMA BumpIdIs ==
  ASSUME NEW A, Marks \subseteq A, NEW repo, RepoParts(repo) \in Seq(Seq(A)),
         NEW loop \in NamedLoops, NEW item, item.kind = "bump",
         Slug(item.package) \in Seq(A), item.target \in A
  PROVE  LET stem == Cat(Cat(Join(BumpHead(repo, loop)), <<Hyphen>>), Slug(item.package))
         IN /\ stem \in Seq(A)
            /\ Join(BumpHead(repo, loop) \o <<Slug(item.package)>>) = stem
            /\ BumpWorkflowId(repo, item, loop) = Cat(Cat(stem, <<Hyphen>>), <<item.target>>)
<1> DEFINE head == BumpHead(repo, loop)
           p == Slug(item.package)
           t == <<item.target>>
           more == Append(head, p)
           all == Append(more, t)
           stem == Cat(Cat(Join(head), <<Hyphen>>), p)
<1>1. /\ head \in Seq(Seq(A)) /\ head # <<>> /\ Join(head) \in Seq(A)
      /\ p \in Seq(A) /\ t \in Seq(A)
  BY BumpHeadIs
<1>2. BumpWorkflowId(repo, item, loop) = Join(head \o <<p, t>>)
  BY DEF BumpWorkflowId, BumpHead, TailParts
<1>3. <<Hyphen>> \in Seq(A)
  BY DEF Marks, Hyphen
<1> HIDE DEF head, p, t
<1>4. more \in Seq(Seq(A)) /\ more # <<>> /\ more = head \o <<p>>
  BY <1>1, AppendProperties, AppendIsConcat
<1>5. head \o <<p, t>> = all
  <2>1. <<p, t>> = <<p>> \o <<t>> /\ <<p>> \in Seq(Seq(A)) /\ <<t>> \in Seq(Seq(A))
    BY <1>1, Tuples
  <2>2. all = more \o <<t>>
    BY <1>1, <1>4, AppendIsConcat
  <2> QED BY <1>1, <1>4, <2>1, <2>2, ConcatAssociative
<1>6. Join(more) = stem
  BY <1>1, JoinGrows DEF Cat
<1> HIDE DEF more
<1>7. Join(all) = Cat(Cat(Join(more), <<Hyphen>>), t)
  BY <1>1, <1>4, JoinGrows DEF Cat
<1>8. stem \in Seq(A)
  BY <1>1, <1>3, Laws
<1> HIDE DEF all, stem
<1>9. Join(head \o <<p>>) = stem /\ BumpWorkflowId(repo, item, loop) = Cat(Cat(stem, <<Hyphen>>), t)
  BY <1>2, <1>4, <1>5, <1>6, <1>7
<1> QED BY <1>8, <1>9 DEF stem, head, p, t

\* The id of a bump, from its first words to its target.
LEMMA BumpIdEnds ==
  ASSUME NEW A, Marks \subseteq A, NEW repo, RepoParts(repo) \in Seq(Seq(A)),
         NEW loop \in NamedLoops, NEW item, item.kind = "bump",
         NEW p \in Seq(A), NEW t \in A, Slug(item.package) = p, item.target = t
  PROVE  BumpWorkflowId(repo, item, loop) =
           Cat(Cat(Cat(Cat(Join(BumpHead(repo, loop)), <<Hyphen>>), p), <<Hyphen>>), <<t>>)
<1>1. PICK stem : stem = Join(BumpHead(repo, loop) \o <<Slug(item.package)>>)
  OBVIOUS
<1>2. Slug(item.package) \in Seq(A) /\ item.target \in A
  OBVIOUS
<1>3. BumpWorkflowId(repo, item, loop) = Cat(Cat(stem, <<Hyphen>>), <<item.target>>)
  BY <1>1, <1>2, BumpIdIs
<1>4. stem = Cat(Cat(Join(BumpHead(repo, loop)), <<Hyphen>>), Slug(item.package))
  BY <1>1, <1>2, <1>3, BumpIdIs
<1> QED BY <1>3, <1>4

-----------------------------------------------------------------------------
(* Prefixes.                                                               *)

\* A prefix of a text with one more word is all of it or one of the text.
LEMMA PrefixOfAppend ==
  ASSUME NEW A, NEW q \in Seq(A), NEW y \in Seq(A), NEW e \in A
  PROVE  IsPrefix(q, Cat(y, <<e>>)) => q = Cat(y, <<e>>) \/ IsPrefix(q, y)
<1> DEFINE all == Cat(y, <<e>>)
<1>1. <<e>> \in Seq(A) /\ all \in Seq(A) /\ IsPrefix(y, all)
  <2>1. <<e>> \in Seq(A)
    OBVIOUS
  <2> QED BY <2>1, Laws, Begins
<1>2. Len(all) = Len(y) + 1
  BY DEF Cat
<1> HIDE DEF all
<1>3. SUFFICES ASSUME IsPrefix(q, all) PROVE q = all \/ IsPrefix(q, y)
  BY DEF all
<1>4. Len(q) \in Nat /\ Len(y) \in Nat /\ Len(q) <= Len(all)
  BY <1>1, <1>3, LenProperties DEF IsPrefix
<1>5. CASE Len(q) = Len(all)
  <2>1. SubSeq(q, 1, Len(q)) = SubSeq(all, 1, Len(q))
    BY <1>3 DEF IsPrefix
  <2>2. SubSeq(q, 1, Len(q)) = q /\ SubSeq(all, 1, Len(all)) = all
    BY <1>1, SubSeqFull
  <2> QED BY <1>5, <2>1, <2>2
<1>6. CASE Len(q) # Len(all)
  <2>1. Len(q) <= Len(y)
    BY <1>2, <1>4, <1>6
  <2> QED BY <1>1, <1>3, <2>1, Comparable
<1> QED BY <1>5, <1>6

\* Two texts that begin each other are one.
LEMMA PrefixesOfEachOther ==
  ASSUME NEW A, NEW s \in Seq(A), NEW t \in Seq(A), IsPrefix(s, t), IsPrefix(t, s)
  PROVE  s = t
<1>1. Len(s) \in Nat /\ Len(t) \in Nat /\ Len(s) <= Len(t) /\ Len(t) <= Len(s)
  BY LenProperties DEF IsPrefix
<1>2. SubSeq(s, 1, Len(s)) = SubSeq(t, 1, Len(s))
  BY DEF IsPrefix
<1>3. SubSeq(s, 1, Len(s)) = s /\ SubSeq(t, 1, Len(t)) = t
  BY SubSeqFull
<1> QED BY <1>1, <1>2, <1>3

\* What ends in a hyphen, begins a text that goes on with a word, a hyphen and a
\* word, and is not shorter than the text: it is the text or ends at the second
\* hyphen.
LEMMA PrefixOfTail ==
  ASSUME NEW A, Hyphen \in A, NEW p \in Seq(A), NEW q \in Seq(A),
         NEW n \in A, NEW h \in A, n # Hyphen, h # Hyphen,
         IsPrefix(Cat(p, <<Hyphen>>), Cat(q, <<Hyphen>>)),
         IsPrefix(Cat(q, <<Hyphen>>),
                  Cat(Cat(Cat(Cat(p, <<Hyphen>>), <<n>>), <<Hyphen>>), <<h>>))
  PROVE  q = p \/ q = Cat(Cat(p, <<Hyphen>>), <<n>>)
<1> DEFINE d  == <<Hyphen>>
           P  == Cat(p, d)
           Q  == Cat(q, d)
           X  == Cat(P, <<n>>)
           Y  == Cat(X, d)
           Z  == Cat(Y, <<h>>)
<1>1. <<n>> \in Seq(A) /\ <<h>> \in Seq(A) /\ d \in Seq(A)
  OBVIOUS
<1> HIDE DEF d
<1>2. P \in Seq(A) /\ Q \in Seq(A)
  BY <1>1, Laws
<1>3. X \in Seq(A)
  BY <1>1, <1>2, Laws
<1>4. Y \in Seq(A)
  BY <1>1, <1>3, Laws
<1>5. ASSUME NEW x \in Seq(A), NEW y \in Seq(A), NEW v \in A
      PROVE  /\ Cat(x, d) = Cat(y, <<v>>) => x = y /\ v = Hyphen
             /\ IsPrefix(x, Cat(y, <<v>>)) => x = Cat(y, <<v>>) \/ IsPrefix(x, y)
  <2>1. Cat(x, <<Hyphen>>) = Cat(y, <<v>>) => x = y /\ v = Hyphen
    BY AppendsApart DEF Cat
  <2> QED BY <2>1, PrefixOfAppend DEF d
<1>6. IsPrefix(P, Q) /\ IsPrefix(Q, Z)
  BY DEF d
<1>7. Q # Z
  <2> HIDE DEF Y
  <2> QED BY <1>4, <1>5
<1>8. IsPrefix(Q, Y)
  <2> HIDE DEF Y, Q
  <2> QED BY <1>2, <1>4, <1>5, <1>6, <1>7
<1>9. Q = Y \/ IsPrefix(Q, X)
  <2> HIDE DEF X, Q
  <2>1. Y = Cat(X, <<Hyphen>>)
    BY DEF d
  <2> QED BY <1>2, <1>3, <1>5, <1>8, <2>1
<1>10. CASE Q = Y
  <2> HIDE DEF X
  <2>1. q = X
    BY <1>1, <1>3, <1>10, Laws
  <2> QED BY <2>1 DEF X, d
<1>11. CASE IsPrefix(Q, X)
  <2>1. Q # X
    <3> HIDE DEF P
    <3> QED BY <1>2, <1>5
  <2>2. IsPrefix(Q, P)
    <3> HIDE DEF P, Q
    <3> QED BY <1>2, <1>5, <1>11, <2>1
  <2>3. Q = P
    <3> HIDE DEF P, Q
    <3> QED BY <1>2, <1>6, <2>2, PrefixesOfEachOther
  <2> QED BY <1>1, <2>3, Laws
<1> QED BY <1>9, <1>10, <1>11

\* The words of a loop with a segment tell it, even as a prefix.
LEMMA SegmentsApart ==
  ASSUME NEW A, Marks \subseteq A,
         NEW k \in {"security-patch", "dead-code"}, NEW l \in {"security-patch", "dead-code"},
         IsPrefix(Cat(Words(k), <<Hyphen>>), Cat(Words(l), <<Hyphen>>))
  PROVE  k = l
<1> DEFINE wk == Words(k)
           wl == Words(l)
           d == <<Hyphen>>
           s == Cat(wk, d)
           t == Cat(wl, d)
<1>1. wk \in Seq(A) /\ wk # <<>> /\ wl \in Seq(A) /\ wl # <<>> /\ d \in Seq(A)
  <2>1. k \in NamedLoops /\ l \in NamedLoops /\ Hyphen \in A
    BY DEF NamedLoops, Marks, Hyphen
  <2>2. d \in Seq(A)
    BY <2>1
  <2> HIDE DEF d
  <2> QED BY <2>1, <2>2, WordsAre
<1> HIDE DEF wk, wl, d
<1>2. s \in Seq(A) /\ t \in Seq(A) /\ s # <<>> /\ Head(s) = Head(wk) /\ Head(t) = Head(wl)
  <2>1. s \in Seq(A) /\ t \in Seq(A) /\ Head(s) = Head(wk) /\ Head(t) = Head(wl)
    BY <1>1, Laws
  <2>2. s # <<>>
    BY <1>1 DEF Cat
  <2> QED BY <2>1, <2>2
<1>3. IsPrefix(s, t)
  BY DEF wk, wl, d
<1> HIDE DEF s, t
<1>4. Head(s) = Head(t)
  <2>1. PICK u \in Seq(A) : t = s \o u
    BY <1>2, <1>3, PrefixIs
  <2> QED BY <1>2, <2>1, HeadOfCat
<1>5. Head(Words("security-patch")) = "security" /\ Head(Words("dead-code")) = "dead"
  BY DEF Words
<1> QED BY <1>2, <1>4, <1>5 DEF wk, wl

-----------------------------------------------------------------------------
(* The names of reviews.                                                   *)

\* A first part, the loop and the repository.
RootParts(first, w, repo) == <<first, w>> \o RepoParts(repo)

LEMMA LoopAndRepo ==
  ASSUME NEW A, Marks \subseteq A, NEW repo, RepoParts(repo) \in Seq(Seq(A)),
         NEW w \in Seq(A), NEW first \in Seq(A)
  PROVE  /\ RootParts(first, w, repo) \in Seq(Seq(A))
         /\ RootParts(first, w, repo) # <<>>
         /\ Cat(Cat(w, <<Hyphen>>), Join(RepoParts(repo))) \in Seq(A)
         /\ Join(RootParts(first, w, repo)) =
              Cat(Cat(first, <<Hyphen>>), Cat(Cat(w, <<Hyphen>>), Join(RepoParts(repo))))
<1> DEFINE head == <<first, w>>
           h == <<Hyphen>>
           full == Join(RepoParts(repo))
<1>1. h \in Seq(A)
  BY DEF Marks, Hyphen
<1>2. full \in Seq(A)
  BY FullNameIs
<1>3. head \in Seq(Seq(A)) /\ head # <<>> /\ head = Append(<<first>>, w) /\ <<first>> \in Seq(Seq(A))
      /\ <<first>> # <<>>
  BY Tuples
<1>4. Join(head) = Cat(Cat(first, h), w)
  <2> HIDE DEF head
  <2>1. Join(Append(<<first>>, w)) = Join(<<first>>) \o <<Hyphen>> \o w
    BY <1>3, JoinGrows
  <2> QED BY <1>3, <2>1, JoinOne DEF Cat
<1> HIDE DEF head
<1>5. /\ head \o RepoParts(repo) \in Seq(Seq(A)) /\ head \o RepoParts(repo) # <<>>
      /\ Join(head \o RepoParts(repo)) = Cat(Cat(Join(head), h), full)
  BY <1>3, JoinBefore
<1> HIDE DEF h, full
<1>6. Cat(first, h) \in Seq(A) /\ Cat(w, h) \in Seq(A)
  BY <1>1, Laws
<1>7. /\ Cat(Cat(w, h), full) \in Seq(A)
      /\ Cat(Cat(Cat(first, h), w), h) = Cat(Cat(first, h), Cat(w, h))
  BY <1>1, <1>2, <1>6, Laws
<1>8. Cat(Cat(Cat(first, h), Cat(w, h)), full) = Cat(Cat(first, h), Cat(Cat(w, h), full))
  BY <1>2, <1>6, Laws
<1> QED BY <1>4, <1>5, <1>7, <1>8 DEF RootParts, head, h, full

\* The id of a root that comments, and of a review: it ends in the number and
\* the head of its pull request.
LEMMA ReviewIdIs ==
  ASSUME NEW A, Marks \subseteq A, NEW repo, RepoParts(repo) \in Seq(Seq(A)),
         NEW loop \in NamedLoops, NEW number \in A, NEW sha \in A
  PROVE  LET tail == Cat(Cat(Words(loop), <<Hyphen>>), Join(RepoParts(repo)))
             stem == Cat(<<"froot", "-", "pr", "-">>, tail)
         IN /\ tail \in Seq(A) /\ stem \in Seq(A)
            /\ ReviewLoopId(repo, loop) = Cat(<<"froot", "-">>, tail)
            /\ ReviewId(repo, loop, number, sha) =
                 Cat(Cat(Cat(Cat(stem, <<Hyphen>>), <<number>>), <<Hyphen>>), <<sha>>)
<1>0. ASSUME NEW x \in Seq(A), NEW y \in Seq(A)
      PROVE  /\ RootParts(x, y, repo) \in Seq(Seq(A)) /\ RootParts(x, y, repo) # <<>>
             /\ Cat(Cat(y, <<Hyphen>>), Join(RepoParts(repo))) \in Seq(A)
             /\ Join(RootParts(x, y, repo)) =
                  Cat(Cat(x, <<Hyphen>>), Cat(Cat(y, <<Hyphen>>), Join(RepoParts(repo))))
  BY LoopAndRepo
<1> DEFINE f == <<"froot">>
           fh == <<"froot", "-">>
           r == <<"froot", "-", "pr">>
           rh == <<"froot", "-", "pr", "-">>
           h == <<Hyphen>>
           w == Words(loop)
           n == <<number>>
           s == <<sha>>
           parts == RepoParts(repo)
           tail == Cat(Cat(w, h), Join(parts))
           stem == Cat(rh, tail)
<1>1. /\ f \in Seq(A) /\ r \in Seq(A) /\ h \in Seq(A) /\ rh \in Seq(A) /\ fh \in Seq(A)
      /\ Cat(f, h) = fh /\ Cat(r, h) = rh
  <2>1. ASSUME NEW S, Marks \subseteq S
        PROVE  /\ <<"froot">> \in Seq(S) /\ <<"-">> \in Seq(S) /\ <<"froot", "-">> \in Seq(S)
               /\ <<"froot", "-", "pr">> \in Seq(S) /\ <<"froot", "-", "pr", "-">> \in Seq(S)
    BY <2>1 DEF Marks
  <2>2. <<"froot", "-", "pr">> \o <<"-">> = <<"froot", "-", "pr", "-">>
    <3>1. "froot" \in Marks /\ "-" \in Marks /\ "pr" \in Marks
      BY DEF Marks
    <3>2. ASSUME NEW S, NEW x \in S, NEW y \in S, NEW z \in S
          PROVE  <<x, y, z>> \o <<y>> = <<x, y, z, y>>
      <4>1. <<x, y, z, y>> = Append(<<x, y, z>>, y)
        OBVIOUS
      <4>2. <<x, y, z>> \in Seq(S)
        OBVIOUS
      <4> QED BY <4>1, <4>2, AppendIsConcat
    <3> QED BY <3>1, <3>2
  <2>3. <<"froot">> \o <<"-">> = <<"froot", "-">>
    <3>1. "froot" \in Marks /\ "-" \in Marks
      BY DEF Marks
    <3> QED BY <3>1, Tuples
  <2> QED BY <2>1, <2>2, <2>3 DEF Hyphen, Cat
<1>2. w \in Seq(A) /\ n \in Seq(A) /\ s \in Seq(A) /\ Hyphen \in A
  BY WordsAre DEF Marks, Hyphen
<1>3. /\ ReviewLoopId(repo, loop) = Join(RootParts(f, w, repo))
      /\ ReviewId(repo, loop, number, sha) = Join(RootParts(r, w, repo) \o <<n, s>>)
  BY DEF ReviewLoopId, ReviewId, RootParts
<1> HIDE DEF f, fh, r, rh, w, n, s
<1>4. tail \in Seq(A) /\ Join(RootParts(f, w, repo)) = Cat(fh, tail)
  <2>1. tail \in Seq(A) /\ Join(RootParts(f, w, repo)) = Cat(Cat(f, h), tail)
    BY <1>0, <1>1, <1>2
  <2> QED BY <1>1, <2>1
<1> DEFINE head == RootParts(r, w, repo)
           more == Append(head, n)
           all == Append(more, s)
<1>5. head \in Seq(Seq(A)) /\ head # <<>> /\ Join(head) = stem
  <2>1. head \in Seq(Seq(A)) /\ head # <<>> /\ Join(head) = Cat(Cat(r, h), tail)
    BY <1>0, <1>1, <1>2
  <2> HIDE DEF head
  <2> QED BY <1>1, <2>1
<1>6. stem \in Seq(A)
  <2> HIDE DEF tail
  <2> QED BY <1>1, <1>4, Laws
<1> HIDE DEF tail, stem, head
<1>7. /\ more \in Seq(Seq(A)) /\ more # <<>> /\ more = head \o <<n>>
      /\ Join(more) = Cat(Cat(stem, h), n)
  <2>1. more \in Seq(Seq(A)) /\ more # <<>> /\ more = head \o <<n>>
    BY <1>2, <1>5, AppendProperties, AppendIsConcat
  <2> QED BY <1>2, <1>5, <2>1, JoinGrows DEF Cat
<1>8. head \o <<n, s>> = all
  <2>1. <<n, s>> = <<n>> \o <<s>> /\ <<n>> \in Seq(Seq(A)) /\ <<s>> \in Seq(Seq(A))
    BY <1>2, Tuples
  <2>2. all = more \o <<s>>
    BY <1>2, <1>7, AppendIsConcat
  <2> QED BY <1>5, <1>7, <2>1, <2>2, ConcatAssociative
<1>9. Join(all) = Cat(Cat(Join(more), h), s)
  <2> HIDE DEF more
  <2> QED BY <1>2, <1>7, JoinGrows DEF Cat
<1>10. Join(head \o <<n, s>>) = Cat(Cat(Cat(Cat(stem, h), n), h), s)
  BY <1>7, <1>8, <1>9
<1> QED BY <1>3, <1>4, <1>6, <1>10 DEF f, fh, r, rh, h, w, n, s, parts, tail, stem, head
=============================================================================
