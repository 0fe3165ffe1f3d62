---------------------------- MODULE AuthoringProofs ----------------------------
(***************************************************************************)
(* What is proved, by induction on lists, of the two algorithms of         *)
(* authoring that repair and arrange what they are given.                  *)
(* CandidateFixtures: what the repairs do to the fixtures of a proposal,   *)
(* whatever the language of the templates' documents says of values, and   *)
(* so of every proposal that the drafting loop judges.                     *)
(* LessonPlacement: whatever lesson is handed in, whatever the sizes of    *)
(* its visuals and wherever its callouts hang, what is placed lies in the  *)
(* frame and apart, and every callout has its room.                        *)
(***************************************************************************)
EXTENDS CandidateFixtures, LessonPlacement, SequenceTheorems, WellFoundedInduction, TLAPS

-----------------------------------------------------------------------------
(* Induction on the naturals, by their least elements.                      *)

\* The order of the naturals is well founded.
LEMMA NatLess == IsWellFoundedOn({p \in Nat \X Nat : p[1] < p[2]}, Nat)
BY NatLessThanWellFounded DEF OpToRel

\* A set of naturals has a least element.
LEMMA LeastNat ==
    ASSUME NEW T, T \subseteq Nat, T # {}
    PROVE  \E x \in T : \A y \in T : x <= y
<1> DEFINE R == {p \in Nat \X Nat : p[1] < p[2]}
<1>1. IsWellFoundedOn(R, Nat)
  BY NatLess
<1> HIDE DEF R
<1>2. PICK x \in T : \A y \in T : <<y, x>> \notin R
  BY <1>1, WFMin
<1> USE DEF R
<1>3. \A y \in T : ~(y < x)
  BY <1>2
<1>4. QED
  BY <1>3

\* What holds of zero and is handed on holds of every natural.
LEMMA NatInd ==
    ASSUME NEW S, 0 \in S, \A n \in Nat : n \in S => n + 1 \in S
    PROVE  Nat \subseteq S
<1> SUFFICES ASSUME NEW k \in Nat, k \notin S PROVE FALSE
  OBVIOUS
<1> DEFINE T == {n \in Nat : n \notin S}
<1>1. PICK x \in T : \A y \in T : x <= y
  <2> HIDE DEF T
  <2>1. T \subseteq Nat /\ T # {}
    BY DEF T
  <2>2. QED BY <2>1, LeastNat
<1>2. x # 0
  OBVIOUS
<1>3. x - 1 \in Nat /\ x - 1 \notin T
  BY <1>1, <1>2
<1>4. QED
  BY <1>3

\* The least of a set of naturals is one of them and exceeds none.
LEMMA MinNat ==
    ASSUME NEW T, T \subseteq Nat, T # {}
    PROVE  Min(T) \in T /\ \A y \in T : Min(T) <= y
BY LeastNat DEF Min

-----------------------------------------------------------------------------
(* Sequences of fixtures.                                                   *)

\* The places of a list.
LEMMA ListPlaces ==
    ASSUME NEW s, Listed(s)
    PROVE  /\ Len(s) \in Nat
           /\ DOMAIN s = 1..Len(s)
           /\ \A x : x \in Range(s) <=> \E k \in 1..Len(s) : s[k] = x
<1>1. Len(s) \in Nat /\ DOMAIN s = 1..Len(s)
  BY LenProperties DEF Listed
<1>2. Range(s) = {s[k] : k \in DOMAIN s}
  BY DEF Range
<1>3. QED BY <1>1, <1>2

\* A sequence over any set is a list.
LEMMA SeqIsListed ==
    ASSUME NEW S, NEW s \in Seq(S)
    PROVE  Listed(s)
BY SeqOfRange DEF Listed

\* One more fixture at the end of a list.
LEMMA AppendToList ==
    ASSUME NEW s, Listed(s), NEW x
    PROVE  /\ Listed(Append(s, x))
           /\ Len(Append(s, x)) = Len(s) + 1
           /\ Append(s, x)[Len(s) + 1] = x
           /\ \A k \in 1..Len(s) : Append(s, x)[k] = s[k]
<1> DEFINE S == Range(s) \cup {x}
<1>1. s \in Seq(S)
  <2>1. s \in Seq(Range(s)) /\ Range(s) \subseteq S
    BY DEF Listed
  <2> HIDE DEF S
  <2>2. QED BY <2>1, SeqMonotonic
<1>2. x \in S
  OBVIOUS
<1> HIDE DEF S
<1>3. /\ Append(s, x) \in Seq(S) /\ Len(Append(s, x)) = Len(s) + 1
      /\ Append(s, x)[Len(s) + 1] = x
      /\ \A k \in 1..Len(s) : Append(s, x)[k] = s[k]
  BY <1>1, <1>2, AppendProperties
<1>4. QED BY <1>3, SeqIsListed

-----------------------------------------------------------------------------
(* What is kept of a list.                                                  *)

\* One place is looked at.
KeptOnce(s, places, k, t) == IF k \in places THEN Append(t, s[k]) ELSE t

\* The first n places have been looked at.
Keeping(s, places, f, n) ==
    f = [k \in 0..n |-> IF k = 0 THEN <<>> ELSE KeptOnce(s, places, k, f[k - 1])]

\* Every number of places can be looked at: induction on it.
LEMMA KeepingExists ==
    ASSUME NEW s, NEW places
    PROVE  \A n \in Nat : \E f : Keeping(s, places, f, n)
<1> DEFINE S == {n \in Nat : \E f : Keeping(s, places, f, n)}
<1>1. 0 \in S
  <2> DEFINE g == [k \in 0..0 |-> <<>>]
  <2>1. ASSUME NEW k \in 0..0
        PROVE g[k] = IF k = 0 THEN <<>> ELSE KeptOnce(s, places, k, g[k - 1])
    OBVIOUS
  <2>2. Keeping(s, places, g, 0)
    BY <2>1 DEF Keeping
  <2>3. QED BY <2>2
<1>2. ASSUME NEW n \in Nat, n \in S PROVE n + 1 \in S
  <2>1. PICK f : Keeping(s, places, f, n)
    BY <1>2
  <2> DEFINE x == KeptOnce(s, places, n + 1, f[n])
             g == [k \in 0..(n + 1) |-> IF k = n + 1 THEN x ELSE f[k]]
  <2> HIDE DEF x
  <2>2. ASSUME NEW k \in 0..(n + 1)
        PROVE g[k] = IF k = 0 THEN <<>> ELSE KeptOnce(s, places, k, g[k - 1])
    <3>1. CASE k = n + 1
      <4>1. k # 0 /\ k - 1 = n /\ n \in 0..(n + 1) /\ n # n + 1
        BY <3>1
      <4>2. g[k] = x /\ g[k - 1] = f[n]
        BY <4>1, <3>1
      <4>3. QED BY <3>1, <4>1, <4>2 DEF x
    <3>2. CASE k # n + 1
      <4>1. k \in 0..n /\ (k # 0 => k - 1 \in 0..n)
        BY <3>2
      <4>2. f[k] = IF k = 0 THEN <<>> ELSE KeptOnce(s, places, k, f[k - 1])
        BY <4>1, <2>1 DEF Keeping
      <4>3. g[k] = f[k] /\ (k # 0 => g[k - 1] = f[k - 1])
        BY <4>1
      <4>4. QED BY <4>2, <4>3
    <3>3. QED BY <3>1, <3>2
  <2>3. Keeping(s, places, g, n + 1)
    BY <2>2 DEF Keeping
  <2>4. QED BY <2>3
<1>3. QED
  <2> HIDE DEF S
  <2>1. Nat \subseteq S BY <1>1, <1>2, NatInd
  <2>2. QED BY <2>1 DEF S

\* Each element of t stands at a place of its own of the first n of s, in order,
\* which e tells, and none of the places to be kept is missing.
Embeds(s, places, n, t, e) ==
    /\ e \in [1..Len(t) -> 1..n]
    /\ \A i \in 1..Len(t) : e[i] \in places /\ t[i] = s[e[i]]
    /\ \A i, j \in 1..Len(t) : i < j => e[i] < e[j]
    /\ \A k \in 1..n : k \in places => \E i \in 1..Len(t) : e[i] = k

Selects(s, places, n, t) == Listed(t) /\ \E e : Embeds(s, places, n, t, e)

\* Looking at one more place keeps what was kept, in order.
LEMMA SelectsStep ==
    ASSUME NEW s, NEW places, NEW n \in Nat, NEW t, Selects(s, places, n, t)
    PROVE  Selects(s, places, n + 1, KeptOnce(s, places, n + 1, t))
<1>1. PICK e : Embeds(s, places, n, t, e)
  BY DEF Selects
<1>2. Listed(t) /\ Len(t) \in Nat
  BY ListPlaces DEF Selects
<1>3. CASE n + 1 \notin places
  <2>1. KeptOnce(s, places, n + 1, t) = t
    BY <1>3 DEF KeptOnce
  <2>2. Embeds(s, places, n + 1, t, e)
    BY <1>1, <1>3 DEF Embeds
  <2>3. QED BY <1>2, <2>1, <2>2 DEF Selects
<1>4. CASE n + 1 \in places
  <2> DEFINE u == Append(t, s[n + 1])
             g == [i \in 1..Len(u) |-> IF i = Len(u) THEN n + 1 ELSE e[i]]
  <2>1. /\ Listed(u) /\ Len(u) = Len(t) + 1 /\ u[Len(t) + 1] = s[n + 1]
        /\ \A k \in 1..Len(t) : u[k] = t[k]
    BY <1>2, AppendToList
  <2> HIDE DEF u
  <2>2. \A i \in 1..Len(u) : i # Len(u) => i \in 1..Len(t)
    BY <1>2, <2>1
  <2>3. g \in [1..Len(u) -> 1..(n + 1)]
    BY <1>1, <2>2 DEF Embeds
  <2>4. \A i \in 1..Len(u) : g[i] \in places /\ u[i] = s[g[i]]
    BY <1>1, <1>2, <1>4, <2>1, <2>2 DEF Embeds
  <2>5. ASSUME NEW i \in 1..Len(u), NEW j \in 1..Len(u), i < j PROVE g[i] < g[j]
    <3>1. i # Len(u) /\ i \in 1..Len(t) /\ e[i] \in 1..n /\ g[i] = e[i]
      BY <1>1, <1>2, <2>1, <2>2, <2>5 DEF Embeds
    <3>2. CASE j = Len(u)
      BY <3>1, <3>2
    <3>3. CASE j # Len(u)
      <4>1. j \in 1..Len(t) /\ g[j] = e[j]
        BY <2>2, <3>3
      <4>2. QED BY <1>1, <2>5, <3>1, <4>1 DEF Embeds
    <3>4. QED BY <3>2, <3>3
  <2>6. ASSUME NEW k \in 1..(n + 1), k \in places PROVE \E i \in 1..Len(u) : g[i] = k
    <3>1. CASE k = n + 1
      <4>1. Len(u) \in 1..Len(u)
        BY <1>2, <2>1
      <4>2. QED BY <3>1, <4>1
    <3>2. CASE k # n + 1
      <4>1. k \in 1..n
        BY <3>2
      <4>2. PICK i \in 1..Len(t) : e[i] = k
        BY <1>1, <2>6, <4>1 DEF Embeds
      <4>3. i \in 1..Len(u) /\ i # Len(u)
        BY <1>2, <2>1
      <4>4. QED BY <4>2, <4>3
    <3>3. QED BY <3>1, <3>2
  <2>7. Embeds(s, places, n + 1, u, g)
    <3> HIDE DEF g
    <3>1. QED BY <2>3, <2>4, <2>5, <2>6 DEF Embeds
  <2>8. KeptOnce(s, places, n + 1, t) = u
    BY <1>4 DEF KeptOnce, u
  <2>9. QED BY <2>1, <2>7, <2>8 DEF Selects
<1>5. QED BY <1>3, <1>4

\* What is kept of a list is what stands at the places to be kept, in order.
LEMMA KeptSelects ==
    ASSUME NEW s, Listed(s), NEW places
    PROVE  Selects(s, places, Len(s), Kept(s, places))
<1>1. Len(s) \in Nat
  BY ListPlaces
<1> DEFINE f == CHOOSE f : Keeping(s, places, f, Len(s))
<1>2. Keeping(s, places, f, Len(s))
  BY <1>1, KeepingExists
<1>3. Kept(s, places) = f[Len(s)]
  BY DEF Kept, Keeping, KeptOnce
<1> HIDE DEF f
<1>4. \A k \in 0..Len(s) : f[k] = IF k = 0 THEN <<>> ELSE KeptOnce(s, places, k, f[k - 1])
  BY <1>2 DEF Keeping
<1>5. f[0] = <<>> /\ \A n \in Nat : n + 1 <= Len(s) => f[n + 1] = KeptOnce(s, places, n + 1, f[n])
  <2>1. 0 \in 0..Len(s)
    BY <1>1
  <2>2. ASSUME NEW n \in Nat, n + 1 <= Len(s)
        PROVE  f[n + 1] = KeptOnce(s, places, n + 1, f[n])
    <3>1. n + 1 \in 0..Len(s) /\ n + 1 # 0 /\ (n + 1) - 1 = n
      BY <1>1, <2>2
    <3>2. QED BY <1>4, <3>1
  <2>3. QED BY <1>4, <2>1, <2>2
<1> DEFINE S == {n \in Nat : n <= Len(s) => Selects(s, places, n, f[n])}
<1>6. 0 \in S
  <2>1. Listed(<<>>) /\ Len(<<>>) = 0 /\ 1..0 = {}
    <3>1. <<>> \in Seq({}) /\ Len(<<>>) = 0
      BY EmptySeq
    <3>2. Listed(<<>>)
      BY <3>1, SeqIsListed
    <3>3. QED BY <3>1, <3>2
  <2>2. Embeds(s, places, 0, <<>>, [i \in 1..0 |-> 0])
    BY <2>1 DEF Embeds
  <2>3. QED BY <1>5, <2>1, <2>2 DEF Selects
<1>7. ASSUME NEW n \in Nat, n \in S PROVE n + 1 \in S
  <2>1. SUFFICES ASSUME n + 1 <= Len(s) PROVE Selects(s, places, n + 1, f[n + 1])
    OBVIOUS
  <2>2. Selects(s, places, n, f[n])
    BY <1>1, <1>7, <2>1
  <2> HIDE DEF S
  <2>3. Selects(s, places, n + 1, KeptOnce(s, places, n + 1, f[n]))
    BY <2>2, SelectsStep
  <2>4. f[n + 1] = KeptOnce(s, places, n + 1, f[n])
    BY <1>5, <2>1
  <2>5. QED BY <2>3, <2>4
<1>8. Len(s) \in S
  <2> HIDE DEF S
  <2>1. QED BY <1>1, <1>6, <1>7, NatInd
<1>9. Selects(s, places, Len(s), f[Len(s)])
  BY <1>1, <1>8
<1>10. QED BY <1>3, <1>9

\* The elements of what is kept.
LEMMA KeptElements ==
    ASSUME NEW s, Listed(s), NEW places
    PROVE  /\ Listed(Kept(s, places))
           /\ \A x : x \in Range(Kept(s, places)) <=> \E k \in 1..Len(s) : k \in places /\ s[k] = x
<1> DEFINE t == Kept(s, places)
<1>1. Selects(s, places, Len(s), t)
  BY KeptSelects
<1> HIDE DEF t
<1>2. PICK e : Embeds(s, places, Len(s), t, e)
  BY <1>1 DEF Selects
<1>3. Listed(t)
  BY <1>1 DEF Selects
<1>4. \A x : x \in Range(t) <=> \E i \in 1..Len(t) : t[i] = x
  BY <1>3, ListPlaces
<1>5. ASSUME NEW x, x \in Range(t) PROVE \E k \in 1..Len(s) : k \in places /\ s[k] = x
  <2>1. PICK i \in 1..Len(t) : t[i] = x
    BY <1>4, <1>5
  <2>2. e[i] \in 1..Len(s) /\ e[i] \in places /\ s[e[i]] = x
    BY <1>2, <2>1 DEF Embeds
  <2>3. QED BY <2>2
<1>6. ASSUME NEW k \in 1..Len(s), k \in places PROVE s[k] \in Range(t)
  <2>1. PICK i \in 1..Len(t) : e[i] = k
    BY <1>2, <1>6 DEF Embeds
  <2>2. t[i] = s[k]
    BY <1>2, <2>1 DEF Embeds
  <2>3. QED BY <1>4, <2>2
<1>7. QED BY <1>3, <1>5, <1>6 DEF t

-----------------------------------------------------------------------------
(* The first example.                                                       *)

\* A list with an example has a first one, and one only, which is its base.
LEMMA BaseIsFirst ==
    ASSUME NEW s, Listed(s), HasBase(s)
    PROVE  \E k \in 1..Len(s) : IsBase(s, k) /\ Base(s) = s[k]
<1>1. Len(s) \in Nat /\ DOMAIN s = 1..Len(s)
  BY ListPlaces
<1> DEFINE T == {k \in 1..Len(s) : Example(s[k])}
<1>2. T \subseteq Nat /\ T # {}
  BY <1>1 DEF HasBase
<1>3. PICK x \in T : \A y \in T : x <= y
  <2> HIDE DEF T
  <2>1. QED BY <1>2, LeastNat
<1>4. x \in DOMAIN s /\ IsBase(s, x)
  <2>1. x \in 1..Len(s) /\ Example(s[x])
    OBVIOUS
  <2>2. ASSUME NEW j \in DOMAIN s, j < x PROVE ~Example(s[j])
    <3>1. j \notin T
      BY <1>1, <1>3, <2>2
    <3>2. QED BY <1>1, <3>1
  <2>3. QED BY <1>1, <2>1, <2>2 DEF IsBase
<1> DEFINE b == CHOOSE k \in DOMAIN s : IsBase(s, k)
<1>5. b \in DOMAIN s /\ IsBase(s, b)
  BY <1>4
<1>6. Base(s) = s[b]
  BY DEF Base
<1>7. QED BY <1>1, <1>5, <1>6

\* A base is what stands at the first place of an example.
LEMMA BaseAt ==
    ASSUME NEW s, Listed(s), NEW k \in 1..Len(s), IsBase(s, k)
    PROVE  HasBase(s) /\ Base(s) = s[k]
<1>1. Len(s) \in Nat /\ DOMAIN s = 1..Len(s)
  BY ListPlaces
<1>2. HasBase(s)
  BY <1>1 DEF HasBase, IsBase
<1>3. PICK b \in 1..Len(s) : IsBase(s, b) /\ Base(s) = s[b]
  BY <1>2, BaseIsFirst
<1>4. b = k
  BY <1>1, <1>3 DEF IsBase
<1>5. QED BY <1>2, <1>3, <1>4

\* The base is an example of the list.
LEMMA BaseIsExample ==
    ASSUME NEW s, Listed(s), HasBase(s)
    PROVE  Base(s) \in Range(s) /\ Example(Base(s))
<1>1. PICK k \in 1..Len(s) : IsBase(s, k) /\ Base(s) = s[k]
  BY BaseIsFirst
<1>2. QED BY <1>1, ListPlaces DEF IsBase

\* What is kept has the same base if the base is kept.
LEMMA KeptBase ==
    ASSUME NEW s, Listed(s), NEW places, NEW k \in 1..Len(s), IsBase(s, k), k \in places
    PROVE  HasBase(Kept(s, places)) /\ Base(Kept(s, places)) = s[k]
<1> DEFINE t == Kept(s, places)
<1>1. Selects(s, places, Len(s), t)
  BY KeptSelects
<1> HIDE DEF t
<1>2. PICK e : Embeds(s, places, Len(s), t, e)
  BY <1>1 DEF Selects
<1>3. /\ Listed(t) /\ Len(t) \in Nat /\ DOMAIN t = 1..Len(t)
      /\ Len(s) \in Nat /\ DOMAIN s = 1..Len(s)
  BY <1>1, ListPlaces DEF Selects
<1>4. PICK i \in 1..Len(t) : e[i] = k
  BY <1>2 DEF Embeds
<1>5. t[i] = s[k] /\ Example(t[i])
  BY <1>2, <1>4 DEF Embeds, IsBase
<1>6. ASSUME NEW j \in 1..Len(t), j < i PROVE ~Example(t[j])
  <2>1. e[j] \in 1..Len(s) /\ e[j] < k /\ t[j] = s[e[j]]
    BY <1>2, <1>4, <1>6 DEF Embeds
  <2>2. QED BY <1>3, <2>1 DEF IsBase
<1>7. IsBase(t, i)
  BY <1>3, <1>5, <1>6 DEF IsBase
<1>8. QED BY <1>3, <1>5, <1>7, BaseAt DEF t

-----------------------------------------------------------------------------
(* What the later repairs append.                                           *)

\* A list with nothing but rejecting negatives at its end.
Extends(t, s) ==
    /\ Listed(s) /\ Listed(t) /\ Len(s) <= Len(t)
    /\ \A k \in 1..Len(s) : t[k] = s[k]
    /\ \A k \in 1..Len(t) : k > Len(s) => t[k].kind = "negative" /\ t[k].expected = "reject"

LEMMA ExtendsItself ==
    ASSUME NEW s, Listed(s)
    PROVE  Extends(s, s)
<1>1. Len(s) \in Nat
  BY ListPlaces
<1>2. QED BY <1>1 DEF Extends

\* A mutated fixture at the end of an extended list extends it too.
LEMMA RejectingExtends ==
    ASSUME NEW s, NEW t, Extends(t, s), NEW params
    PROVE  Extends(Append(t, Rejecting(params)), s)
<1> DEFINE x == Rejecting(params)
           u == Append(t, x)
<1>1. x.kind = "negative" /\ x.expected = "reject"
  BY DEF Rejecting
<1> HIDE DEF x
<1>2. Listed(s) /\ Listed(t) /\ Len(s) \in Nat /\ Len(t) \in Nat /\ Len(s) <= Len(t)
  BY ListPlaces DEF Extends
<1>3. /\ Listed(u) /\ Len(u) = Len(t) + 1 /\ u[Len(t) + 1] = x
      /\ \A k \in 1..Len(t) : u[k] = t[k]
  BY <1>2, AppendToList
<1> HIDE DEF u
<1>4. \A k \in 1..Len(s) : u[k] = s[k]
  BY <1>2, <1>3 DEF Extends
<1>5. ASSUME NEW k \in 1..Len(u), k > Len(s)
      PROVE  u[k].kind = "negative" /\ u[k].expected = "reject"
  <2>1. CASE k = Len(t) + 1
    BY <1>1, <1>3, <2>1
  <2>2. CASE k # Len(t) + 1
    <3>1. k \in 1..Len(t) /\ u[k] = t[k]
      BY <1>2, <1>3, <2>2
    <3>2. QED BY <1>5, <3>1 DEF Extends
  <2>3. QED BY <2>1, <2>2
<1>6. Len(s) <= Len(u)
  BY <1>2, <1>3
<1>7. Extends(u, s)
  BY <1>2, <1>3, <1>4, <1>5, <1>6 DEF Extends
<1>8. QED BY <1>7 DEF u, x

\* An extended list has all that the list has, and the same base.
LEMMA ExtendsKeeps ==
    ASSUME NEW s, NEW t, Extends(t, s)
    PROVE  /\ Range(s) \subseteq Range(t)
           /\ \A k \in 1..Len(t) : t[k].kind = "positive" => k \in 1..Len(s) /\ t[k] = s[k]
           /\ HasBase(s) => HasBase(t) /\ Base(t) = Base(s)
<1>1. /\ Listed(s) /\ Len(s) \in Nat /\ DOMAIN s = 1..Len(s)
      /\ Listed(t) /\ Len(t) \in Nat /\ DOMAIN t = 1..Len(t) /\ Len(s) <= Len(t)
      /\ \A x : x \in Range(s) <=> \E k \in 1..Len(s) : s[k] = x
      /\ \A x : x \in Range(t) <=> \E k \in 1..Len(t) : t[k] = x
  BY ListPlaces DEF Extends
<1>2. \A k \in 1..Len(s) : k \in 1..Len(t) /\ t[k] = s[k]
  BY <1>1 DEF Extends
<1>3. Range(s) \subseteq Range(t)
  BY <1>1, <1>2
<1>4. ASSUME NEW k \in 1..Len(t), t[k].kind = "positive" PROVE k \in 1..Len(s) /\ t[k] = s[k]
  <2>1. ~(k > Len(s))
    BY <1>4 DEF Extends
  <2>2. QED BY <1>1, <1>2, <2>1
<1>5. ASSUME HasBase(s) PROVE HasBase(t) /\ Base(t) = Base(s)
  <2>1. PICK k \in 1..Len(s) : IsBase(s, k) /\ Base(s) = s[k]
    BY <1>1, <1>5, BaseIsFirst
  <2>2. k \in 1..Len(t) /\ t[k] = s[k]
    BY <1>2
  <2>3. ASSUME NEW j \in 1..Len(t), j < k PROVE ~Example(t[j])
    <3>1. j \in 1..Len(s) /\ t[j] = s[j]
      BY <1>1, <1>2, <2>3
    <3>2. QED BY <1>1, <2>1, <2>3, <3>1 DEF IsBase
  <2>4. IsBase(t, k)
    BY <1>1, <2>1, <2>2, <2>3 DEF IsBase
  <2>5. QED BY <1>1, <2>1, <2>2, <2>4, BaseAt
<1>6. QED BY <1>3, <1>4, <1>5

\* A negative is appended, or nothing.
LEMMA NegativeExtends ==
    ASSUME NEW document, NEW s, Listed(s)
    PROVE  Extends(EnsureNegative(document, s), s)
BY ExtendsItself, RejectingExtends DEF EnsureNegative

\* So it is with the witness of one predicate.
LEMMA OneWitnessExtends ==
    ASSUME NEW p, NEW index, NEW s, NEW t, Extends(t, s)
    PROVE  Extends(WithWitness(p, t, index), s)
BY RejectingExtends DEF WithWitness, WithRejecting

\* The first n predicates have been looked at.
Witnessing(p, s, f, n) ==
    f = [k \in 0..n |-> IF k = 0 THEN s ELSE WithWitness(p, f[k - 1], k)]

\* Every number of predicates can be looked at: induction on it.
LEMMA WitnessingExists ==
    ASSUME NEW p, NEW s
    PROVE  \A n \in Nat : \E f : Witnessing(p, s, f, n)
<1> DEFINE S == {n \in Nat : \E f : Witnessing(p, s, f, n)}
<1>1. 0 \in S
  <2> DEFINE g == [k \in 0..0 |-> s]
  <2>1. ASSUME NEW k \in 0..0
        PROVE g[k] = IF k = 0 THEN s ELSE WithWitness(p, g[k - 1], k)
    OBVIOUS
  <2>2. Witnessing(p, s, g, 0)
    BY <2>1 DEF Witnessing
  <2>3. QED BY <2>2
<1>2. ASSUME NEW n \in Nat, n \in S PROVE n + 1 \in S
  <2>1. PICK f : Witnessing(p, s, f, n)
    BY <1>2
  <2> DEFINE x == WithWitness(p, f[n], n + 1)
             g == [k \in 0..(n + 1) |-> IF k = n + 1 THEN x ELSE f[k]]
  <2> HIDE DEF x
  <2>2. ASSUME NEW k \in 0..(n + 1)
        PROVE g[k] = IF k = 0 THEN s ELSE WithWitness(p, g[k - 1], k)
    <3>1. CASE k = n + 1
      <4>1. k # 0 /\ k - 1 = n /\ n \in 0..(n + 1) /\ n # n + 1
        BY <3>1
      <4>2. g[k] = x /\ g[k - 1] = f[n]
        BY <4>1, <3>1
      <4>3. QED BY <3>1, <4>1, <4>2 DEF x
    <3>2. CASE k # n + 1
      <4>1. k \in 0..n /\ (k # 0 => k - 1 \in 0..n)
        BY <3>2
      <4>2. f[k] = IF k = 0 THEN s ELSE WithWitness(p, f[k - 1], k)
        BY <4>1, <2>1 DEF Witnessing
      <4>3. g[k] = f[k] /\ (k # 0 => g[k - 1] = f[k - 1])
        BY <4>1
      <4>4. QED BY <4>2, <4>3
    <3>3. QED BY <3>1, <3>2
  <2>3. Witnessing(p, s, g, n + 1)
    BY <2>2 DEF Witnessing
  <2>4. QED BY <2>3
<1>3. QED
  <2> HIDE DEF S
  <2>1. Nat \subseteq S BY <1>1, <1>2, NatInd
  <2>2. QED BY <2>1 DEF S

\* The witnesses are those of one predicate after the other.
LEMMA WitnessesAre ==
    ASSUME NEW p, NEW s, Len(p.guard) \in Nat
    PROVE  \E f : /\ f[0] = s
                  /\ \A n \in Nat : n + 1 <= Len(p.guard) => f[n + 1] = WithWitness(p, f[n], n + 1)
                  /\ \/ EnsureWitnesses(p, s) = s
                     \/ EnsureWitnesses(p, s) = f[Len(p.guard)]
<1> DEFINE f == CHOOSE f : Witnessing(p, s, f, Len(p.guard))
<1>1. Witnessing(p, s, f, Len(p.guard))
  BY WitnessingExists
<1>2. EnsureWitnesses(p, s) = s \/ EnsureWitnesses(p, s) = f[Len(p.guard)]
  BY DEF EnsureWitnesses, Witnessing
<1> HIDE DEF f
<1>3. \A k \in 0..Len(p.guard) : f[k] = IF k = 0 THEN s ELSE WithWitness(p, f[k - 1], k)
  BY <1>1 DEF Witnessing
<1>4. f[0] = s
  <2>1. 0 \in 0..Len(p.guard)
    OBVIOUS
  <2>2. QED BY <1>3, <2>1
<1>5. ASSUME NEW n \in Nat, n + 1 <= Len(p.guard) PROVE f[n + 1] = WithWitness(p, f[n], n + 1)
  <2>1. n + 1 \in 0..Len(p.guard) /\ n + 1 # 0 /\ (n + 1) - 1 = n
    BY <1>5
  <2>2. QED BY <1>3, <2>1
<1>6. QED BY <1>2, <1>4, <1>5

\* The witnesses are appended to what is there: induction on the predicates.
LEMMA WitnessesExtend ==
    ASSUME NEW p, NEW s, Listed(s), Len(p.guard) \in Nat
    PROVE  Extends(EnsureWitnesses(p, s), s)
<1>1. PICK f : /\ f[0] = s
               /\ \A n \in Nat : n + 1 <= Len(p.guard) => f[n + 1] = WithWitness(p, f[n], n + 1)
               /\ EnsureWitnesses(p, s) = s \/ EnsureWitnesses(p, s) = f[Len(p.guard)]
  BY WitnessesAre
<1> DEFINE S == {n \in Nat : n <= Len(p.guard) => Extends(f[n], s)}
<1>2. 0 \in S
  BY <1>1, ExtendsItself
<1>3. ASSUME NEW n \in Nat, n \in S PROVE n + 1 \in S
  <2>1. SUFFICES ASSUME n + 1 <= Len(p.guard) PROVE Extends(f[n + 1], s)
    OBVIOUS
  <2>2. Extends(f[n], s)
    BY <1>3, <2>1
  <2> HIDE DEF S
  <2>3. Extends(WithWitness(p, f[n], n + 1), s)
    BY <2>2, OneWitnessExtends
  <2>4. QED BY <1>1, <2>1, <2>3
<1>4. Len(p.guard) \in S
  <2> HIDE DEF S
  <2>1. QED BY <1>2, <1>3, NatInd
<1>5. Extends(f[Len(p.guard)], s)
  BY <1>4
<1>6. QED BY <1>1, <1>5, ExtendsItself

\* Where every predicate has its witness nothing is added.
LEMMA WitnessesAtHand ==
    ASSUME NEW p, NEW s, Len(p.guard) \in Nat,
           \A k \in 1..Len(p.guard) : k \in Witnessed(p, s)
    PROVE  EnsureWitnesses(p, s) = s
<1>1. PICK f : /\ f[0] = s
               /\ \A n \in Nat : n + 1 <= Len(p.guard) => f[n + 1] = WithWitness(p, f[n], n + 1)
               /\ EnsureWitnesses(p, s) = s \/ EnsureWitnesses(p, s) = f[Len(p.guard)]
  BY WitnessesAre
<1> DEFINE S == {n \in Nat : n <= Len(p.guard) => f[n] = s}
<1>2. 0 \in S
  BY <1>1
<1>3. ASSUME NEW n \in Nat, n \in S PROVE n + 1 \in S
  <2>1. SUFFICES ASSUME n + 1 <= Len(p.guard) PROVE f[n + 1] = s
    OBVIOUS
  <2>2. f[n] = s /\ n + 1 \in 1..Len(p.guard)
    BY <1>3, <2>1
  <2> HIDE DEF S
  <2>3. WithWitness(p, s, n + 1) = s
    BY <2>2 DEF WithWitness
  <2>4. QED BY <1>1, <2>1, <2>2, <2>3
<1>4. Len(p.guard) \in S
  <2> HIDE DEF S
  <2>1. QED BY <1>2, <1>3, NatInd
<1>5. QED BY <1>1, <1>4

-----------------------------------------------------------------------------
(* The two drops, and the whole repair.                                     *)

\* What is to be kept when what is not grounded is dropped.
NotSpeculative(p, s) == {k \in DOMAIN s : ~Speculative(p, s[k])}

\* What is to be kept when duplicates are.
FirstOfEach(s) ==
    {k \in DOMAIN s : s[k].kind = "positive" => s[k].observation # None /\ ~Repeats(s, k)}

\* What a proposal has to be for the lemmas.
Handed(p) ==
    /\ Listed(p.fixtures) /\ Listed(p.guard)
    /\ Len(p.guard) \in Nat /\ DOMAIN p.guard = 1..Len(p.guard)

LEMMA ProposalsAreHanded ==
    ASSUME NEW n \in DOMAIN Proposals
    PROVE  Proposals[n] \in Range(Proposals) /\ Handed(Proposals[n])
<1>1. Proposals[n] \in Range(Proposals)
  BY DEF Range
<1>2. Listed(Proposals[n].fixtures) /\ Listed(Proposals[n].guard)
  BY <1>1, ProposalsAssumption DEF Listed
<1>3. QED BY <1>1, <1>2, ListPlaces DEF Handed

\* Dropping what is not grounded leaves all that is not speculative, and no more
\* where the guard compiles.
LEMMA UngroundedAreDropped ==
    ASSUME NEW p, NEW s, Listed(s), GuardIsSound(p.document, p.guard)
    PROVE  /\ Listed(DropUngrounded(p, s))
           /\ \A x : x \in Range(DropUngrounded(p, s)) <=> x \in Range(s) /\ ~Speculative(p, x)
<1>1. DropUngrounded(p, s) = Kept(s, NotSpeculative(p, s))
  BY DEF DropUngrounded, NotSpeculative
<1>2. DOMAIN s = 1..Len(s) /\ \A x : x \in Range(s) <=> \E k \in 1..Len(s) : s[k] = x
  BY ListPlaces
<1>3. \A k \in 1..Len(s) : k \in NotSpeculative(p, s) <=> ~Speculative(p, s[k])
  BY <1>2 DEF NotSpeculative
<1> DEFINE places == NotSpeculative(p, s)
<1> HIDE DEF places
<1>4. /\ Listed(Kept(s, places))
      /\ \A x : x \in Range(Kept(s, places)) <=> \E k \in 1..Len(s) : k \in places /\ s[k] = x
  BY KeptElements
<1>5. QED BY <1>1, <1>2, <1>3, <1>4 DEF places

\* Whether or not it compiles, what is left is a list of fixtures that were there.
LEMMA DropUngroundedIsListed ==
    ASSUME NEW p, NEW s, Listed(s)
    PROVE  Listed(DropUngrounded(p, s)) /\ Range(DropUngrounded(p, s)) \subseteq Range(s)
<1>1. CASE GuardIsSound(p.document, p.guard)
  BY <1>1, UngroundedAreDropped
<1>2. CASE ~GuardIsSound(p.document, p.guard)
  BY <1>2 DEF DropUngrounded
<1>3. QED BY <1>1, <1>2

\* Dropping duplicates leaves a list of fixtures that were there, with every one
\* that is no positive.
LEMMA DuplicatesAreDropped ==
    ASSUME NEW s, Listed(s)
    PROVE  /\ Listed(DropDuplicates(s))
           /\ Range(DropDuplicates(s)) \subseteq Range(s)
           /\ \A x \in Range(s) : x.kind # "positive" => x \in Range(DropDuplicates(s))
           /\ \A k \in FirstOfEach(s) : s[k] \in Range(DropDuplicates(s))
<1>1. DropDuplicates(s) = Kept(s, FirstOfEach(s))
  BY DEF DropDuplicates, FirstOfEach
<1>2. DOMAIN s = 1..Len(s) /\ \A x : x \in Range(s) <=> \E k \in 1..Len(s) : s[k] = x
  BY ListPlaces
<1>3. \A k \in 1..Len(s) : s[k].kind # "positive" => k \in FirstOfEach(s)
  BY <1>2 DEF FirstOfEach
<1>4. FirstOfEach(s) \subseteq 1..Len(s)
  BY <1>2 DEF FirstOfEach
<1> DEFINE places == FirstOfEach(s)
<1> HIDE DEF places
<1>5. /\ Listed(Kept(s, places))
      /\ \A x : x \in Range(Kept(s, places)) <=> \E k \in 1..Len(s) : k \in places /\ s[k] = x
  BY KeptElements
<1>6. QED BY <1>1, <1>2, <1>3, <1>4, <1>5 DEF places

\* No two positives that are left are of one observation, and each has one.
LEMMA OnePositiveEach ==
    ASSUME NEW s, Listed(s)
    PROVE  LET t == DropDuplicates(s)
           IN  /\ \A i \in 1..Len(t) : t[i].kind = "positive" => t[i].observation # None
               /\ \A i, j \in 1..Len(t) :
                     /\ t[i].kind = "positive" /\ t[j].kind = "positive"
                     /\ t[i].observation = t[j].observation
                     => i = j
<1> DEFINE t == DropDuplicates(s)
<1>1. t = Kept(s, FirstOfEach(s))
  BY DEF DropDuplicates, FirstOfEach
<1> HIDE DEF t
<1>2. Selects(s, FirstOfEach(s), Len(s), t)
  BY <1>1, KeptSelects
<1>3. PICK e : Embeds(s, FirstOfEach(s), Len(s), t, e)
  BY <1>2 DEF Selects
<1>4. Len(t) \in Nat /\ Len(s) \in Nat /\ DOMAIN s = 1..Len(s)
  BY <1>2, ListPlaces DEF Selects
<1>5. \A i \in 1..Len(t) : /\ e[i] \in 1..Len(s) /\ t[i] = s[e[i]]
                           /\ t[i].kind = "positive" =>
                                 t[i].observation # None /\ ~Repeats(s, e[i])
  BY <1>3 DEF Embeds, FirstOfEach
<1>6. ASSUME NEW i \in 1..Len(t), NEW j \in 1..Len(t), i < j,
             t[i].kind = "positive", t[j].kind = "positive",
             t[i].observation = t[j].observation
      PROVE  FALSE
  <2>1. e[i] < e[j]
    BY <1>3, <1>6 DEF Embeds
  <2>2. Repeats(s, e[j])
    BY <1>4, <1>5, <1>6, <2>1 DEF Repeats
  <2>3. QED BY <1>5, <1>6, <2>2
<1>7. ASSUME NEW i \in 1..Len(t), NEW j \in 1..Len(t),
             t[i].kind = "positive", t[j].kind = "positive",
             t[i].observation = t[j].observation
      PROVE  i = j
  <2>1. ~(i < j)
    BY <1>6, <1>7
  <2>2. ~(j < i)
    BY <1>6, <1>7
  <2>3. QED BY <2>1, <2>2
<1>8. QED BY <1>5, <1>7 DEF t

\* What the drops leave is a list of fixtures that were proposed.
LEMMA DroppedIsListed ==
    ASSUME NEW p, Handed(p)
    PROVE  Listed(Dropped(p)) /\ Range(Dropped(p)) \subseteq Range(p.fixtures)
<1>1. Listed(p.fixtures)
  BY DEF Handed
<1>2. /\ Listed(DropUngrounded(p, p.fixtures))
      /\ Range(DropUngrounded(p, p.fixtures)) \subseteq Range(p.fixtures)
  BY <1>1, DropUngroundedIsListed
<1>3. QED BY <1>2, DuplicatesAreDropped DEF Dropped

\* The repair adds nothing but negatives to what the drops leave.
LEMMA RepairExtends ==
    ASSUME NEW p, Handed(p)
    PROVE  Listed(Dropped(p)) /\ Listed(Repair(p)) /\ Extends(Repair(p), Dropped(p))
<1> DEFINE d == Dropped(p)
           n == EnsureNegative(p.document, d)
<1>1. Listed(d)
  BY DroppedIsListed
<1>2. Extends(n, d)
  BY <1>1, NegativeExtends
<1> HIDE DEF d, n
<1>3. Listed(n) /\ Len(p.guard) \in Nat
  BY <1>2 DEF Extends, Handed
<1>4. Extends(EnsureWitnesses(p, n), n)
  BY <1>3, WitnessesExtend
<1> DEFINE r == EnsureWitnesses(p, n)
<1> HIDE DEF r
<1>5. Extends(r, n)
  BY <1>4 DEF r
<1>6. Extends(r, d)
  <2>1. Len(d) \in Nat /\ Len(n) \in Nat /\ Len(r) \in Nat
    BY <1>2, <1>5, ListPlaces DEF Extends
  <2>2. Len(d) <= Len(n) /\ Len(n) <= Len(r) /\ Listed(d) /\ Listed(r)
    BY <1>2, <1>5 DEF Extends
  <2>3. \A k \in 1..Len(d) : r[k] = d[k]
    <3>1. \A k \in 1..Len(d) : k \in 1..Len(n) /\ n[k] = d[k]
      BY <1>2, <2>1, <2>2 DEF Extends
    <3>2. QED BY <1>5, <3>1 DEF Extends
  <2>4. ASSUME NEW k \in 1..Len(r), k > Len(d)
        PROVE  r[k].kind = "negative" /\ r[k].expected = "reject"
    <3>1. CASE k > Len(n)
      BY <1>5, <3>1 DEF Extends
    <3>2. CASE ~(k > Len(n))
      <4>1. k \in 1..Len(n) /\ r[k] = n[k]
        BY <1>5, <2>1, <3>2 DEF Extends
      <4>2. QED BY <1>2, <2>4, <4>1 DEF Extends
    <3>3. QED BY <3>1, <3>2
  <2>5. QED BY <2>1, <2>2, <2>3, <2>4 DEF Extends
<1>7. QED BY <1>1, <1>6 DEF Extends, Repair, r, n, d
-----------------------------------------------------------------------------
(* Sound examples survive.                                                  *)

\* What is sound does not speculate.
LEMMA SoundIsNotSpeculative ==
    ASSUME NEW p, NEW f, Sound(p, f)
    PROVE  ~Speculative(p, f)
BY DEF Sound, FixturePasses, Speculative, Example

\* What is well formed and does not speculate is sound.
LEMMA WellFormedIsSound ==
    ASSUME NEW p, NEW f, f.kind = "positive", f.observation # None, f.expected = "accept",
           Accepts(p.document, p.guard, f.params), ~Speculative(p, f)
    PROVE  Sound(p, f)
BY DEF Sound, FixturePasses, Speculative, Example

\* The first positive of an observation is kept.
LEMMA FirstOfItsObservation ==
    ASSUME NEW s, Listed(s), NEW o, o # None,
           \E x \in Range(s) : x.kind = "positive" /\ x.observation = o
    PROVE  \E x \in Range(s) : /\ x \in Range(DropDuplicates(s))
                               /\ x.kind = "positive" /\ x.observation = o
<1>1. /\ Len(s) \in Nat /\ DOMAIN s = 1..Len(s)
      /\ \A x : x \in Range(s) <=> \E k \in 1..Len(s) : s[k] = x
  BY ListPlaces
<1> DEFINE T == {k \in 1..Len(s) : s[k].kind = "positive" /\ s[k].observation = o}
<1>2. T \subseteq Nat /\ T # {}
  BY <1>1
<1>3. PICK k \in T : \A y \in T : k <= y
  <2> HIDE DEF T
  <2>1. QED BY <1>2, LeastNat
<1>4. k \in 1..Len(s) /\ s[k].kind = "positive" /\ s[k].observation = o
  OBVIOUS
<1>5. ~Repeats(s, k)
  <2>1. SUFFICES ASSUME NEW j \in 1..Len(s), j < k, s[j].kind = "positive",
                        s[j].observation = s[k].observation
                 PROVE  FALSE
    BY <1>1 DEF Repeats
  <2>2. j \in T
    BY <1>4, <2>1
  <2>3. k <= j
    BY <1>3, <2>2
  <2>4. QED BY <1>4, <2>1, <2>3
<1>6. k \in FirstOfEach(s)
  BY <1>1, <1>4, <1>5 DEF FirstOfEach
<1>7. s[k] \in Range(DropDuplicates(s))
  BY <1>6, DuplicatesAreDropped
<1>8. QED BY <1>1, <1>4, <1>7

\* What is sound for a proposal is so when its fixtures are others.
LEMMA SoundWithOthers ==
    ASSUME NEW p, NEW s, NEW f
    PROVE  /\ Sound(WithFixtures(p, s), f) <=> Sound(p, f)
           /\ FixturePasses(WithFixtures(p, s), f) <=> FixturePasses(p, f)
           /\ WithFixtures(p, s).fixtures = s
BY DEF WithFixtures, Sound, FixturePasses

\* The repair of a proposal leaves a sound example of an observation that has one,
\* and no ill-formed one.
LEMMA RepairKeepsSound ==
    ASSUME NEW p, Handed(p), GuardIsSound(p.document, p.guard), NEW o,
           SoundIsAmong(o, p), AllWellFormed(o, p)
    PROVE  SoundIsAmong(o, WithFixtures(p, Repair(p)))
<1> DEFINE u == DropUngrounded(p, p.fixtures)
<1>1. PICK f \in Range(p.fixtures) : f.observation = o /\ Sound(p, f)
  BY DEF SoundIsAmong
<1>2. o # None /\ f.kind = "positive"
  BY <1>1 DEF Sound, Example
<1>3. Listed(u) /\ \A x : x \in Range(u) <=> x \in Range(p.fixtures) /\ ~Speculative(p, x)
  BY UngroundedAreDropped DEF Handed
<1>4. f \in Range(u)
  BY <1>1, <1>3, SoundIsNotSpeculative
<1>5. Dropped(p) = DropDuplicates(u)
  BY DEF Dropped
<1> HIDE DEF u
<1>6. PICK x \in Range(u) : /\ x \in Range(Dropped(p))
                            /\ x.kind = "positive" /\ x.observation = o
  BY <1>1, <1>2, <1>3, <1>4, <1>5, FirstOfItsObservation
<1>7. x \in Range(p.fixtures) /\ ~Speculative(p, x)
  BY <1>3, <1>6
<1>8. x.expected = "accept" /\ Accepts(p.document, p.guard, x.params)
  BY <1>6, <1>7 DEF AllWellFormed
<1>9. Sound(p, x)
  BY <1>2, <1>6, <1>7, <1>8, WellFormedIsSound
<1>10. x \in Range(Repair(p))
  BY <1>6, RepairExtends, ExtendsKeeps
<1>11. QED BY <1>6, <1>9, <1>10, SoundWithOthers DEF SoundIsAmong

-----------------------------------------------------------------------------
(* What a verdict says.                                                     *)

\* What passes compiles, its fixtures pass, each predicate has a witness and the
\* first example is answered.
Passing(p) ==
    /\ DocumentsCompile(p)
    /\ \A f \in Range(p.fixtures) : FixturePasses(p, f)
    /\ DOMAIN p.guard \subseteq Witnessed(p, p.fixtures)
    /\ HasBase(p.fixtures)
    /\ AnswerTo(p.document, p.answer, Base(p.fixtures).params) # None

LEMMA VerdictPassed ==
    ASSUME NEW p
    PROVE  Verdict(p) = "passed" <=> Passing(p)
<1>1. PreviewVerdict(p) = "passed" <=>
         /\ HasBase(p.fixtures)
         /\ AnswerTo(p.document, p.answer, Base(p.fixtures).params) # None
  BY DEF PreviewVerdict
<1>2. Verdict(p) = "passed" <=>
         /\ DocumentsCompile(p)
         /\ ~\E f \in Range(p.fixtures) : ~FixturePasses(p, f)
         /\ DOMAIN p.guard \subseteq Witnessed(p, p.fixtures)
         /\ PreviewVerdict(p) = "passed"
  BY DEF Verdict
<1>3. QED BY <1>1, <1>2 DEF Passing

\* No verdict is that of a repair that raises.
LEMMA VerdictIsNotRaised ==
    ASSUME NEW p
    PROVE  Verdict(p) # "raises"
BY DEF Verdict, PreviewVerdict

-----------------------------------------------------------------------------
(* The repairs only help.                                                   *)

\* Among fixtures that pass, none speculates.
LEMMA PassingIsNotSpeculative ==
    ASSUME NEW p, NEW f, FixturePasses(p, f)
    PROVE  ~Speculative(p, f)
BY DEF FixturePasses, Speculative, Example

\* A first drop that drops nothing has the same base.
LEMMA UngroundedKeepsBase ==
    ASSUME NEW p, NEW s, Listed(s), HasBase(s), GuardIsSound(p.document, p.guard),
           \A f \in Range(s) : ~Speculative(p, f)
    PROVE  HasBase(DropUngrounded(p, s)) /\ Base(DropUngrounded(p, s)) = Base(s)
<1>1. DropUngrounded(p, s) = Kept(s, NotSpeculative(p, s))
  BY DEF DropUngrounded, NotSpeculative
<1>2. PICK k \in 1..Len(s) : IsBase(s, k) /\ Base(s) = s[k]
  BY BaseIsFirst
<1>3. k \in NotSpeculative(p, s)
  BY <1>2, ListPlaces DEF NotSpeculative
<1>4. QED BY <1>1, <1>2, <1>3, KeptBase

\* Nor is the first example dropped as a duplicate, where every positive is one.
LEMMA DuplicatesKeepBase ==
    ASSUME NEW s, Listed(s), HasBase(s),
           \A f \in Range(s) : f.kind = "positive" => f.observation # None /\ f.expected = "accept"
    PROVE  HasBase(DropDuplicates(s)) /\ Base(DropDuplicates(s)) = Base(s)
<1>1. DropDuplicates(s) = Kept(s, FirstOfEach(s))
  BY DEF DropDuplicates, FirstOfEach
<1>2. DOMAIN s = 1..Len(s) /\ \A x : x \in Range(s) <=> \E k \in 1..Len(s) : s[k] = x
  BY ListPlaces
<1>3. PICK k \in 1..Len(s) : IsBase(s, k) /\ Base(s) = s[k]
  BY BaseIsFirst
<1>4. s[k].observation # None
  BY <1>2, <1>3 DEF IsBase, Example
<1>5. ~Repeats(s, k)
  <2>1. SUFFICES ASSUME NEW j \in 1..Len(s), j < k, s[j].kind = "positive" PROVE FALSE
    BY <1>2 DEF Repeats
  <2>2. Example(s[j])
    BY <1>2, <2>1 DEF Example
  <2>3. QED BY <1>2, <1>3, <2>1, <2>2 DEF IsBase
<1>6. k \in FirstOfEach(s)
  BY <1>2, <1>4, <1>5 DEF FirstOfEach
<1>7. QED BY <1>1, <1>3, <1>6, KeptBase

\* What holds of the fixtures left of a proposal that passes: its rejecting ones and
\* those that are no positives are all there, and its first example is the first.
LEMMA DroppedOfPassing ==
    ASSUME NEW p, Handed(p), Passing(p), PositivesAreExamples(p)
    PROVE  /\ HasBase(Dropped(p)) /\ Base(Dropped(p)) = Base(p.fixtures)
           /\ \A f \in Range(p.fixtures) : f.kind # "positive" => f \in Range(Dropped(p))
           /\ \A f \in Range(p.fixtures) : f.expected = "reject" => f \in Range(Dropped(p))
<1> DEFINE s == p.fixtures
           u == DropUngrounded(p, s)
<1>1. Listed(s) /\ HasBase(s) /\ GuardIsSound(p.document, p.guard)
  BY DEF Handed, Passing, DocumentsCompile
<1>2. \A f \in Range(s) : ~Speculative(p, f)
  BY PassingIsNotSpeculative DEF Passing
<1>3. HasBase(u) /\ Base(u) = Base(s)
  BY <1>1, <1>2, UngroundedKeepsBase
<1>4. Listed(u) /\ \A x : x \in Range(u) <=> x \in Range(s)
  BY <1>1, <1>2, UngroundedAreDropped
<1>5. Dropped(p) = DropDuplicates(u)
  BY DEF Dropped
<1>6. \A f \in Range(s) : f.kind = "positive" => f.observation # None /\ f.expected = "accept"
  BY DEF PositivesAreExamples
<1> HIDE DEF u, s
<1>7. HasBase(Dropped(p)) /\ Base(Dropped(p)) = Base(s)
  BY <1>3, <1>4, <1>5, <1>6, DuplicatesKeepBase
<1>8. \A f \in Range(s) : f.kind # "positive" => f \in Range(Dropped(p))
  BY <1>4, <1>5, DuplicatesAreDropped
<1>9. \A f \in Range(s) : f.expected = "reject" => f \in Range(Dropped(p))
  BY <1>6, <1>8
<1>10. QED BY <1>7, <1>8, <1>9 DEF s

\* Witnesses are those of all rejecting fixtures.
LEMMA WitnessedGrows ==
    ASSUME NEW p, NEW s, NEW t, \A f \in Range(s) : f.expected = "reject" => f \in Range(t)
    PROVE  Witnessed(p, s) \subseteq Witnessed(p, t)
BY DEF Witnessed

\* What is witnessed does not depend on the proposal's other fixtures.
LEMMA WitnessedWithOthers ==
    ASSUME NEW p, NEW s, NEW t
    PROVE  Witnessed(WithFixtures(p, s), t) = Witnessed(p, t)
BY DEF Witnessed, WithFixtures

\* A negative that is added passes, for its values violate a bound.
LEMMA RejectingPasses ==
    ASSUME NEW p, NEW params, ~Accepts(p.document, p.guard, params)
    PROVE  FixturePasses(p, Rejecting(params))
BY DEF FixturePasses, Rejecting, Example

\* The negative of a proposal that passes can be made, and passes.
LEMMA NegativeOfPassing ==
    ASSUME NEW p \in Range(Proposals), Handed(p), Passing(p), PositivesAreExamples(p),
           NegativeAtHand(p)
    PROVE  /\ ~Raises(p)
           /\ \A f \in Range(EnsureNegative(p.document, Dropped(p))) : FixturePasses(p, f)
<1> DEFINE d == Dropped(p)
           params == Violating(p.document, Base(p.fixtures).params)
<1>1. HasBase(d) /\ Base(d) = Base(p.fixtures)
  BY DroppedOfPassing
<1>2. \A f \in Range(p.fixtures) : f.kind = "negative" => f \in Range(d)
  BY DroppedOfPassing
<1>3. Listed(d) /\ Range(d) \subseteq Range(p.fixtures)
  BY DroppedIsListed
<1>4. \A f \in Range(d) : FixturePasses(p, f)
  BY <1>3 DEF Passing
<1>5. NeedsNegative(d) => params # None
  BY <1>2 DEF NeedsNegative, NegativeAtHand
<1>6. ~Raises(p)
  BY <1>1, <1>5 DEF Raises
<1>7. CASE ~NeedsNegative(d)
  BY <1>4, <1>6, <1>7 DEF EnsureNegative
<1>8. CASE NeedsNegative(d)
  <2>1. Base(p.fixtures) \in Range(p.fixtures)
    BY BaseIsExample DEF Handed, Passing
  <2>2. ~Accepts(p.document, p.guard, params)
    BY <1>5, <1>8, <2>1, BoundsAssumption DEF Passing, DocumentsCompile
  <2>3. EnsureNegative(p.document, d) = Append(d, Rejecting(params))
    BY <1>1, <1>8 DEF EnsureNegative
  <2> HIDE DEF d, params
  <2> DEFINE x == Rejecting(params)
             n == Append(d, x)
  <2>4. FixturePasses(p, x)
    BY <2>2, RejectingPasses
  <2> HIDE DEF x
  <2>5. /\ Listed(n) /\ Len(n) = Len(d) + 1 /\ n[Len(d) + 1] = x
        /\ \A k \in 1..Len(d) : n[k] = d[k]
    BY <1>3, AppendToList
  <2> HIDE DEF n
  <2>6. ASSUME NEW f \in Range(n) PROVE FixturePasses(p, f)
    <3>1. PICK k \in 1..Len(n) : n[k] = f
      BY <2>5, ListPlaces
    <3>2. Len(d) \in Nat
      BY <1>3, ListPlaces
    <3>3. CASE k = Len(d) + 1
      BY <2>4, <2>5, <3>1, <3>3
    <3>4. CASE k # Len(d) + 1
      <4>1. k \in 1..Len(d) /\ d[k] = f
        BY <2>5, <3>1, <3>2, <3>4
      <4>2. f \in Range(d)
        BY <1>3, <4>1, ListPlaces
      <4>3. QED BY <1>4, <4>2
    <3>5. QED BY <3>3, <3>4
  <2>7. EnsureNegative(p.document, d) = n
    BY <2>3 DEF n, x
  <2>8. QED BY <1>6, <2>6, <2>7 DEF d
<1>9. QED BY <1>7, <1>8

\* A proposal that passes as it is passes once it is repaired.
LEMMA RepairKeepsPassing ==
    ASSUME NEW p \in Range(Proposals), Handed(p), Passing(p), PositivesAreExamples(p),
           NegativeAtHand(p)
    PROVE  ~Raises(p) /\ Passing(WithFixtures(p, Repair(p)))
<1> DEFINE d == Dropped(p)
           n == EnsureNegative(p.document, d)
           q == WithFixtures(p, n)
<1>1. ~Raises(p) /\ \A f \in Range(n) : FixturePasses(p, f)
  BY NegativeOfPassing
<1>2. HasBase(d) /\ Base(d) = Base(p.fixtures)
  BY DroppedOfPassing
<1>3. \A f \in Range(p.fixtures) : f.expected = "reject" => f \in Range(d)
  BY DroppedOfPassing
<1>4. Listed(d)
  BY DroppedIsListed
<1>5. Extends(n, d)
  BY <1>4, NegativeExtends
<1>6. Repair(p) = EnsureWitnesses(p, n)
  BY DEF Repair
<1> HIDE DEF n, d
<1>7. HasBase(n) /\ Base(n) = Base(p.fixtures) /\ Range(d) \subseteq Range(n)
  BY <1>2, <1>5, ExtendsKeeps
<1>8. \A f \in Range(p.fixtures) : f.expected = "reject" => f \in Range(n)
  BY <1>3, <1>7
<1>9. DOMAIN p.guard \subseteq Witnessed(p, n)
  <2>1. Witnessed(p, p.fixtures) \subseteq Witnessed(p, n)
    BY <1>8, WitnessedGrows
  <2>2. QED BY <2>1 DEF Passing
<1>10. EnsureWitnesses(p, n) = n
  BY <1>9, WitnessesAtHand DEF Handed
<1>11. /\ q.fixtures = n /\ q.document = p.document /\ q.guard = p.guard /\ q.answer = p.answer
  BY DEF WithFixtures
<1>12. \A f \in Range(n) : FixturePasses(q, f)
  BY <1>1, SoundWithOthers
<1>13. Witnessed(q, n) = Witnessed(p, n)
  BY WitnessedWithOthers
<1> HIDE DEF q
<1>14. DocumentsCompile(q)
  BY <1>11 DEF Passing, DocumentsCompile
<1>15. AnswerTo(q.document, q.answer, Base(n).params) # None
  BY <1>7, <1>11 DEF Passing
<1>16. Passing(q)
  BY <1>7, <1>9, <1>11, <1>12, <1>13, <1>14, <1>15 DEF Passing
<1>17. QED BY <1>1, <1>6, <1>10, <1>16 DEF q

-----------------------------------------------------------------------------
(* What is kept counts once.                                                *)

\* A positive of the repaired fixtures stands at a place of those the drops left.
LEMMA PositivesWereLeft ==
    ASSUME NEW p, Handed(p)
    PROVE  \A k \in 1..Len(Repair(p)) :
              Repair(p)[k].kind = "positive" =>
                  /\ k \in 1..Len(Dropped(p)) /\ Repair(p)[k] = Dropped(p)[k]
                  /\ Repair(p)[k] \in Range(p.fixtures)
<1>1. Listed(Dropped(p)) /\ Extends(Repair(p), Dropped(p))
  BY RepairExtends
<1>2. Range(Dropped(p)) \subseteq Range(p.fixtures)
  BY DroppedIsListed
<1> DEFINE r == Repair(p)
           d == Dropped(p)
<1> HIDE DEF r, d
<1>3. \A k \in 1..Len(r) : r[k].kind = "positive" => k \in 1..Len(d) /\ r[k] = d[k]
  BY <1>1, ExtendsKeeps DEF r, d
<1>4. \A k \in 1..Len(d) : d[k] \in Range(d)
  BY <1>1, ListPlaces DEF d
<1>5. QED BY <1>2, <1>3, <1>4 DEF r, d

\* A proposal that passes once it is repaired has an observation of its own for
\* every positive, its examples are sound, and one has an answer.
LEMMA PassedCountsOnce ==
    ASSUME NEW p \in Range(Proposals), Handed(p), Passing(WithFixtures(p, Repair(p)))
    PROVE  KeepsItsExamples(WithFixtures(p, Repair(p)))
<1> DEFINE r == Repair(p)
           d == Dropped(p)
           q == WithFixtures(p, r)
<1>1. Listed(d) /\ Listed(r)
  BY RepairExtends
<1>2. DOMAIN r = 1..Len(r) /\ \A x : x \in Range(r) <=> \E k \in 1..Len(r) : r[k] = x
  BY <1>1, ListPlaces
<1>3. \A k \in 1..Len(r) : r[k].kind = "positive" =>
          k \in 1..Len(d) /\ r[k] = d[k] /\ r[k] \in Range(p.fixtures)
  BY PositivesWereLeft
<1>4. /\ \A i \in 1..Len(d) : d[i].kind = "positive" => d[i].observation # None
      /\ \A i, j \in 1..Len(d) :
            /\ d[i].kind = "positive" /\ d[j].kind = "positive"
            /\ d[i].observation = d[j].observation
            => i = j
  <2>1. Listed(DropUngrounded(p, p.fixtures))
    BY DropUngroundedIsListed DEF Handed
  <2>2. QED BY <2>1, OnePositiveEach DEF Dropped
<1>5. /\ q.fixtures = r /\ q.document = p.document /\ q.guard = p.guard /\ q.answer = p.answer
  BY DEF WithFixtures
<1>6. Passing(q)
  OBVIOUS
<1> HIDE DEF r, d, q
<1>7. \A k \in 1..Len(r) : FixturePasses(q, r[k])
  BY <1>2, <1>5, <1>6 DEF Passing
<1>8. ASSUME NEW j \in 1..Len(r), NEW k \in 1..Len(r),
             r[j].kind = "positive", r[k].kind = "positive", r[j].observation = r[k].observation
      PROVE  j = k
  BY <1>3, <1>4, <1>8
<1>9. ASSUME NEW k \in 1..Len(r), Example(r[k]) PROVE Sound(q, r[k])
  <2>1. r[k].observation # None
    BY <1>3, <1>4, <1>9 DEF Example
  <2>2. QED BY <1>7, <1>9, <2>1 DEF Sound
<1>10. \E k \in 1..Len(r) : Example(r[k]) /\ k \in ComputableOf(q)
  <2>1. HasBase(r) /\ AnswerTo(p.document, p.answer, Base(r).params) # None
    BY <1>5, <1>6 DEF Passing
  <2>2. PICK k \in 1..Len(r) : IsBase(r, k) /\ Base(r) = r[k]
    BY <1>1, <2>1, BaseIsFirst
  <2>3. Example(r[k])
    BY <2>2 DEF IsBase
  <2>4. r[k] \in Range(p.fixtures) /\ r[k].observation # None
    BY <1>3, <1>4, <2>3 DEF Example
  <2>5. Accepts(p.document, p.guard, r[k].params)
    BY <1>5, <1>7, <2>3 DEF FixturePasses, Example
  <2>6. GuardIsSound(p.document, p.guard) /\ AnswerIsSound(p.document, p.answer)
    BY <1>5, <1>6 DEF Passing, DocumentsCompile
  <2>7. AnswerTo(p.document, p.answer, r[k].params) # None
    BY <2>1, <2>2
  <2>8. AnswerTo(p.document, p.answer, Complete(p.document, r[k].params)) # None
    BY <2>4, <2>5, <2>6, <2>7, CompletionAssumption
  <2>9. k \in ComputableOf(q)
    BY <1>2, <1>5, <2>3, <2>4, <2>8 DEF ComputableOf
  <2>10. QED BY <2>3, <2>9
<1>11. KeepsItsExamples(q)
  <2> DEFINE positives == {k \in DOMAIN q.fixtures : q.fixtures[k].kind = "positive"}
             examples == {k \in positives : Example(q.fixtures[k])}
  <2>1. \A j, k \in positives : q.fixtures[j].observation = q.fixtures[k].observation => j = k
    BY <1>2, <1>5, <1>8
  <2>2. \A k \in examples : Sound(q, q.fixtures[k])
    BY <1>2, <1>5, <1>9
  <2>3. examples \cap ComputableOf(q) # {}
    BY <1>2, <1>5, <1>10 DEF Example
  <2>4. QED BY <2>1, <2>2, <2>3 DEF KeepsItsExamples
<1>12. QED BY <1>11 DEF q, r

-----------------------------------------------------------------------------
(* The drafting loop.                                                       *)

\* Each outcome is that of its proposal.
LEMMA OutcomeOfEach ==
    ASSUME NEW n \in DOMAIN Proposals
    PROVE  Outcomes[n] = Outcome(Proposals[n])
<1> DEFINE s == [k \in DOMAIN Proposals |-> Outcome(Proposals[k])]
           S == {Outcome(Proposals[k]) : k \in DOMAIN Proposals}
<1>1. Listed(Proposals)
  BY ProposalsAssumption DEF Listed
<1>2. Len(Proposals) \in Nat /\ DOMAIN Proposals = 1..Len(Proposals)
  BY <1>1, ListPlaces
<1>3. s \in [1..Len(Proposals) -> S]
  BY <1>2
<1>4. s[n] = Outcome(Proposals[n])
  OBVIOUS
<1>5. Outcomes = <<>> \o s
  BY DEF Outcomes
<1> HIDE DEF s, S
<1>6. s \in Seq(S)
  BY <1>2, <1>3, SeqDef
<1>7. <<>> \o s = s
  BY <1>6, ConcatEmptySeq
<1>8. QED BY <1>4, <1>5, <1>7

\* What the outcome of a proposal says of it.
LEMMA OutcomeSays ==
    ASSUME NEW p
    PROVE  /\ Outcome(p).verdict = "raises" <=> Raises(p)
           /\ ~Raises(p) =>
                /\ Outcome(p).sent = WithFixtures(p, Repair(p))
                /\ Outcome(p).verdict = "passed" <=> Passing(WithFixtures(p, Repair(p)))
<1>1. CASE Raises(p)
  BY <1>1 DEF Outcome
<1>2. CASE ~Raises(p)
  <2>1. Outcome(p) = [sent |-> WithFixtures(p, Repair(p)),
                      verdict |-> Verdict(WithFixtures(p, Repair(p)))]
    BY <1>2 DEF Outcome, Judged
  <2>2. QED BY <1>2, <2>1, VerdictIsNotRaised, VerdictPassed
<1>3. QED BY <1>1, <1>2

\* What was judged is a proposal, and a draft that is kept is the one that was
\* judged last and passed.
JudgedLast ==
    /\ judged # None => judged \in DOMAIN Proposals
    /\ phase = "persisted" =>
          /\ judged \in DOMAIN Proposals /\ draft = judged
          /\ Outcomes[judged].verdict = "passed"

\* The loop keeps the proposal that was judged last, with its verdict passed: a
\* kept draft is never judged again (generate_and_validate_revision).
THEOREM DraftsWereJudged == Spec => []JudgedLast
<1>1. Init => JudgedLast
  BY DEF Init, JudgedLast
<1>2. JudgedLast /\ [Next]_vars => JudgedLast'
  <2> SUFFICES ASSUME JudgedLast, [Next]_vars PROVE JudgedLast'
    OBVIOUS
  <2>1. CASE OffSchema
    BY <2>1 DEF OffSchema, Attempting, JudgedLast
  <2>2. CASE ModelFails
    BY <2>2 DEF ModelFails, Attempting, Leave, JudgedLast
  <2>3. CASE Propose
    <3>1. PICK n \in DOMAIN Proposals : RepairRaises(n) \/ Refuse(n) \/ RefusePlan(n) \/ Persist(n)
      BY <2>3 DEF Propose
    <3>2. CASE RepairRaises(n)
      BY <3>2 DEF RepairRaises, Attempting, Leave, JudgedLast
    <3>3. CASE Refuse(n)
      BY <3>3 DEF Refuse, Refused, Attempting, JudgedLast
    <3>4. CASE RefusePlan(n)
      BY <3>4 DEF RefusePlan, Refused, Attempting, JudgedLast
    <3>5. CASE Persist(n)
      BY <3>5 DEF Persist, Leave, JudgedLast
    <3>6. QED BY <3>1, <3>2, <3>3, <3>4, <3>5
  <2>4. CASE Exhaust
    BY <2>4 DEF Exhaust, Leave, JudgedLast
  <2>5. CASE RecordComputedAnswers
    BY <2>5 DEF RecordComputedAnswers, JudgedLast
  <2>6. CASE UNCHANGED vars
    BY <2>6 DEF vars, JudgedLast
  <2>7. QED BY <2>1, <2>2, <2>3, <2>4, <2>5, <2>6 DEF Next
<1>3. QED BY <1>1, <1>2, PTL DEF Spec

\* A sound example is not lost to one that speculates, whatever is proposed.
THEOREM SoundExamplesSurvive == Spec => []SoundSurvives
<1>1. JudgedLast => SoundSurvives
  <2> SUFFICES ASSUME JudgedLast, Repaired, NEW o \in Observations,
                      SoundIsAmong(o, Asked), AllWellFormed(o, Asked)
               PROVE  SoundIsAmong(o, Sent)
    BY DEF SoundSurvives
  <2>1. judged \in DOMAIN Proposals
    BY DEF JudgedLast, Repaired, Legible
  <2>2. Asked \in Range(Proposals) /\ Handed(Asked)
    BY <2>1, ProposalsAreHanded DEF Asked
  <2>3. Outcomes[judged] = Outcome(Asked)
    BY <2>1, OutcomeOfEach DEF Asked
  <2>4. Sent = WithFixtures(Asked, Repair(Asked))
    BY <2>3, OutcomeSays DEF Sent, Repaired
  <2>5. GuardIsSound(Asked.document, Asked.guard)
    BY DEF Repaired, Legible, DocumentsCompile
  <2>6. QED BY <2>2, <2>4, <2>5, RepairKeepsSound
<1>2. QED BY <1>1, DraftsWereJudged, PTL

\* The repairs never cost an attempt that would have passed, where a negative can
\* be made.
THEOREM RepairsHelp == Spec => []RepairsOnlyHelp
<1>1. JudgedLast => RepairsOnlyHelp
  <2> SUFFICES ASSUME JudgedLast, Legible, Verdict(Asked) = "passed",
                      PositivesAreExamples(Asked), NegativeAtHand(Asked)
               PROVE  Outcomes[judged].verdict = "passed"
    BY DEF RepairsOnlyHelp
  <2>1. judged \in DOMAIN Proposals
    BY DEF JudgedLast, Legible
  <2>2. Asked \in Range(Proposals) /\ Handed(Asked)
    BY <2>1, ProposalsAreHanded DEF Asked
  <2>3. Outcomes[judged] = Outcome(Asked)
    BY <2>1, OutcomeOfEach DEF Asked
  <2>4. Passing(Asked)
    BY VerdictPassed
  <2>5. ~Raises(Asked) /\ Passing(WithFixtures(Asked, Repair(Asked)))
    BY <2>2, <2>4, RepairKeepsPassing
  <2>6. QED BY <2>3, <2>5, OutcomeSays
<1>2. QED BY <1>1, DraftsWereJudged, PTL

\* What a kept draft offers as verified counts once, and is sound.
THEOREM KeptExamplesCountOnce == Spec => []ExamplesCountOnce
<1>1. JudgedLast => ExamplesCountOnce
  <2> SUFFICES ASSUME JudgedLast, phase = "persisted" PROVE KeepsItsExamples(Sent)
    BY DEF ExamplesCountOnce
  <2>1. judged \in DOMAIN Proposals /\ Outcomes[judged].verdict = "passed"
    BY DEF JudgedLast
  <2>2. Asked \in Range(Proposals) /\ Handed(Asked)
    BY <2>1, ProposalsAreHanded DEF Asked
  <2>3. Outcomes[judged] = Outcome(Asked)
    BY <2>1, OutcomeOfEach DEF Asked
  <2>4. ~Raises(Asked)
    BY <2>1, <2>3, OutcomeSays
  <2>5. Sent = WithFixtures(Asked, Repair(Asked)) /\ Passing(WithFixtures(Asked, Repair(Asked)))
    BY <2>1, <2>3, <2>4, OutcomeSays DEF Sent
  <2>6. QED BY <2>2, <2>5, PassedCountsOnce
<1>2. QED BY <1>1, DraftsWereJudged, PTL

-----------------------------------------------------------------------------
(* The cursor over a stack.                                                 *)

\* The first n places of the cursor.
Cursor(lengths, f, n) ==
    f = [k \in 1..n |-> IF k = 1 THEN 0 ELSE f[k - 1] + lengths[k - 1] + Gap]

\* There is a cursor over every stack of lengths: induction on their number.
LEMMA CursorExists ==
    ASSUME NEW l
    PROVE  \A n \in Nat : \E f : Cursor(l, f, n)
<1> DEFINE S == {n \in Nat : \E f : Cursor(l, f, n)}
<1>1. 0 \in S
  <2> DEFINE g == [k \in 1..0 |-> 0]
  <2>1. Cursor(l, g, 0)
    BY DEF Cursor
  <2>2. QED BY <2>1
<1>2. ASSUME NEW n \in Nat, n \in S PROVE n + 1 \in S
  <2>1. PICK f : Cursor(l, f, n)
    BY <1>2
  <2> DEFINE x == IF n = 0 THEN 0 ELSE f[n] + l[n] + Gap
             g == [k \in 1..(n + 1) |-> IF k = n + 1 THEN x ELSE f[k]]
  <2> HIDE DEF x
  <2>2. ASSUME NEW k \in 1..(n + 1)
        PROVE g[k] = IF k = 1 THEN 0 ELSE g[k - 1] + l[k - 1] + Gap
    <3>1. CASE k = n + 1
      BY <3>1 DEF x
    <3>2. CASE k # n + 1
      <4>1. k \in 1..n /\ (k # 1 => k - 1 \in 1..n)
        BY <3>2
      <4>2. f[k] = IF k = 1 THEN 0 ELSE f[k - 1] + l[k - 1] + Gap
        BY <4>1, <2>1 DEF Cursor
      <4>3. QED BY <4>1, <4>2
    <3>3. QED BY <3>1, <3>2
  <2>3. Cursor(l, g, n + 1)
    BY <2>2 DEF Cursor
  <2>4. QED BY <2>3
<1>3. QED
  <2> HIDE DEF S
  <2>1. Nat \subseteq S BY <1>1, <1>2, NatInd
  <2>2. QED BY <2>1 DEF S

\* What the cursor has passed, one length after another.
LEMMA BeforeStep ==
    ASSUME NEW l \in Seq(Nat)
    PROVE  /\ Before(l)[1] = 0
           /\ \A k \in 1..Len(l) : Before(l)[k + 1] = Before(l)[k] + l[k] + Gap
<1>1. \E f : Cursor(l, f, Len(l) + 1)
  BY CursorExists
<1>2. Before(l) = [k \in 1..(Len(l) + 1) |-> IF k = 1 THEN 0 ELSE Before(l)[k - 1] + l[k - 1] + Gap]
  BY <1>1 DEF Before, Cursor
<1> HIDE DEF Before
<1>3. Len(l) \in Nat
  OBVIOUS
<1>4. ASSUME NEW k \in 1..Len(l)
      PROVE  Before(l)[k + 1] = Before(l)[k] + l[k] + Gap
  <2>1. k + 1 \in 1..(Len(l) + 1) /\ k + 1 # 1 /\ (k + 1) - 1 = k
    BY <1>3
  <2>2. QED BY <2>1, <1>2
<1>5. Before(l)[1] = 0
  <2>1. 1 \in 1..(Len(l) + 1)
    BY <1>3
  <2>2. QED BY <2>1, <1>2
<1>6. QED BY <1>4, <1>5

\* The cursor moves on by natural lengths, and passes every visual and its gap.
LEMMA BeforeFacts ==
    ASSUME NEW l \in Seq(Nat)
    PROVE  /\ \A k \in 1..(Len(l) + 1) : Before(l)[k] \in Nat
           /\ \A j \in 1..Len(l), k \in 1..(Len(l) + 1) :
                 j < k => Before(l)[j] + l[j] + Gap <= Before(l)[k]
           /\ Before(l)[1] = 0
           /\ Reach(l) \in Nat
           /\ \A j \in 1..Len(l) : Before(l)[j] + l[j] + Gap <= Reach(l)
<1> DEFINE B == Before(l)
<1>1. B[1] = 0 /\ \A k \in 1..Len(l) : B[k + 1] = B[k] + l[k] + Gap
  BY BeforeStep
<1> HIDE DEF B
<1>2. Len(l) \in Nat /\ \A k \in 1..Len(l) : l[k] \in Nat
  OBVIOUS
<1> DEFINE
      S == {n \in Nat : n <= Len(l) =>
              /\ \A j \in 1..(n + 1) : B[j] \in Nat
              /\ \A j \in 1..n : B[j] + l[j] + Gap <= B[n + 1]}
<1>3. 0 \in S
  BY <1>1
<1>4. ASSUME NEW n \in Nat, n \in S PROVE n + 1 \in S
  <2> SUFFICES ASSUME n + 1 <= Len(l)
               PROVE  /\ \A j \in 1..(n + 1 + 1) : B[j] \in Nat
                      /\ \A j \in 1..(n + 1) : B[j] + l[j] + Gap <= B[n + 1 + 1]
    OBVIOUS
  <2>1. n + 1 \in 1..Len(l)
    BY <1>2
  <2>2. B[n + 1 + 1] = B[n + 1] + l[n + 1] + Gap /\ l[n + 1] \in Nat
    BY <2>1, <1>1, <1>2
  <2>3. /\ \A j \in 1..(n + 1) : B[j] \in Nat
        /\ \A j \in 1..n : B[j] + l[j] + Gap <= B[n + 1]
    BY <1>4, <2>1
  <2>4. B[n + 1] \in Nat /\ B[n + 1 + 1] \in Nat /\ B[n + 1] <= B[n + 1 + 1]
    BY <2>2, <2>3 DEF Gap
  <2>5. ASSUME NEW j \in 1..(n + 1) PROVE B[j] + l[j] + Gap <= B[n + 1 + 1]
    <3>1. CASE j = n + 1
      BY <3>1, <2>2, <2>4
    <3>2. CASE j # n + 1
      <4>1. j \in 1..n /\ B[j] \in Nat /\ l[j] \in Nat
        BY <3>2, <2>3, <1>2
      <4>2. B[j] + l[j] + Gap <= B[n + 1]
        BY <4>1, <2>3
      <4>3. QED BY <4>1, <4>2, <2>4 DEF Gap
    <3>3. QED BY <3>1, <3>2
  <2>6. ASSUME NEW j \in 1..(n + 1 + 1) PROVE B[j] \in Nat
    <3>1. j = n + 1 + 1 \/ j \in 1..(n + 1)
      OBVIOUS
    <3>2. QED BY <3>1, <2>3, <2>4
  <2>7. QED BY <2>5, <2>6
<1>5. \A n \in Nat : n \in S
  <2> HIDE DEF S
  <2>1. QED BY <1>3, <1>4, NatInd
<1>6. /\ \A j \in 1..(Len(l) + 1) : B[j] \in Nat
      /\ \A j \in 1..Len(l) : B[j] + l[j] + Gap <= B[Len(l) + 1]
  BY <1>2, <1>5
<1>7. ASSUME NEW j \in 1..Len(l), NEW k \in 1..(Len(l) + 1), j < k
      PROVE  B[j] + l[j] + Gap <= B[k]
  <2>1. k - 1 \in Nat /\ k - 1 <= Len(l) /\ j \in 1..(k - 1) /\ (k - 1) + 1 = k
    BY <1>2, <1>7
  <2>2. B[j] + l[j] + Gap <= B[(k - 1) + 1]
    BY <2>1, <1>5
  <2>3. QED BY <2>1, <2>2
<1>8. Len(l) + 1 \in 1..(Len(l) + 1)
  BY <1>2
<1>9. QED
  BY <1>1, <1>6, <1>7, <1>8 DEF Reach, B

-----------------------------------------------------------------------------
(* The greatest of the lengths of a stack.                                  *)

\* Some member of a set of numbers is exceeded by none.
HasMost(S) == \E x \in S : \A y \in S : y <= x

\* The module's Max, of a set that has a greatest member.
LEMMA MaxOf ==
    ASSUME NEW S, S \subseteq Int, HasMost(S)
    PROVE  Max(S) \in S /\ \A y \in S : y <= Max(S)
<1>1. \E x \in S : \A y \in S : x >= y
  BY DEF HasMost
<1>2. Max(S) \in S /\ \A y \in S : Max(S) >= y
  BY <1>1 DEF Max
<1>3. QED BY <1>2

\* Of two sets with a greatest member, the union has one.
LEMMA UnionHasMost ==
    ASSUME NEW S, NEW T, S \subseteq Int, T \subseteq Int, HasMost(S), T = {} \/ HasMost(T)
    PROVE  HasMost(S \cup T)
<1>1. CASE T = {}
  BY <1>1
<1>2. CASE HasMost(T)
  <2>1. PICK x \in S : \A y \in S : y <= x
    BY DEF HasMost
  <2>2. PICK z \in T : \A y \in T : y <= z
    BY <1>2 DEF HasMost
  <2>3. CASE x <= z
    <3>1. \A y \in S \cup T : y <= z
      BY <2>1, <2>2, <2>3
    <3>2. QED BY <3>1, <2>2 DEF HasMost
  <2>4. CASE ~(x <= z)
    <3>1. \A y \in S \cup T : y <= x
      BY <2>1, <2>2, <2>4
    <3>2. QED BY <3>1, <2>1 DEF HasMost
  <2>5. QED BY <2>3, <2>4
<1>3. QED BY <1>1, <1>2

\* The numbers of a sequence have a greatest one.
LEMMA SeqHasMost ==
    ASSUME NEW l \in Seq(Int)
    PROVE  Range(l) \subseteq Int /\ (Range(l) = {} \/ HasMost(Range(l)))
<1> DEFINE Upto(n) == {l[k] : k \in 1..n}
           S == {n \in Nat : n <= Len(l) => Upto(n) = {} \/ HasMost(Upto(n))}
<1>1. Len(l) \in Nat /\ \A k \in 1..Len(l) : l[k] \in Int
  OBVIOUS
<1>2. 0 \in S
  <2>1. Upto(0) = {}
    OBVIOUS
  <2>2. QED BY <2>1
<1>3. ASSUME NEW n \in Nat, n \in S PROVE n + 1 \in S
  <2> SUFFICES ASSUME n + 1 <= Len(l) PROVE HasMost(Upto(n + 1))
    OBVIOUS
  <2>0. n + 1 \in 1..Len(l) /\ n <= Len(l) /\ Upto(n) \subseteq Int
    BY <1>1
  <2>1. l[n + 1] \in Int /\ Upto(n) \subseteq Int /\ (Upto(n) = {} \/ HasMost(Upto(n)))
    <3> HIDE DEF Upto
    <3>1. QED BY <1>1, <1>3, <2>0
  <2>2. Upto(n + 1) = {l[n + 1]} \cup Upto(n)
    OBVIOUS
  <2>3. HasMost({l[n + 1]})
    BY <2>1 DEF HasMost
  <2> HIDE DEF Upto
  <2>4. HasMost({l[n + 1]} \cup Upto(n))
    BY <2>1, <2>3, UnionHasMost
  <2>5. QED BY <2>2, <2>4
<1>4. Len(l) \in S
  <2> HIDE DEF S
  <2>1. QED BY <1>1, <1>2, <1>3, NatInd
<1>5. Range(l) = Upto(Len(l))
  BY DEF Range
<1>6. Range(l) \subseteq Int
  BY <1>1 DEF Range
<1>7. Upto(Len(l)) = {} \/ HasMost(Upto(Len(l)))
  <2> HIDE DEF Upto
  <2>1. QED BY <1>1, <1>4
<1>8. QED
  <2> HIDE DEF Upto
  <2>1. QED BY <1>5, <1>6, <1>7

-----------------------------------------------------------------------------
(* Scales.                                                                  *)

Rationals == Nat \X (Nat \ {0})

\* The parts of a rational.
LEMMA Rational ==
    ASSUME NEW p \in Rationals
    PROVE  p[1] \in Nat /\ p[2] \in Nat /\ p[2] > 0 /\ p = <<p[1], p[2]>>
BY DEF Rationals

\* A comparison survives what is multiplied on both sides.
LEMMA Scaled ==
    ASSUME NEW a \in Int, NEW b \in Int, NEW n \in Nat, a <= b
    PROVE  a * n <= b * n
OBVIOUS

\* What is in order at a scale was in order before it.
LEMMA Unscaled ==
    ASSUME NEW a \in Int, NEW b \in Int, NEW n \in Nat, n > 0, a * n <= b * n
    PROVE  a <= b
<1> SUFFICES ASSUME b + 1 <= a PROVE FALSE
  OBVIOUS
<1>1. (b + 1) * n <= a * n
  BY Scaled
<1>2. (b + 1) * n = b * n + n
  OBVIOUS
<1>3. b * n \in Int /\ a * n \in Int
  OBVIOUS
<1>4. QED BY <1>1, <1>2, <1>3

\* Rationals compare by cross multiplication.
LEMMA AtMostIs ==
    ASSUME NEW p \in Rationals, NEW q \in Rationals
    PROVE  AtMost(p, q) <=> p[1] * q[2] <= q[1] * p[2]
<1>1. p[1] \in Nat /\ p[2] \in Nat /\ q[1] \in Nat /\ q[2] \in Nat
  BY Rational
<1>2. p[1] * q[2] \in Nat /\ q[1] * p[2] \in Nat
  BY <1>1
<1>3. QED BY <1>2 DEF AtMost, Less

\* Their order is transitive.
LEMMA AtMostTransitive ==
    ASSUME NEW p \in Rationals, NEW q \in Rationals, NEW r \in Rationals,
           AtMost(p, q), AtMost(q, r)
    PROVE  AtMost(p, r)
<1> DEFINE a == p[1]  b == p[2]  c == q[1]  d == q[2]  e == r[1]  f == r[2]
<1>1. /\ a \in Nat /\ b \in Nat /\ c \in Nat /\ d \in Nat /\ e \in Nat /\ f \in Nat
      /\ d > 0
  BY Rational
<1>2. a * d <= c * b /\ c * f <= e * d
  BY AtMostIs
<1> SUFFICES a * f <= e * b
  BY AtMostIs
<1> HIDE DEF a, b, c, d, e, f
<1>3. (a * d) * f <= (c * b) * f
  BY <1>1, <1>2, Scaled, a * d \in Int, c * b \in Int
<1>4. (c * f) * b <= (e * d) * b
  BY <1>1, <1>2, Scaled, c * f \in Int, e * d \in Int
<1>5. (a * f) * d = (a * d) * f /\ (c * b) * f = (c * f) * b /\ (e * d) * b = (e * b) * d
  BY <1>1
<1>6. (a * f) * d <= (e * b) * d
  <2>1. (a * d) * f \in Int /\ (c * b) * f \in Int /\ (e * d) * b \in Int
    BY <1>1
  <2>2. QED BY <1>3, <1>4, <1>5, <2>1
<1>7. a * f \in Int /\ e * b \in Int
  BY <1>1
<1>8. QED BY <1>1, <1>6, <1>7, Unscaled

\* The smaller of two rationals is at most each.
LEMMA SmallerOf ==
    ASSUME NEW p \in Rationals, NEW q \in Rationals
    PROVE  /\ Smaller(p, q) \in Rationals
           /\ AtMost(Smaller(p, q), p) /\ AtMost(Smaller(p, q), q)
<1>1. p[1] * q[2] \in Nat /\ q[1] * p[2] \in Nat /\ p[1] * p[2] \in Nat /\ q[1] * q[2] \in Nat
  BY Rational
<1>2. QED BY <1>1 DEF Smaller, AtMost, Less

\* What fits at full size times the scale fits.
LEMMA FitHolds ==
    ASSUME NEW available \in Nat, NEW extent \in Nat, NEW s \in Rationals
    PROVE  /\ Fit(available, extent) \in Rationals
           /\ AtMost(s, Fit(available, extent)) => extent * s[1] <= available * s[2]
<1>1. s[1] \in Nat /\ s[2] \in Nat
  BY Rational
<1>2. CASE extent = 0
  <2>1. Fit(available, extent) \in Rationals
    BY <1>2 DEF Fit, Rationals
  <2>2. 0 * s[1] = 0 /\ available * s[2] \in Nat
    BY <1>1
  <2>3. QED BY <1>2, <2>1, <2>2
<1>3. CASE extent # 0
  <2>1. Fit(available, extent) = <<available, extent>>
    BY <1>3 DEF Fit
  <2>2. <<available, extent>> \in Rationals
    BY <1>3 DEF Rationals
  <2>3. AtMost(s, <<available, extent>>) => s[1] * extent <= available * s[2]
    BY <2>2, AtMostIs
  <2>4. s[1] * extent = extent * s[1]
    BY <1>1
  <2>5. QED BY <2>1, <2>2, <2>3, <2>4
<1>4. QED BY <1>2, <1>3

\* The column and the room its callouts are short of fit the frame together, on
\* either side of the scale at which the callouts begin to need room of their own.
LEMMA ColumnFits ==
    ASSUME NEW column \in Nat, column > 0, NEW frame \in Nat, frame > Envelope,
           NEW room, room = None \/ room \in Int, NEW s \in Rationals
    PROVE  /\ FitVertical(column, frame, room) \in Rationals
           /\ AtMost(s, FitVertical(column, frame, room)) =>
                 column * s[1] + CalloutPad(room, s) <= frame * s[2]
<1> DEFINE n == s[1]  d == s[2]  fit == FitVertical(column, frame, room)
           free == frame - Envelope
<1>1. n \in Nat /\ d \in Nat /\ d > 0
  BY Rational
<1>2. /\ column * n \in Nat /\ frame * d \in Nat /\ Envelope * d \in Nat /\ free \in Nat
      /\ free * d = frame * d - Envelope * d /\ free > 0
  BY <1>1 DEF Envelope
<1> HIDE DEF n, d, free
<1>3. CASE room = None
  <2>1. fit = <<frame, column>>
    BY <1>3 DEF FitVertical
  <2>2. fit \in Rationals
    BY <2>1 DEF Rationals
  <2>3. AtMost(s, fit) => n * column <= frame * d
    BY <2>1, <2>2, AtMostIs DEF n, d
  <2>4. CalloutPad(room, s) = 0
    BY <1>3 DEF CalloutPad
  <2>5. n * column = column * n
    BY <1>1
  <2>6. QED BY <2>2, <2>3, <2>4, <2>5, <1>2 DEF n, d
<1>4. CASE room \in Int
  <2>1. room # None
    BY <1>4, NoneAssumption
  <2>2. /\ room * n \in Int /\ room * frame \in Int /\ Envelope * column \in Nat
        /\ (column - room) * n = column * n - room * n
    BY <1>1, <1>4 DEF Envelope
  <2>3. CalloutPad(room, s) = Most(0, Envelope * d - room * n)
    BY <2>1 DEF CalloutPad, n, d
  <2>4. ASSUME column * n <= frame * d, (column - room) * n <= free * d
        PROVE  column * n + CalloutPad(room, s) <= frame * d
    BY <2>2, <2>3, <2>4, <1>2 DEF Most
  <2>5. CASE room * frame >= Envelope * column
    <3>1. fit = <<frame, column>>
      BY <2>1, <2>5 DEF FitVertical
    <3>2. fit \in Rationals
      BY <3>1 DEF Rationals
    <3>3. SUFFICES ASSUME AtMost(s, fit)
                   PROVE  column * n <= frame * d /\ (column - room) * n <= free * d
      BY <3>2, <2>4 DEF n, d
    <3>4. n * column <= frame * d
      BY <3>1, <3>2, <3>3, AtMostIs DEF n, d
    <3>5. column * n <= frame * d
      BY <3>4, <1>1
    <3>6. (column - room) * frame <= column * free
      <4>1. (column - room) * frame = column * frame - room * frame
        BY <1>4
      <4>2. column * free = column * frame - Envelope * column
        BY DEF free, Envelope
      <4>3. column * frame \in Nat
        OBVIOUS
      <4>4. QED BY <4>1, <4>2, <4>3, <2>2, <2>5
    <3>7. ((column - room) * frame) * n <= (column * free) * n
      BY <3>6, <1>1, <1>2, <1>4, Scaled, (column - room) * frame \in Int, column * free \in Int
    <3>8. (column * n) * free <= (frame * d) * free
      BY <3>5, <1>2, Scaled
    <3>9. /\ ((column - room) * frame) * n = ((column - room) * n) * frame
          /\ (column * free) * n = (column * n) * free
          /\ (frame * d) * free = (free * d) * frame
      BY <1>1, <1>2, <1>4
    <3>10. ((column - room) * n) * frame <= (free * d) * frame
      <4>1. /\ ((column - room) * frame) * n \in Int /\ (column * free) * n \in Int
            /\ (frame * d) * free \in Int
        BY <1>1, <1>2, <1>4
      <4>2. QED BY <3>7, <3>8, <3>9, <4>1
    <3>11. (column - room) * n <= free * d
      BY <3>10, Unscaled, <1>1, <1>2, <1>4, (column - room) * n \in Int, free * d \in Int, frame > 0
         DEF Envelope
    <3>12. QED BY <3>5, <3>11
  <2>6. CASE room * frame < Envelope * column
    <3>1. room < column
      <4> SUFFICES ASSUME column <= room PROVE FALSE
        BY <1>4
      <4>1. column * frame <= room * frame
        BY <1>4, Scaled
      <4>2. column * frame >= column * (Envelope + 1)
        BY Scaled, (Envelope + 1) * column <= frame * column DEF Envelope
      <4>3. QED BY <4>1, <4>2, <2>2, <2>6 DEF Envelope
    <3>2. column - room \in Nat /\ column - room > 0
      BY <3>1, <1>4
    <3>3. fit = <<free, column - room>>
      <4>1. ~(room * frame >= Envelope * column) /\ ~(column <= room)
        BY <2>2, <2>6, <3>1, <1>4
      <4>2. QED BY <4>1, <2>1 DEF FitVertical, free
    <3>4. fit \in Rationals
      BY <3>2, <3>3, <1>2 DEF Rationals
    <3>5. SUFFICES ASSUME AtMost(s, fit)
                   PROVE  column * n <= frame * d /\ (column - room) * n <= free * d
      BY <3>4, <2>4 DEF n, d
    <3>6. n * (column - room) <= free * d
      BY <3>3, <3>4, <3>5, AtMostIs DEF n, d
    <3>7. (column - room) * n <= free * d
      BY <3>2, <3>6, <1>1
    <3>8. room * n <= Envelope * d
      <4>1. CASE room <= 0
        <5>1. room * n <= 0 * n
          BY <4>1, <1>1, <1>4, Scaled
        <5>2. QED BY <5>1, <1>1, <1>2, <2>2
      <4>2. CASE room > 0
        <5>1. room * free <= Envelope * (column - room)
          <6>1. room * free = room * frame - room * Envelope
            BY <1>4 DEF free, Envelope
          <6>2. Envelope * (column - room) = Envelope * column - room * Envelope
            BY <1>4 DEF Envelope
          <6>3. room * Envelope \in Int
            BY <1>4 DEF Envelope
          <6>4. QED BY <6>1, <6>2, <6>3, <2>2, <2>6
        <5>2. room \in Nat
          BY <4>2, <1>4
        <5>3. ((column - room) * n) * room <= (free * d) * room
          BY <3>7, <5>2, Scaled, <1>1, <1>2, <3>2, (column - room) * n \in Int, free * d \in Int
        <5>4. (room * free) * d <= (Envelope * (column - room)) * d
          BY <5>1, <1>1, <1>2, <5>2, <3>2, Scaled, room * free \in Int, Envelope * (column - room) \in Int
             DEF Envelope
        <5>5. /\ ((column - room) * n) * room = (room * n) * (column - room)
              /\ (free * d) * room = (room * free) * d
              /\ (Envelope * (column - room)) * d = (Envelope * d) * (column - room)
          BY <1>1, <1>2, <1>4, <3>2 DEF Envelope
        <5>6. (room * n) * (column - room) <= (Envelope * d) * (column - room)
          <6>1. /\ (room * n) * (column - room) \in Int /\ (Envelope * d) * (column - room) \in Int
                /\ (room * free) * d \in Int
            BY <1>1, <1>2, <1>4, <3>2 DEF Envelope
          <6>2. QED BY <5>3, <5>4, <5>5, <6>1
        <5>7. QED BY <5>6, <3>2, <1>2, <2>2, Unscaled
      <4>3. QED BY <4>1, <4>2, <1>4
    <3>9. QED BY <3>7, <3>8, <1>2, <2>2
  <2>7. QED BY <2>2, <2>5, <2>6
<1>5. QED BY <1>3, <1>4

-----------------------------------------------------------------------------
(* The arrangement.                                                         *)

\* A sequence of visuals and the callouts that may be handed in with it.
HandedIn(v, c) == v \in Seq(Range(v)) /\ c \in Seq(Range(c)) /\ Lesson(v, c)

\* The visuals of a lesson, by their places in the sequence.
LEMMA HandedFacts ==
    ASSUME NEW v, NEW c, HandedIn(v, c)
    PROVE  /\ Len(v) \in Nat /\ Len(v) > 0 /\ DOMAIN v = 1..Len(v)
           /\ \A k \in 1..Len(v) : v[k] \in Range(v)
           /\ \A m \in Range(v) : \E k \in 1..Len(v) : m = v[k]
           /\ \A j, k \in 1..Len(v) : v[j].ref = v[k].ref => j = k
<1>1. Len(v) \in Nat /\ DOMAIN v = 1..Len(v) /\ v # <<>>
  BY DEF HandedIn, Lesson
<1>2. Len(v) > 0
  BY <1>1 DEF HandedIn
<1>3. \A j, k \in 1..Len(v) : v[j].ref = v[k].ref => j = k
  BY <1>1 DEF HandedIn, Lesson
<1>4. QED BY <1>1, <1>2, <1>3 DEF Range

\* Some visual is the primary one; when it is the answer, there is no other.
LEMMA Positions ==
    ASSUME NEW v, NEW c, HandedIn(v, c)
    PROVE  /\ PrimaryAt(v) \in 1..Len(v)
           /\ AnswerAt(v) = None \/ AnswerAt(v) \in 1..Len(v)
           /\ AnswerAt(v) = PrimaryAt(v) => 1..Len(v) = {PrimaryAt(v)}
<1> DEFINE named == {k \in DOMAIN v : v[k].ref = Answer}
           rest == DOMAIN v \ {AnswerAt(v)}
<1>1. Len(v) \in Nat /\ Len(v) > 0 /\ DOMAIN v = 1..Len(v)
  BY HandedFacts
<1>2. AnswerAt(v) = None \/ AnswerAt(v) \in 1..Len(v)
  <2>1. CASE named = {}
    BY <2>1 DEF AnswerAt
  <2>2. CASE named # {}
    <3>1. AnswerAt(v) = Min(named)
      BY <2>2 DEF AnswerAt
    <3>2. named \subseteq Nat /\ named \subseteq 1..Len(v)
      BY <1>1
    <3> HIDE DEF named
    <3>3. Min(named) \in named
      BY <3>2, <2>2, MinNat
    <3>4. QED BY <3>1, <3>2, <3>3
  <2>3. QED BY <2>1, <2>2
<1>3. CASE rest = {}
  <2>1. PrimaryAt(v) = AnswerAt(v)
    BY <1>3 DEF PrimaryAt
  <2>2. 1 \in 1..Len(v)
    BY <1>1
  <2>3. 1..Len(v) = {AnswerAt(v)}
    BY <1>1, <1>3, <2>2
  <2>4. QED BY <1>2, <2>1, <2>3
<1>4. CASE rest # {}
  <2>1. PrimaryAt(v) = Min(rest)
    BY <1>4 DEF PrimaryAt
  <2>2. rest \subseteq Nat /\ rest \subseteq 1..Len(v) /\ AnswerAt(v) \notin rest
    BY <1>1
  <2> HIDE DEF rest
  <2>3. Min(rest) \in rest
    BY <2>2, <1>4, MinNat
  <2>4. QED BY <1>2, <2>1, <2>2, <2>3
<1>5. QED BY <1>3, <1>4

\* One visual takes its place.
Taken(v, c, k, stacks) ==
    IF k \in {PrimaryAt(v), AnswerAt(v)} THEN stacks
    ELSE Joined(stacks, v[k], FitsBeside(v[PrimaryAt(v)], c, v[k]))

\* The first n visuals have taken theirs.
Taking(v, c, f, n) ==
    f = [k \in 0..n |-> IF k = 0 THEN [s \in Stacks |-> <<>>] ELSE Taken(v, c, k, f[k - 1])]

\* Every number of visuals has been taken to some stacks: induction on it.
LEMMA TakingExists ==
    ASSUME NEW v, NEW c
    PROVE  \A n \in Nat : \E f : Taking(v, c, f, n)
<1> DEFINE S == {n \in Nat : \E f : Taking(v, c, f, n)}
           empty == [s \in Stacks |-> <<>>]
<1> HIDE DEF empty
<1>1. 0 \in S
  <2> DEFINE g == [k \in 0..0 |-> empty]
  <2>1. ASSUME NEW k \in 0..0
        PROVE g[k] = IF k = 0 THEN empty ELSE Taken(v, c, k, g[k - 1])
    OBVIOUS
  <2>2. Taking(v, c, g, 0)
    BY <2>1 DEF Taking, empty
  <2>3. QED BY <2>2
<1>2. ASSUME NEW n \in Nat, n \in S PROVE n + 1 \in S
  <2>1. PICK f : Taking(v, c, f, n)
    BY <1>2
  <2> DEFINE x == Taken(v, c, n + 1, f[n])
             g == [k \in 0..(n + 1) |-> IF k = n + 1 THEN x ELSE f[k]]
  <2> HIDE DEF x
  <2>2. ASSUME NEW k \in 0..(n + 1)
        PROVE g[k] = IF k = 0 THEN empty ELSE Taken(v, c, k, g[k - 1])
    <3>1. CASE k = n + 1
      <4>1. k # 0 /\ k - 1 = n /\ n \in 0..(n + 1) /\ n # n + 1
        BY <3>1
      <4>2. g[k] = x /\ g[k - 1] = f[n]
        BY <4>1, <3>1
      <4>3. QED BY <3>1, <4>1, <4>2 DEF x
    <3>2. CASE k # n + 1
      <4>1. k \in 0..n /\ (k # 0 => k - 1 \in 0..n)
        BY <3>2
      <4>2. f[k] = IF k = 0 THEN empty ELSE Taken(v, c, k, f[k - 1])
        BY <4>1, <2>1 DEF Taking, empty
      <4>3. g[k] = f[k] /\ (k # 0 => g[k - 1] = f[k - 1])
        BY <4>1
      <4>4. QED BY <4>2, <4>3
    <3>3. QED BY <3>1, <3>2
  <2>3. Taking(v, c, g, n + 1)
    BY <2>2 DEF Taking, empty
  <2>4. QED BY <2>3
<1>3. QED
  <2> HIDE DEF S
  <2>1. Nat \subseteq S BY <1>1, <1>2, NatInd
  <2>2. QED BY <2>1 DEF S

\* The stacks are those that are left when every visual has taken its place.
LEMMA StackedIs ==
    ASSUME NEW v, NEW c, Len(v) \in Nat
    PROVE  \E f : Taking(v, c, f, Len(v)) /\ Stacked(v, c) = f[Len(v)]
<1> DEFINE f == CHOOSE f : Taking(v, c, f, Len(v))
<1>1. Taking(v, c, f, Len(v))
  BY TakingExists
<1>2. Stacked(v, c) = f[Len(v)]
  BY DEF Stacked, Taking, Taken
<1>3. QED BY <1>1, <1>2

\* A visual joins the end of one stack, and nothing else moves.
LEMMA JoiningOne ==
    ASSUME NEW V, NEW g \in [Stacks -> Seq(V)], NEW s0 \in Stacks, NEW m \in V, NEW h,
           h = [g EXCEPT ![s0] = Append(@, m)]
    PROVE  /\ h \in [Stacks -> Seq(V)]
           /\ Len(g[s0]) + 1 \in 1..Len(h[s0]) /\ h[s0][Len(g[s0]) + 1] = m
           /\ \A s \in Stacks : \A i \in 1..Len(g[s]) : i \in 1..Len(h[s]) /\ h[s][i] = g[s][i]
           /\ \A s \in Stacks : \A i \in 1..Len(h[s]) :
                 \/ i \in 1..Len(g[s]) /\ h[s][i] = g[s][i]
                 \/ s = s0 /\ i = Len(g[s0]) + 1 /\ h[s][i] = m
<1>1. g[s0] \in Seq(V) /\ Len(g[s0]) \in Nat
  OBVIOUS
<1>2. h[s0] = Append(g[s0], m) /\ \A s \in Stacks : s # s0 => h[s] = g[s]
  OBVIOUS
<1>3. /\ Append(g[s0], m) \in Seq(V) /\ Len(Append(g[s0], m)) = Len(g[s0]) + 1
      /\ Append(g[s0], m)[Len(g[s0]) + 1] = m
      /\ \A i \in 1..Len(g[s0]) : Append(g[s0], m)[i] = g[s0][i]
  BY <1>1
<1>4. h \in [Stacks -> Seq(V)]
  BY <1>3
<1>5. ASSUME NEW s \in Stacks, NEW i \in 1..Len(g[s])
      PROVE  i \in 1..Len(h[s]) /\ h[s][i] = g[s][i]
  <2>1. CASE s = s0
    BY <1>1, <1>2, <1>3, <2>1
  <2>2. CASE s # s0
    BY <1>2, <2>2
  <2>3. QED BY <2>1, <2>2
<1>6. ASSUME NEW s \in Stacks, NEW i \in 1..Len(h[s])
      PROVE  \/ i \in 1..Len(g[s]) /\ h[s][i] = g[s][i]
             \/ s = s0 /\ i = Len(g[s0]) + 1 /\ h[s][i] = m
  <2>1. CASE s = s0
    <3>1. i \in 1..(Len(g[s0]) + 1)
      BY <1>2, <1>3, <2>1
    <3>2. CASE i = Len(g[s0]) + 1
      BY <1>2, <1>3, <2>1, <3>2
    <3>3. CASE i \in 1..Len(g[s0])
      BY <1>2, <1>3, <2>1, <3>3
    <3>4. QED BY <1>1, <3>1, <3>2, <3>3
  <2>2. CASE s # s0
    BY <1>2, <2>2
  <2>3. QED BY <2>1, <2>2
<1>7. Len(g[s0]) + 1 \in 1..Len(h[s0]) /\ h[s0][Len(g[s0]) + 1] = m
  BY <1>1, <1>2, <1>3
<1>8. QED BY <1>4, <1>5, <1>6, <1>7

Elsewhere(v, j) == j \notin {PrimaryAt(v), AnswerAt(v)}

\* Of the first k visuals each that is neither the primary one nor the answer is
\* once in one stack, and what is beside the primary fits there.
Sorted(v, c, k, g) ==
    /\ g \in [Stacks -> Seq(Range(v))]
    /\ \A s \in Stacks : \A i \in 1..Len(g[s]) : \E j \in 1..k : Elsewhere(v, j) /\ g[s][i] = v[j]
    /\ \A j \in 1..k : Elsewhere(v, j) => \E s \in Stacks : \E i \in 1..Len(g[s]) : g[s][i] = v[j]
    /\ \A s, t \in Stacks : \A i \in 1..Len(g[s]), j \in 1..Len(g[t]) :
          g[s][i] = g[t][j] => s = t /\ i = j
    /\ \A s \in {"left", "right"} : \A i \in 1..Len(g[s]) : FitsBeside(v[PrimaryAt(v)], c, g[s][i])

\* Taking one more visual keeps the stacks in their order and adds that one.
LEMMA SortedStep ==
    ASSUME NEW v, NEW c, HandedIn(v, c), NEW k \in Nat, k + 1 <= Len(v), NEW g, Sorted(v, c, k, g)
    PROVE  Sorted(v, c, k + 1, Taken(v, c, k + 1, g))
<1> DEFINE V == Range(v)
           h == Taken(v, c, k + 1, g)
           m == v[k + 1]
           beside == FitsBeside(v[PrimaryAt(v)], c, m)
           s0 == StackFor(g, beside)
<1>1. /\ Len(v) \in Nat /\ k + 1 \in 1..Len(v) /\ \A j \in 1..k : j \in 1..Len(v)
      /\ m \in V /\ \A i, j \in 1..Len(v) : v[i] = v[j] => i = j
  BY HandedFacts
<1>2. /\ g \in [Stacks -> Seq(V)]
      /\ \A s \in Stacks : \A i \in 1..Len(g[s]) : \E j \in 1..k : Elsewhere(v, j) /\ g[s][i] = v[j]
      /\ \A j \in 1..k : Elsewhere(v, j) => \E s \in Stacks : \E i \in 1..Len(g[s]) : g[s][i] = v[j]
      /\ \A s, t \in Stacks : \A i \in 1..Len(g[s]), j \in 1..Len(g[t]) :
            g[s][i] = g[t][j] => s = t /\ i = j
      /\ \A s \in {"left", "right"} : \A i \in 1..Len(g[s]) : FitsBeside(v[PrimaryAt(v)], c, g[s][i])
  BY DEF Sorted
<1>3. \A j \in 1..(k + 1) : j \in 1..k \/ j = k + 1
  OBVIOUS
<1>4. \A j \in 1..k : j \in 1..(k + 1)
  OBVIOUS
<1>5. CASE ~Elsewhere(v, k + 1)
  <2>1. h = g
    BY <1>5 DEF Taken, Elsewhere
  <2> HIDE DEF h
  <2>2. \A s \in Stacks : \A i \in 1..Len(g[s]) : \E j \in 1..(k + 1) : Elsewhere(v, j) /\ g[s][i] = v[j]
    BY <1>2, <1>4
  <2>3. \A j \in 1..(k + 1) : Elsewhere(v, j) => \E s \in Stacks : \E i \in 1..Len(g[s]) : g[s][i] = v[j]
    BY <1>2, <1>3, <1>5
  <2>4. Sorted(v, c, k + 1, h)
    BY <1>2, <2>1, <2>2, <2>3 DEF Sorted
  <2>5. QED BY <2>4 DEF h
<1>6. CASE Elsewhere(v, k + 1)
  <2>1. h = [g EXCEPT ![s0] = Append(@, m)]
    BY <1>6 DEF Taken, Joined, Elsewhere
  <2>2. s0 \in Stacks /\ (s0 \in {"left", "right"} => beside)
    BY DEF StackFor, Stacks
  <2> HIDE DEF h, s0, m, beside, V
  <2>3. /\ h \in [Stacks -> Seq(V)]
        /\ Len(g[s0]) + 1 \in 1..Len(h[s0]) /\ h[s0][Len(g[s0]) + 1] = m
        /\ \A s \in Stacks : \A i \in 1..Len(g[s]) : i \in 1..Len(h[s]) /\ h[s][i] = g[s][i]
        /\ \A s \in Stacks : \A i \in 1..Len(h[s]) :
              \/ i \in 1..Len(g[s]) /\ h[s][i] = g[s][i]
              \/ s = s0 /\ i = Len(g[s0]) + 1 /\ h[s][i] = m
    BY <1>1, <1>2, <2>1, <2>2, JoiningOne
  <2>4. \A s \in Stacks : \A i \in 1..Len(g[s]) : g[s][i] # m
    <3>1. SUFFICES ASSUME NEW s \in Stacks, NEW i \in 1..Len(g[s]), g[s][i] = m PROVE FALSE
      OBVIOUS
    <3>2. PICK j \in 1..k : g[s][i] = v[j]
      BY <1>2
    <3>3. v[j] = v[k + 1] /\ j \in 1..Len(v) /\ k + 1 \in 1..Len(v)
      BY <1>1, <3>1, <3>2 DEF m
    <3>4. j = k + 1
      BY <3>3, <1>1
    <3>5. QED BY <3>4
  <2>5. \A s \in Stacks : \A i \in 1..Len(h[s]) : \E j \in 1..(k + 1) : Elsewhere(v, j) /\ h[s][i] = v[j]
    <3>1. SUFFICES ASSUME NEW s \in Stacks, NEW i \in 1..Len(h[s])
                   PROVE  \E j \in 1..(k + 1) : Elsewhere(v, j) /\ h[s][i] = v[j]
      OBVIOUS
    <3>2. CASE i \in 1..Len(g[s]) /\ h[s][i] = g[s][i]
      BY <1>2, <1>4, <3>2
    <3>3. CASE h[s][i] = m
      <4>1. k + 1 \in 1..(k + 1)
        OBVIOUS
      <4>2. QED BY <1>6, <3>3, <4>1 DEF m
    <3>4. QED BY <2>3, <3>2, <3>3
  <2>6. \A j \in 1..(k + 1) : Elsewhere(v, j) => \E s \in Stacks : \E i \in 1..Len(h[s]) : h[s][i] = v[j]
    <3>1. SUFFICES ASSUME NEW j \in 1..(k + 1), Elsewhere(v, j)
                   PROVE  \E s \in Stacks : \E i \in 1..Len(h[s]) : h[s][i] = v[j]
      OBVIOUS
    <3>2. CASE j = k + 1
      BY <2>2, <2>3, <3>2 DEF m
    <3>3. CASE j \in 1..k
      <4>1. PICK s \in Stacks : \E i \in 1..Len(g[s]) : g[s][i] = v[j]
        BY <1>2, <3>1, <3>3
      <4>2. PICK i \in 1..Len(g[s]) : g[s][i] = v[j]
        BY <4>1
      <4>3. i \in 1..Len(h[s]) /\ h[s][i] = v[j]
        BY <2>3, <4>2
      <4>4. QED BY <4>3
    <3>4. QED BY <1>3, <3>2, <3>3
  <2>7. \A s, t \in Stacks : \A i \in 1..Len(h[s]), j \in 1..Len(h[t]) :
           h[s][i] = h[t][j] => s = t /\ i = j
    <3>1. SUFFICES ASSUME NEW s \in Stacks, NEW t \in Stacks,
                          NEW i \in 1..Len(h[s]), NEW j \in 1..Len(h[t]), h[s][i] = h[t][j]
                   PROVE  s = t /\ i = j
      OBVIOUS
    <3>2. \/ i \in 1..Len(g[s]) /\ h[s][i] = g[s][i]
          \/ s = s0 /\ i = Len(g[s0]) + 1 /\ h[s][i] = m
      BY <2>3
    <3>3. \/ j \in 1..Len(g[t]) /\ h[t][j] = g[t][j]
          \/ t = s0 /\ j = Len(g[s0]) + 1 /\ h[t][j] = m
      BY <2>3
    <3>4. QED BY <1>2, <2>4, <3>1, <3>2, <3>3
  <2>8. \A s \in {"left", "right"} : \A i \in 1..Len(h[s]) : FitsBeside(v[PrimaryAt(v)], c, h[s][i])
    <3>1. SUFFICES ASSUME NEW s \in {"left", "right"}, NEW i \in 1..Len(h[s])
                   PROVE  FitsBeside(v[PrimaryAt(v)], c, h[s][i])
      OBVIOUS
    <3>2. s \in Stacks
      BY DEF Stacks
    <3>3. CASE i \in 1..Len(g[s]) /\ h[s][i] = g[s][i]
      BY <1>2, <3>3
    <3>4. CASE s = s0 /\ h[s][i] = m
      BY <2>2, <3>4 DEF beside
    <3>5. QED BY <2>3, <3>2, <3>3, <3>4
  <2>9. Sorted(v, c, k + 1, h)
    BY <2>3, <2>5, <2>6, <2>7, <2>8 DEF Sorted, V
  <2>10. QED BY <2>9 DEF h
<1>7. QED BY <1>5, <1>6

\* When all are taken, each visual is in one place of one stack.
LEMMA StackedSorts ==
    ASSUME NEW v, NEW c, HandedIn(v, c)
    PROVE  Sorted(v, c, Len(v), Stacked(v, c))
<1>1. Len(v) \in Nat
  BY HandedFacts
<1>2. PICK f : Taking(v, c, f, Len(v)) /\ Stacked(v, c) = f[Len(v)]
  BY <1>1, StackedIs
<1>3. /\ f[0] = [s \in Stacks |-> <<>>]
      /\ \A n \in Nat : n + 1 <= Len(v) => f[n + 1] = Taken(v, c, n + 1, f[n])
  <2>1. \A k \in 0..Len(v) :
           f[k] = IF k = 0 THEN [s \in Stacks |-> <<>>] ELSE Taken(v, c, k, f[k - 1])
    BY <1>2 DEF Taking
  <2>2. 0 \in 0..Len(v)
    BY <1>1
  <2>3. ASSUME NEW n \in Nat, n + 1 <= Len(v) PROVE f[n + 1] = Taken(v, c, n + 1, f[n])
    <3>1. n + 1 \in 0..Len(v) /\ n + 1 # 0 /\ (n + 1) - 1 = n
      BY <1>1, <2>3
    <3>2. QED BY <2>1, <3>1
  <2>4. QED BY <2>1, <2>2, <2>3
<1> DEFINE S == {n \in Nat : n <= Len(v) => Sorted(v, c, n, f[n])}
<1>4. 0 \in S
  <2>1. f[0] \in [Stacks -> Seq(Range(v))] /\ \A s \in Stacks : Len(f[0][s]) = 0
    BY <1>3
  <2>2. \A s \in Stacks : 1..Len(f[0][s]) = {}
    BY <2>1
  <2>3. "left" \in Stacks /\ "right" \in Stacks /\ 1..0 = {}
    BY DEF Stacks
  <2>4. Sorted(v, c, 0, f[0])
    BY <2>1, <2>2, <2>3 DEF Sorted
  <2>5. QED BY <2>4
<1>5. ASSUME NEW n \in Nat, n \in S PROVE n + 1 \in S
  <2>1. SUFFICES ASSUME n + 1 <= Len(v) PROVE Sorted(v, c, n + 1, f[n + 1])
    OBVIOUS
  <2>2. Sorted(v, c, n, f[n])
    BY <1>1, <1>5, <2>1
  <2>3. Sorted(v, c, n + 1, Taken(v, c, n + 1, f[n]))
    <3> HIDE DEF S
    <3>1. QED BY <1>1, <2>1, <2>2, SortedStep
  <2>4. f[n + 1] = Taken(v, c, n + 1, f[n])
    BY <1>3, <2>1
  <2>5. QED BY <2>3, <2>4
<1>6. Len(v) \in S
  <2> HIDE DEF S
  <2>1. QED BY <1>1, <1>4, <1>5, NatInd
<1>7. QED BY <1>1, <1>2, <1>6

-----------------------------------------------------------------------------
(* Where everything goes.                                                   *)

StackOf(a) ==
    [s \in Stacks |-> CASE s = "left" -> a.left
                        [] s = "right" -> a.right
                        [] s = "above" -> a.above
                        [] s = "below" -> a.below]

\* Every visual has one place: it is the primary one, or once in one stack.
EachPlaced(v, c, a) ==
    /\ a.primary \in Range(v)
    /\ StackOf(a) \in [Stacks -> Seq(Range(v))]
    /\ \A m \in Range(v) : m = a.primary \/ \E s \in Stacks : \E i \in 1..Len(StackOf(a)[s]) : StackOf(a)[s][i] = m
    /\ \A s \in Stacks : \A i \in 1..Len(StackOf(a)[s]) : StackOf(a)[s][i] # a.primary
    /\ \A s, t \in Stacks : \A i \in 1..Len(StackOf(a)[s]), j \in 1..Len(StackOf(a)[t]) :
          StackOf(a)[s][i] = StackOf(a)[t][j] => s = t /\ i = j
    /\ \A s \in {"left", "right"} : \A i \in 1..Len(StackOf(a)[s]) : FitsBeside(a.primary, c, StackOf(a)[s][i])

\* _arrange puts each visual in one place: it loses none and repeats none.
LEMMA ArrangementPlaces ==
    ASSUME NEW v, NEW c, HandedIn(v, c)
    PROVE  EachPlaced(v, c, Arrangement(v, c))
<1> DEFINE a == Arrangement(v, c)
           g == Stacked(v, c)
           h == StackOf(a)
           p == PrimaryAt(v)
           q == AnswerAt(v)
<1>1. /\ p \in 1..Len(v) /\ (q = None \/ q \in 1..Len(v))
      /\ q = p => 1..Len(v) = {p}
  BY Positions
<1>2. /\ \A k \in 1..Len(v) : v[k] \in Range(v)
      /\ \A m \in Range(v) : \E k \in 1..Len(v) : m = v[k]
      /\ \A j, k \in 1..Len(v) : v[j] = v[k] => j = k
  BY HandedFacts
<1>3. /\ g \in [Stacks -> Seq(Range(v))]
      /\ \A s \in Stacks : \A i \in 1..Len(g[s]) : \E j \in 1..Len(v) : Elsewhere(v, j) /\ g[s][i] = v[j]
      /\ \A j \in 1..Len(v) : Elsewhere(v, j) => \E s \in Stacks : \E i \in 1..Len(g[s]) : g[s][i] = v[j]
      /\ \A s, t \in Stacks : \A i \in 1..Len(g[s]), j \in 1..Len(g[t]) :
            g[s][i] = g[t][j] => s = t /\ i = j
      /\ \A s \in {"left", "right"} : \A i \in 1..Len(g[s]) : FitsBeside(v[p], c, g[s][i])
  BY StackedSorts DEF Sorted
<1>4. /\ a.primary = v[p] /\ a.left = g["left"] /\ a.right = g["right"] /\ a.above = g["above"]
      /\ a.below = WithAnswer(g["below"], v)
  BY DEF Arrangement
<1> HIDE DEF a, g
<1>5. CASE q \in {None, p}
  <2>1. h = g
    <3>1. a.below = g["below"]
      BY <1>4, <1>5 DEF WithAnswer
    <3>2. h = [s \in Stacks |-> g[s]]
      BY <1>4, <3>1 DEF StackOf, Stacks
    <3>3. QED BY <1>3, <3>2
  <2>2. ASSUME NEW m \in Range(v)
        PROVE m = v[p] \/ \E s \in Stacks : \E i \in 1..Len(g[s]) : g[s][i] = m
    <3>1. PICK k \in 1..Len(v) : m = v[k]
      BY <1>2
    <3>2. k = p \/ Elsewhere(v, k)
      <4>1. q # k \/ k = p
        BY <1>5, NoneAssumption
      <4>2. QED BY <4>1 DEF Elsewhere
    <3>3. QED BY <1>3, <3>1, <3>2
  <2>3. ASSUME NEW s \in Stacks, NEW i \in 1..Len(g[s]) PROVE g[s][i] # v[p]
    <3>1. PICK j \in 1..Len(v) : Elsewhere(v, j) /\ g[s][i] = v[j]
      BY <1>3
    <3>2. QED BY <1>1, <1>2, <3>1 DEF Elsewhere
  <2> HIDE DEF h
  <2>4. QED BY <1>1, <1>2, <1>3, <1>4, <2>1, <2>2, <2>3 DEF EachPlaced, a, h
<1>6. CASE q \notin {None, p}
  <2>1. q \in 1..Len(v) /\ v[q] \in Range(v) /\ "below" \in Stacks
    BY <1>1, <1>2, <1>6 DEF Stacks
  <2>2. h = [g EXCEPT !["below"] = Append(@, v[q])]
    <3>1. a.below = Append(g["below"], v[q])
      BY <1>4, <1>6 DEF WithAnswer
    <3>2. h = [s \in Stacks |-> IF s = "below" THEN Append(g["below"], v[q]) ELSE g[s]]
      BY <1>4, <3>1 DEF StackOf, Stacks
    <3>3. QED BY <1>3, <3>2
  <2> HIDE DEF h
  <2>3. /\ h \in [Stacks -> Seq(Range(v))]
        /\ Len(g["below"]) + 1 \in 1..Len(h["below"]) /\ h["below"][Len(g["below"]) + 1] = v[q]
        /\ \A s \in Stacks : \A i \in 1..Len(g[s]) : i \in 1..Len(h[s]) /\ h[s][i] = g[s][i]
        /\ \A s \in Stacks : \A i \in 1..Len(h[s]) :
              \/ i \in 1..Len(g[s]) /\ h[s][i] = g[s][i]
              \/ s = "below" /\ i = Len(g["below"]) + 1 /\ h[s][i] = v[q]
    BY <1>3, <2>1, <2>2, JoiningOne
  <2>4. ASSUME NEW s \in Stacks, NEW i \in 1..Len(g[s]) PROVE g[s][i] # v[p] /\ g[s][i] # v[q]
    <3>1. PICK j \in 1..Len(v) : Elsewhere(v, j) /\ g[s][i] = v[j]
      BY <1>3
    <3>2. QED BY <1>1, <1>2, <2>1, <3>1 DEF Elsewhere
  <2>5. ASSUME NEW m \in Range(v)
        PROVE m = v[p] \/ \E s \in Stacks : \E i \in 1..Len(h[s]) : h[s][i] = m
    <3>1. PICK k \in 1..Len(v) : m = v[k]
      BY <1>2
    <3>2. CASE k = q
      BY <2>1, <2>3, <3>1, <3>2
    <3>3. CASE k = p
      BY <3>1, <3>3
    <3>4. CASE k # p /\ k # q
      <4>1. PICK s \in Stacks : \E i \in 1..Len(g[s]) : g[s][i] = v[k]
        BY <1>3, <3>4 DEF Elsewhere
      <4>2. PICK i \in 1..Len(g[s]) : g[s][i] = v[k]
        BY <4>1
      <4>3. i \in 1..Len(h[s]) /\ h[s][i] = m
        BY <2>3, <3>1, <4>2
      <4>4. QED BY <4>3
    <3>5. QED BY <3>2, <3>3, <3>4
  <2>6. ASSUME NEW s \in Stacks, NEW i \in 1..Len(h[s]) PROVE h[s][i] # v[p]
    <3>1. v[q] # v[p]
      BY <1>1, <1>2, <1>6, <2>1
    <3>2. QED BY <2>3, <2>4, <3>1
  <2>7. ASSUME NEW s \in Stacks, NEW t \in Stacks,
               NEW i \in 1..Len(h[s]), NEW j \in 1..Len(h[t]), h[s][i] = h[t][j]
        PROVE  s = t /\ i = j
    <3>1. \/ i \in 1..Len(g[s]) /\ h[s][i] = g[s][i]
          \/ s = "below" /\ i = Len(g["below"]) + 1 /\ h[s][i] = v[q]
      BY <2>3
    <3>2. \/ j \in 1..Len(g[t]) /\ h[t][j] = g[t][j]
          \/ t = "below" /\ j = Len(g["below"]) + 1 /\ h[t][j] = v[q]
      BY <2>3
    <3>3. QED BY <1>3, <2>4, <2>7, <3>1, <3>2
  <2>8. ASSUME NEW s \in {"left", "right"}, NEW i \in 1..Len(h[s]) PROVE FitsBeside(v[p], c, h[s][i])
    <3>1. s \in Stacks /\ s # "below"
      BY DEF Stacks
    <3>2. i \in 1..Len(g[s]) /\ h[s][i] = g[s][i]
      BY <2>3, <3>1
    <3>3. QED BY <1>3, <3>2
  <2>9. QED BY <1>1, <1>2, <1>4, <2>3, <2>5, <2>6, <2>7, <2>8 DEF EachPlaced, a, h
<1>7. QED BY <1>5, <1>6

-----------------------------------------------------------------------------
(* The scale that is found.                                                 *)

\* Visuals that take some room.
Sized(V) ==
    \A m \in V : /\ m.left \in Int /\ m.right \in Int /\ m.bottom \in Int /\ m.top \in Int
                 /\ m.left < m.right /\ m.bottom < m.top

\* A visual that takes some room has a width and a height.
LEMMA Sizes ==
    ASSUME NEW V, Sized(V), NEW m \in V
    PROVE  Width(m) \in Nat /\ Width(m) > 0 /\ Height(m) \in Nat /\ Height(m) > 0
BY DEF Sized, Width, Height

\* The visuals of a stack, and their widths and heights.
LEMMA StackSizes ==
    ASSUME NEW V, Sized(V), NEW items \in Seq(V)
    PROVE  /\ Len(items) \in Nat /\ \A k \in 1..Len(items) : items[k] \in V
           /\ Range(items) \subseteq V /\ \A k \in 1..Len(items) : items[k] \in Range(items)
           /\ Widths(items) \in Seq(Nat) /\ Len(Widths(items)) = Len(items)
           /\ \A k \in 1..Len(items) : Widths(items)[k] = Width(items[k])
           /\ Heights(items) \in Seq(Nat) /\ Len(Heights(items)) = Len(items)
           /\ \A k \in 1..Len(items) : Heights(items)[k] = Height(items[k])
           /\ Range(Widths(items)) = {Width(m) : m \in Range(items)}
           /\ Range(Heights(items)) = {Height(m) : m \in Range(items)}
<1>1. /\ Len(items) \in Nat /\ DOMAIN items = 1..Len(items)
      /\ \A k \in 1..Len(items) : items[k] \in V
  OBVIOUS
<1>2. \A k \in 1..Len(items) : Width(items[k]) \in Nat /\ Height(items[k]) \in Nat
  BY <1>1, Sizes
<1>3. /\ Widths(items) = [k \in 1..Len(items) |-> Width(items[k])]
      /\ Heights(items) = [k \in 1..Len(items) |-> Height(items[k])]
  BY <1>1 DEF Widths, Heights
<1>4. Widths(items) \in Seq(Nat) /\ Len(Widths(items)) = Len(items)
  BY <1>1, <1>2, <1>3
<1>5. Heights(items) \in Seq(Nat) /\ Len(Heights(items)) = Len(items)
  BY <1>1, <1>2, <1>3
<1>6. Range(items) \subseteq V /\ \A k \in 1..Len(items) : items[k] \in Range(items)
  BY <1>1 DEF Range
<1>7. /\ Range(Widths(items)) = {Width(m) : m \in Range(items)}
      /\ Range(Heights(items)) = {Height(m) : m \in Range(items)}
  BY <1>1, <1>3 DEF Range
<1>8. QED BY <1>1, <1>3, <1>4, <1>5, <1>6, <1>7

\* An arrangement of visuals that take some room.
Arranged(V, a) ==
    /\ Sized(V) /\ a.primary \in V
    /\ a.left \in Seq(V) /\ a.right \in Seq(V) /\ a.above \in Seq(V) /\ a.below \in Seq(V)

\* Among the visuals of a stack one is widest and one is highest.
LEMMA WidthsHaveMost ==
    ASSUME NEW V, Sized(V), NEW items \in Seq(V)
    PROVE  /\ {Width(m) : m \in Range(items)} \subseteq Int
           /\ {Width(m) : m \in Range(items)} = {} \/ HasMost({Width(m) : m \in Range(items)})
           /\ {Height(m) : m \in Range(items)} \subseteq Int
           /\ {Height(m) : m \in Range(items)} = {} \/ HasMost({Height(m) : m \in Range(items)})
<1>1. Widths(items) \in Seq(Int) /\ Heights(items) \in Seq(Int)
  <2>1. Widths(items) \in Seq(Nat) /\ Heights(items) \in Seq(Nat)
    BY StackSizes
  <2>2. QED BY <2>1
<1>2. /\ Range(Widths(items)) \subseteq Int
      /\ Range(Widths(items)) = {} \/ HasMost(Range(Widths(items)))
      /\ Range(Heights(items)) \subseteq Int
      /\ Range(Heights(items)) = {} \/ HasMost(Range(Heights(items)))
  BY <1>1, SeqHasMost
<1>3. /\ Range(Widths(items)) = {Width(m) : m \in Range(items)}
      /\ Range(Heights(items)) = {Height(m) : m \in Range(items)}
  BY StackSizes
<1>4. QED BY <1>2, <1>3

\* The band is as high as whatever stands in it.
LEMMA Band ==
    ASSUME NEW V, NEW a, Arranged(V, a)
    PROVE  /\ BandHeight(a) \in Nat /\ BandHeight(a) > 0
           /\ \A m \in {a.primary} \cup Range(a.left) \cup Range(a.right) : Height(m) <= BandHeight(a)
<1> DEFINE P == {Height(a.primary)}
           L == {Height(m) : m \in Range(a.left)}
           R == {Height(m) : m \in Range(a.right)}
           All == {Height(m) : m \in {a.primary} \cup Range(a.left) \cup Range(a.right)}
<1>1. Sized(V) /\ a.primary \in V /\ a.left \in Seq(V) /\ a.right \in Seq(V)
  BY DEF Arranged
<1>2. Height(a.primary) \in Nat /\ Height(a.primary) > 0
  BY <1>1, Sizes
<1>3. L \subseteq Int /\ (L = {} \/ HasMost(L)) /\ R \subseteq Int /\ (R = {} \/ HasMost(R))
  BY <1>1, WidthsHaveMost
<1>4. P \subseteq Int /\ HasMost(P)
  BY <1>2 DEF HasMost
<1>5. All = (P \cup L) \cup R
  OBVIOUS
<1> HIDE DEF P, L, R, All
<1>6. HasMost(P \cup L)
  BY <1>3, <1>4, UnionHasMost
<1>7. HasMost((P \cup L) \cup R)
  BY <1>3, <1>4, <1>6, P \cup L \subseteq Int, UnionHasMost
<1>8. Max(All) \in All /\ All \subseteq Int /\ \A y \in All : y <= Max(All)
  BY <1>3, <1>4, <1>5, <1>7, MaxOf
<1>9. BandHeight(a) = Max(All)
  BY DEF BandHeight, All
<1>10. \A m \in {a.primary} \cup Range(a.left) \cup Range(a.right) : Height(m) \in All
  BY DEF All
<1>11. a.primary \in {a.primary} \cup Range(a.left) \cup Range(a.right)
  OBVIOUS
<1>12. Height(a.primary) <= Max(All) /\ Max(All) \in Int
  BY <1>8, <1>10, <1>11
<1>13. BandHeight(a) \in Nat /\ BandHeight(a) > 0
  BY <1>2, <1>9, <1>12
<1>14. \A m \in {a.primary} \cup Range(a.left) \cup Range(a.right) : Height(m) <= BandHeight(a)
  BY <1>8, <1>9, <1>10
<1>15. QED BY <1>13, <1>14

\* The rows are as wide as their widest.
LEMMA Widest ==
    ASSUME NEW V, NEW a, Arranged(V, a), NEW widest,
           widest = Max({0} \cup {Width(m) : m \in Range(a.above) \cup Range(a.below)})
    PROVE  /\ widest \in Nat
           /\ \A m \in Range(a.above) \cup Range(a.below) : Width(m) <= widest
<1> DEFINE P == {0}
           L == {Width(m) : m \in Range(a.above)}
           R == {Width(m) : m \in Range(a.below)}
           All == {0} \cup {Width(m) : m \in Range(a.above) \cup Range(a.below)}
<1>1. Sized(V) /\ a.above \in Seq(V) /\ a.below \in Seq(V)
  BY DEF Arranged
<1>3. L \subseteq Int /\ (L = {} \/ HasMost(L)) /\ R \subseteq Int /\ (R = {} \/ HasMost(R))
  BY <1>1, WidthsHaveMost
<1>4. P \subseteq Int /\ HasMost(P)
  BY DEF HasMost
<1>5. All = (P \cup L) \cup R
  OBVIOUS
<1>6. widest = Max(All) /\ 0 \in All
  OBVIOUS
<1>7. \A m \in Range(a.above) \cup Range(a.below) : Width(m) \in All
  OBVIOUS
<1> HIDE DEF P, L, R, All
<1>8. HasMost(P \cup L)
  BY <1>3, <1>4, UnionHasMost
<1>9. HasMost((P \cup L) \cup R)
  BY <1>3, <1>4, <1>8, P \cup L \subseteq Int, UnionHasMost
<1>10. Max(All) \in All /\ All \subseteq Int /\ \A y \in All : y <= Max(All)
  BY <1>3, <1>4, <1>5, <1>9, MaxOf
<1>11. Max(All) \in Int /\ 0 <= Max(All)
  BY <1>6, <1>10
<1>12. \A m \in Range(a.above) \cup Range(a.below) : Width(m) <= Max(All)
  BY <1>7, <1>10
<1>13. widest \in Nat
  BY <1>6, <1>11
<1>14. ASSUME NEW m \in Range(a.above) \cup Range(a.below) PROVE Width(m) <= widest
  BY <1>6, <1>12
<1>15. QED BY <1>13, <1>14

\* The room below the primary is no more than what any callout on it has.
LEMMA Room ==
    ASSUME NEW a, NEW c, a.primary.bottom \in Int,
           \A x \in OnPrimary(c, a.primary) : x.y \in Int /\ x.y >= a.primary.bottom
    PROVE  /\ CalloutRoom(a, c) = None \/ CalloutRoom(a, c) \in Int
           /\ \A x \in OnPrimary(c, a.primary) :
                 /\ CalloutRoom(a, c) \in Int
                 /\ CalloutRoom(a, c) <= x.y - a.primary.bottom + (IF a.below = <<>> THEN 0 ELSE Gap)
<1> DEFINE gap == IF a.below = <<>> THEN 0 ELSE Gap
           rooms == {x.y - a.primary.bottom + gap : x \in OnPrimary(c, a.primary)}
<1>1. gap \in Nat
  BY DEF Gap
<1>2. rooms \subseteq Nat
  <2> HIDE DEF gap
  <2>1. QED BY <1>1
<1>3. CASE rooms = {}
  <2>1. CalloutRoom(a, c) = None
    BY <1>3 DEF CalloutRoom
  <2>2. \A x \in OnPrimary(c, a.primary) : FALSE
    <3> HIDE DEF gap
    <3>1. QED BY <1>3
  <2>3. QED BY <2>1, <2>2
<1>4. CASE rooms # {}
  <2>1. CalloutRoom(a, c) = Min(rooms)
    BY <1>4 DEF CalloutRoom
  <2>2. \A x \in OnPrimary(c, a.primary) : x.y - a.primary.bottom + gap \in rooms
    OBVIOUS
  <2> HIDE DEF rooms
  <2>3. Min(rooms) \in rooms /\ \A y \in rooms : Min(rooms) <= y
    BY <1>2, <1>4, MinNat
  <2> HIDE DEF gap
  <2>4. CalloutRoom(a, c) \in Int
    <3>1. rooms \subseteq Int
      BY <1>2
    <3>2. QED BY <2>1, <2>3, <3>1, Zenon
  <2>5. \A x \in OnPrimary(c, a.primary) : CalloutRoom(a, c) <= x.y - a.primary.bottom + gap
    BY <2>1, <2>2, <2>3
  <2>6. QED BY <2>4, <2>5 DEF gap
<1>5. QED BY <1>3, <1>4

\* What the callouts reserve at the top and the bottom leaves more than one callout free.
LEMMA Pads ==
    ASSUME NEW a, NEW c
    PROVE  /\ TopPad(a, c) \in {0, Envelope} /\ BottomPad(a, c) \in {0, Envelope}
           /\ FreeHeight(a, c) \in Nat /\ FreeHeight(a, c) > Envelope
           /\ FreeHeight(a, c) = FrameHeight - TopPad(a, c) - BottomPad(a, c)
<1>1. TopPad(a, c) \in {0, Envelope} /\ BottomPad(a, c) \in {0, Envelope}
  BY DEF TopPad, BottomPad, OuterPad
<1>2. QED BY <1>1 DEF FreeHeight, FrameHeight, Envelope

\* At the scale that is found, every extent fits.
LEMMA ScaleFits ==
    ASSUME NEW V, NEW a, NEW c, Arranged(V, a),
           CalloutRoom(a, c) = None \/ CalloutRoom(a, c) \in Int,
           NEW s, s = Scale(a, c)
    PROVE  /\ s \in Rationals /\ s[1] <= s[2]
           /\ (Width(a.primary) + 2 * Reach(Widths(a.left))) * s[1] <= FrameWidth * s[2]
           /\ (Width(a.primary) + 2 * Reach(Widths(a.right))) * s[1] <= FrameWidth * s[2]
           /\ \A m \in Range(a.above) \cup Range(a.below) : Width(m) * s[1] <= FrameWidth * s[2]
           /\ ColumnHeight(a) * s[1] + CalloutPad(CalloutRoom(a, c), s) <= FreeHeight(a, c) * s[2]
<1> DEFINE left == FitSide(a.primary, a.left)
           right == FitSide(a.primary, a.right)
           down == FitVertical(ColumnHeight(a), FreeHeight(a, c), CalloutRoom(a, c))
           rows == FitRows(a)
           one == <<1, 1>>
           widest == Max({0} \cup {Width(m) : m \in Range(a.above) \cup Range(a.below)})
<1>1. /\ Sized(V) /\ a.primary \in V
      /\ a.left \in Seq(V) /\ a.right \in Seq(V) /\ a.above \in Seq(V) /\ a.below \in Seq(V)
  BY DEF Arranged
<1>2. /\ Width(a.primary) \in Nat
      /\ Reach(Widths(a.left)) \in Nat /\ Reach(Widths(a.right)) \in Nat
      /\ Reach(Heights(a.above)) \in Nat /\ Reach(Heights(a.below)) \in Nat
  <2>1. /\ Widths(a.left) \in Seq(Nat) /\ Widths(a.right) \in Seq(Nat)
        /\ Heights(a.above) \in Seq(Nat) /\ Heights(a.below) \in Seq(Nat)
    BY <1>1, StackSizes
  <2>2. QED BY <1>1, <2>1, Sizes, BeforeFacts
<1>3. ColumnHeight(a) \in Nat /\ ColumnHeight(a) > 0
  <2>1. BandHeight(a) \in Nat /\ BandHeight(a) > 0
    BY Band
  <2>2. QED BY <1>2, <2>1 DEF ColumnHeight
<1>4. FreeHeight(a, c) \in Nat /\ FreeHeight(a, c) > Envelope
  BY Pads
<1>5. widest \in Nat /\ \A m \in Range(a.above) \cup Range(a.below) : Width(m) <= widest
  BY Widest
<1>6. /\ left = Fit(FrameWidth, Width(a.primary) + 2 * Reach(Widths(a.left)))
      /\ right = Fit(FrameWidth, Width(a.primary) + 2 * Reach(Widths(a.right)))
      /\ rows = Fit(FrameWidth, widest)
  BY DEF FitSide, FitRows
<1> HIDE DEF widest
<1>7. FrameWidth \in Nat /\ Width(a.primary) + 2 * Reach(Widths(a.left)) \in Nat
      /\ Width(a.primary) + 2 * Reach(Widths(a.right)) \in Nat
  BY <1>2 DEF FrameWidth
<1>8. left \in Rationals /\ right \in Rationals /\ rows \in Rationals
  <2>1. one \in Rationals
    BY DEF Rationals
  <2>2. QED BY <1>5, <1>6, <1>7, <2>1, FitHolds
<1>9. down \in Rationals /\ one \in Rationals
  <2>1. one \in Rationals
    BY DEF Rationals
  <2>2. QED BY <1>3, <1>4, <2>1, ColumnFits
<1>10. s = Smaller(one, Smaller(Smaller(Smaller(left, right), down), rows))
  BY DEF Scale
<1> HIDE DEF left, right, down, rows, one
<1> DEFINE x == Smaller(left, right)
           y == Smaller(x, down)
           z == Smaller(y, rows)
<1>11. x \in Rationals /\ AtMost(x, left) /\ AtMost(x, right)
  BY <1>8, SmallerOf
<1> HIDE DEF x
<1>12. y \in Rationals /\ AtMost(y, x) /\ AtMost(y, down)
  BY <1>9, <1>11, SmallerOf
<1> HIDE DEF y
<1>13. z \in Rationals /\ AtMost(z, y) /\ AtMost(z, rows)
  BY <1>8, <1>12, SmallerOf
<1>14. s = Smaller(one, z)
  BY <1>10 DEF x, y
<1> HIDE DEF z
<1>15. s \in Rationals /\ AtMost(s, one) /\ AtMost(s, z)
  BY <1>9, <1>13, <1>14, SmallerOf
<1>16. AtMost(s, rows) /\ AtMost(s, y)
  BY <1>8, <1>12, <1>13, <1>15, AtMostTransitive
<1>17. AtMost(s, down) /\ AtMost(s, x)
  BY <1>9, <1>11, <1>12, <1>15, <1>16, AtMostTransitive
<1>18. AtMost(s, left) /\ AtMost(s, right)
  BY <1>8, <1>11, <1>15, <1>17, AtMostTransitive
<1>19. s[1] <= s[2]
  <2>1. s[1] * one[2] <= one[1] * s[2] /\ s[1] \in Nat /\ s[2] \in Nat
    BY <1>9, <1>15, AtMostIs, Rational
  <2>2. QED BY <2>1 DEF one
<1>20. /\ (Width(a.primary) + 2 * Reach(Widths(a.left))) * s[1] <= FrameWidth * s[2]
       /\ (Width(a.primary) + 2 * Reach(Widths(a.right))) * s[1] <= FrameWidth * s[2]
  BY <1>6, <1>7, <1>15, <1>18, FitHolds
<1>21. ASSUME NEW m \in Range(a.above) \cup Range(a.below) PROVE Width(m) * s[1] <= FrameWidth * s[2]
  <2>1. widest * s[1] <= FrameWidth * s[2]
    BY <1>5, <1>6, <1>7, <1>15, <1>16, FitHolds
  <2>2. Width(m) \in Nat /\ s[1] \in Nat /\ s[2] \in Nat
    <3>1. m \in V
      BY <1>1, StackSizes
    <3>2. QED BY <1>1, <1>15, <3>1, Sizes, Rational
  <2>3. Width(m) * s[1] <= widest * s[1]
    BY <1>5, <2>2, Scaled
  <2>4. QED BY <1>5, <1>7, <2>1, <2>2, <2>3, Width(m) * s[1] \in Nat, widest * s[1] \in Nat, FrameWidth * s[2] \in Nat
<1>22. ColumnHeight(a) * s[1] + CalloutPad(CalloutRoom(a, c), s) <= FreeHeight(a, c) * s[2]
  BY <1>3, <1>4, <1>15, <1>17, ColumnFits DEF down
<1>23. QED BY <1>15, <1>19, <1>20, <1>21, <1>22

-----------------------------------------------------------------------------
(* The boxes of one stack.                                                  *)

\* A length that is drawn at a scale of n.
AtScale(n, x) == n * x

\* Drawing keeps sums.
LEMMA AtScaleFacts ==
    ASSUME NEW n \in Nat, NEW x \in Nat, NEW y \in Nat
    PROVE  /\ AtScale(n, x) \in Nat /\ AtScale(n, y) \in Nat
           /\ AtScale(n, x + y) = AtScale(n, x) + AtScale(n, y)
           /\ AtScale(n, 2 * x + y) = 2 * AtScale(n, x) + AtScale(n, y)
BY DEF AtScale

\* Two lengths and a gap that fit in a third still fit when drawn.
LEMMA AtScaleSum ==
    ASSUME NEW n \in Nat, NEW x \in Nat, NEW y \in Nat, NEW z \in Nat, x + y + Gap <= z
    PROVE  /\ AtScale(n, x) \in Nat /\ AtScale(n, y) \in Nat /\ AtScale(n, z) \in Nat
           /\ AtScale(n, x) + AtScale(n, y) + AtScale(n, Gap) <= AtScale(n, z)
<1>1. (x + y + Gap) * n <= z * n
  BY Scaled DEF Gap
<1>2. (x + y + Gap) * n = n * x + n * y + n * Gap /\ z * n = n * z
  BY DEF Gap
<1>3. n * x \in Nat /\ n * y \in Nat /\ n * z \in Nat
  OBVIOUS
<1>4. QED BY <1>1, <1>2, <1>3 DEF AtScale

\* One after the other, inside what holds both.
LEMMA AtScaleOrder ==
    ASSUME NEW n \in Nat, NEW x \in Nat, NEW y \in Nat, NEW z \in Nat, x + y <= z
    PROVE  AtScale(n, x) + AtScale(n, y) <= AtScale(n, z)
<1>1. (x + y) * n <= z * n
  BY Scaled
<1>2. (x + y) * n = n * x + n * y /\ z * n = n * z
  OBVIOUS
<1>3. QED BY <1>1, <1>2 DEF AtScale

\* How far a visual beside an edge is moved.
LEMMA AtScaleGap ==
    ASSUME NEW n \in Nat, NEW x \in Nat, NEW y \in Nat
    PROVE  /\ AtScale(n, Gap) \in Nat /\ AtScale(n, Gap + x) \in Nat
           /\ 1 * n * (2 * (Gap + x) + y) = 2 * AtScale(n, Gap + x) + AtScale(n, y)
           /\ (-1) * n * (2 * (Gap + x) + y) = -(2 * AtScale(n, Gap + x) + AtScale(n, y))
BY DEF AtScale, Gap

RowBox(items, k, top, n) ==
    Box(items[k], 0, top - n * (2 * Before(Heights(items))[k] + Height(items[k])), n)

SideBox(items, k, edge, middle, direction, n) ==
    Box(items[k], edge + direction * n * (2 * (Gap + Before(Widths(items))[k]) + Width(items[k])), middle, n)

\* The sides of a box.
LEMMA BoxFacts ==
    ASSUME NEW m, NEW centre \in Int, NEW middle \in Int, NEW n \in Nat,
           NEW b, b = Box(m, centre, middle, n), Width(m) \in Nat, Height(m) \in Nat
    PROVE  /\ b.ref = m.ref
           /\ b.left = centre - AtScale(n, Width(m)) /\ b.right = centre + AtScale(n, Width(m))
           /\ b.bottom = middle - AtScale(n, Height(m)) /\ b.top = middle + AtScale(n, Height(m))
           /\ AtScale(n, Width(m)) \in Nat /\ AtScale(n, Height(m)) \in Nat
<1>1. Width(m) * n = AtScale(n, Width(m)) /\ Height(m) * n = AtScale(n, Height(m))
  BY DEF AtScale
<1>2. AtScale(n, Width(m)) \in Nat /\ AtScale(n, Height(m)) \in Nat
  BY AtScaleFacts
<1>3. /\ b.ref = m.ref
      /\ b.left = centre - Width(m) * n /\ b.right = centre + Width(m) * n
      /\ b.bottom = middle - Height(m) * n /\ b.top = middle + Height(m) * n
  BY DEF Box
<1>4. QED BY <1>1, <1>2, <1>3

IsRow(b, m, x, top, n) == b = Box(m, 0, top - n * (2 * x + Height(m)), n)

IsRight(b, m, x, edge, middle, n) ==
    b = Box(m, edge + 1 * n * (2 * (Gap + x) + Width(m)), middle, n)

IsLeft(b, m, x, edge, middle, n) ==
    b = Box(m, edge + (-1) * n * (2 * (Gap + x) + Width(m)), middle, n)

\* A row below the cursor, and a visual to the right or to the left of it.
LEMMA OneRow ==
    ASSUME NEW m, Width(m) \in Nat, Height(m) \in Nat, NEW n \in Nat, NEW x \in Nat, NEW top \in Int,
           NEW b, IsRow(b, m, x, top, n)
    PROVE  /\ b.ref = m.ref
           /\ b.left = -AtScale(n, Width(m)) /\ b.right = AtScale(n, Width(m))
           /\ b.top = top - 2 * AtScale(n, x)
           /\ b.bottom = top - 2 * AtScale(n, x) - 2 * AtScale(n, Height(m))
           /\ AtScale(n, Width(m)) \in Nat /\ AtScale(n, Height(m)) \in Nat /\ AtScale(n, x) \in Nat
<1> DEFINE middle == top - AtScale(n, 2 * x + Height(m))
<1>1. b = Box(m, 0, middle, n)
  BY DEF AtScale, IsRow
<1>2. /\ AtScale(n, x) \in Nat /\ AtScale(n, Height(m)) \in Nat
      /\ AtScale(n, 2 * x + Height(m)) = 2 * AtScale(n, x) + AtScale(n, Height(m))
  BY AtScaleFacts
<1>3. middle \in Int /\ middle = top - 2 * AtScale(n, x) - AtScale(n, Height(m))
  BY <1>2
<1> HIDE DEF middle
<1>4. /\ b.ref = m.ref
      /\ b.left = 0 - AtScale(n, Width(m)) /\ b.right = 0 + AtScale(n, Width(m))
      /\ b.bottom = middle - AtScale(n, Height(m)) /\ b.top = middle + AtScale(n, Height(m))
      /\ AtScale(n, Width(m)) \in Nat
  BY <1>1, <1>3, BoxFacts, 0 \in Int
<1>5. QED BY <1>2, <1>3, <1>4

\* A visual to the right of an edge.
LEMMA OneRight ==
    ASSUME NEW m, Width(m) \in Nat, Height(m) \in Nat, NEW n \in Nat, NEW x \in Nat,
           NEW edge \in Int, NEW middle \in Int, NEW b, IsRight(b, m, x, edge, middle, n)
    PROVE  /\ b.ref = m.ref
           /\ b.left = edge + 2 * AtScale(n, Gap + x)
           /\ b.right = edge + 2 * AtScale(n, Gap + x) + 2 * AtScale(n, Width(m))
           /\ b.bottom = middle - AtScale(n, Height(m)) /\ b.top = middle + AtScale(n, Height(m))
           /\ AtScale(n, Width(m)) \in Nat /\ AtScale(n, Height(m)) \in Nat /\ AtScale(n, Gap + x) \in Nat
<1> DEFINE centre == edge + 1 * n * (2 * (Gap + x) + Width(m))
<1>1. b = Box(m, centre, middle, n)
  BY DEF IsRight
<1>2. /\ AtScale(n, Height(m)) \in Nat /\ AtScale(n, Width(m)) \in Nat /\ AtScale(n, Gap + x) \in Nat
  BY AtScaleFacts, AtScaleGap
<1>3. centre = edge + (2 * AtScale(n, Gap + x) + AtScale(n, Width(m)))
  BY AtScaleGap
<1> HIDE DEF centre
<1>4. centre \in Int
  BY <1>2, <1>3
<1>5. /\ b.ref = m.ref
      /\ b.left = centre - AtScale(n, Width(m)) /\ b.right = centre + AtScale(n, Width(m))
      /\ b.bottom = middle - AtScale(n, Height(m)) /\ b.top = middle + AtScale(n, Height(m))
  <2>1. /\ centre \in Int /\ middle \in Int /\ n \in Nat /\ b = Box(m, centre, middle, n)
        /\ Width(m) \in Nat /\ Height(m) \in Nat
    BY <1>1, <1>4
  <2>2. QED BY ONLY <2>1, BoxFacts
<1>6. QED BY <1>2, <1>3, <1>5

\* A visual to the left of an edge.
LEMMA OneLeft ==
    ASSUME NEW m, Width(m) \in Nat, Height(m) \in Nat, NEW n \in Nat, NEW x \in Nat,
           NEW edge \in Int, NEW middle \in Int, NEW b, IsLeft(b, m, x, edge, middle, n)
    PROVE  /\ b.ref = m.ref
           /\ b.left = edge - 2 * AtScale(n, Gap + x) - 2 * AtScale(n, Width(m))
           /\ b.right = edge - 2 * AtScale(n, Gap + x)
           /\ b.bottom = middle - AtScale(n, Height(m)) /\ b.top = middle + AtScale(n, Height(m))
           /\ AtScale(n, Width(m)) \in Nat /\ AtScale(n, Height(m)) \in Nat /\ AtScale(n, Gap + x) \in Nat
<1> DEFINE centre == edge + (-1) * n * (2 * (Gap + x) + Width(m))
<1>1. b = Box(m, centre, middle, n)
  BY DEF IsLeft
<1>2. /\ AtScale(n, Height(m)) \in Nat /\ AtScale(n, Width(m)) \in Nat /\ AtScale(n, Gap + x) \in Nat
  BY AtScaleFacts, AtScaleGap
<1>3. centre = edge + (-(2 * AtScale(n, Gap + x) + AtScale(n, Width(m))))
  BY AtScaleGap
<1> HIDE DEF centre
<1>4. centre \in Int
  BY <1>2, <1>3
<1>5. /\ b.ref = m.ref
      /\ b.left = centre - AtScale(n, Width(m)) /\ b.right = centre + AtScale(n, Width(m))
      /\ b.bottom = middle - AtScale(n, Height(m)) /\ b.top = middle + AtScale(n, Height(m))
  <2>1. /\ centre \in Int /\ middle \in Int /\ n \in Nat /\ b = Box(m, centre, middle, n)
        /\ Width(m) \in Nat /\ Height(m) \in Nat
    BY <1>1, <1>4
  <2>2. QED BY ONLY <2>1, BoxFacts
<1>6. QED BY <1>2, <1>3, <1>5

\* The cursor over the visuals of a stack, at a scale.
LEMMA ScaledCursor ==
    ASSUME NEW l \in Seq(Nat), NEW n \in Nat
    PROVE  /\ \A k \in 1..Len(l) :
                 /\ Before(l)[k] \in Nat
                 /\ AtScale(n, Before(l)[k]) \in Nat /\ AtScale(n, l[k]) \in Nat
                 /\ AtScale(n, Before(l)[k]) + AtScale(n, l[k]) + AtScale(n, Gap) <= AtScale(n, Reach(l))
           /\ \A j, k \in 1..Len(l) :
                 j < k => AtScale(n, Before(l)[j]) + AtScale(n, l[j]) + AtScale(n, Gap) <= AtScale(n, Before(l)[k])
           /\ AtScale(n, Reach(l)) \in Nat /\ AtScale(n, Gap) \in Nat
<1> DEFINE B == Before(l)
<1>1. /\ \A k \in 1..(Len(l) + 1) : B[k] \in Nat
      /\ \A j \in 1..Len(l), k \in 1..(Len(l) + 1) : j < k => B[j] + l[j] + Gap <= B[k]
      /\ Reach(l) \in Nat
      /\ \A j \in 1..Len(l) : B[j] + l[j] + Gap <= Reach(l)
  BY BeforeFacts
<1> HIDE DEF B
<1>2. Len(l) \in Nat /\ \A k \in 1..Len(l) : l[k] \in Nat /\ k \in 1..(Len(l) + 1)
  OBVIOUS
<1>3. AtScale(n, Reach(l)) \in Nat /\ AtScale(n, Gap) \in Nat
  BY <1>1, AtScaleFacts, AtScaleGap
<1>4. ASSUME NEW k \in 1..Len(l)
      PROVE  /\ B[k] \in Nat /\ AtScale(n, B[k]) \in Nat /\ AtScale(n, l[k]) \in Nat
             /\ AtScale(n, B[k]) + AtScale(n, l[k]) + AtScale(n, Gap) <= AtScale(n, Reach(l))
  <2>1. B[k] \in Nat /\ l[k] \in Nat /\ B[k] + l[k] + Gap <= Reach(l)
    BY <1>1, <1>2
  <2>2. QED BY <1>1, <2>1, AtScaleSum
<1>5. ASSUME NEW j \in 1..Len(l), NEW k \in 1..Len(l), j < k
      PROVE  AtScale(n, B[j]) + AtScale(n, l[j]) + AtScale(n, Gap) <= AtScale(n, B[k])
  <2>1. B[j] \in Nat /\ l[j] \in Nat /\ B[k] \in Nat /\ B[j] + l[j] + Gap <= B[k]
    BY <1>1, <1>2, <1>5
  <2>2. QED BY <2>1, AtScaleSum
<1>6. QED BY <1>3, <1>4, <1>5 DEF B

\* What is known of the box of a row, and of a visual beside an edge.
Hangs(items, k, top, n) ==
    LET b == RowBox(items, k, top, n)
        m == items[k]
    IN  /\ b.ref = m.ref /\ AtScale(n, Width(m)) \in Nat /\ AtScale(n, Height(m)) \in Nat
        /\ b.left = -AtScale(n, Width(m)) /\ b.right = AtScale(n, Width(m))
        /\ b.bottom \in Int /\ b.top = b.bottom + 2 * AtScale(n, Height(m))
        /\ b.top <= top
        /\ b.bottom >= top - 2 * AtScale(n, Reach(Heights(items))) + 2 * AtScale(n, Gap)

Beside(items, k, edge, middle, direction, n) ==
    LET b == SideBox(items, k, edge, middle, direction, n)
        m == items[k]
    IN  /\ b.ref = m.ref /\ AtScale(n, Width(m)) \in Nat /\ AtScale(n, Height(m)) \in Nat
        /\ b.left \in Int /\ b.right = b.left + 2 * AtScale(n, Width(m))
        /\ b.bottom = middle - AtScale(n, Height(m)) /\ b.top = middle + AtScale(n, Height(m))

Reaches(items, k, edge, middle, n) ==
    /\ SideBox(items, k, edge, middle, 1, n).left >= edge
    /\ SideBox(items, k, edge, middle, 1, n).right <= edge + 2 * AtScale(n, Reach(Widths(items)))
    /\ SideBox(items, k, edge, middle, -1, n).right <= edge
    /\ SideBox(items, k, edge, middle, -1, n).left >= edge - 2 * AtScale(n, Reach(Widths(items)))

\* Rows hang one below the other, inside what the whole stack takes.
LEMMA RowsHang ==
    ASSUME NEW V, Sized(V), NEW items \in Seq(V), NEW top \in Int, NEW n \in Nat
    PROVE  /\ \A k \in 1..Len(items) : Hangs(items, k, top, n)
           /\ \A j, k \in 1..Len(items) :
                 j < k => RowBox(items, k, top, n).top <= RowBox(items, j, top, n).bottom
           /\ AtScale(n, Reach(Heights(items))) \in Nat /\ AtScale(n, Gap) \in Nat
<1> DEFINE l == Heights(items)
           B == Before(l)
           b(k) == RowBox(items, k, top, n)
<1>1. /\ Len(items) \in Nat /\ \A k \in 1..Len(items) : items[k] \in V
      /\ l \in Seq(Nat) /\ Len(l) = Len(items)
      /\ \A k \in 1..Len(items) : l[k] = Height(items[k])
  BY StackSizes
<1>2. /\ \A k \in 1..Len(items) :
            /\ B[k] \in Nat
            /\ AtScale(n, B[k]) \in Nat
            /\ AtScale(n, B[k]) + AtScale(n, Height(items[k])) + AtScale(n, Gap) <= AtScale(n, Reach(l))
      /\ \A j, k \in 1..Len(items) :
            j < k => AtScale(n, B[j]) + AtScale(n, Height(items[j])) + AtScale(n, Gap) <= AtScale(n, B[k])
      /\ AtScale(n, Reach(l)) \in Nat /\ AtScale(n, Gap) \in Nat
  <2> HIDE DEF l
  <2>1. /\ \A k \in 1..Len(l) :
              /\ B[k] \in Nat /\ AtScale(n, B[k]) \in Nat
              /\ AtScale(n, B[k]) + AtScale(n, l[k]) + AtScale(n, Gap) <= AtScale(n, Reach(l))
        /\ \A j, k \in 1..Len(l) :
              j < k => AtScale(n, B[j]) + AtScale(n, l[j]) + AtScale(n, Gap) <= AtScale(n, B[k])
        /\ AtScale(n, Reach(l)) \in Nat /\ AtScale(n, Gap) \in Nat
    BY <1>1, ScaledCursor
  <2> HIDE DEF B
  <2>2. QED BY <1>1, <2>1
<1> HIDE DEF l, B, b
<1>3. ASSUME NEW k \in 1..Len(items)
      PROVE  /\ b(k).ref = items[k].ref
             /\ b(k).left = -AtScale(n, Width(items[k])) /\ b(k).right = AtScale(n, Width(items[k]))
             /\ b(k).top = top - 2 * AtScale(n, B[k])
             /\ b(k).bottom = top - 2 * AtScale(n, B[k]) - 2 * AtScale(n, Height(items[k]))
             /\ AtScale(n, Width(items[k])) \in Nat /\ AtScale(n, Height(items[k])) \in Nat
             /\ AtScale(n, B[k]) \in Nat
  <2>1. Width(items[k]) \in Nat /\ Height(items[k]) \in Nat /\ B[k] \in Nat
    BY <1>1, <1>2, Sizes
  <2>2. IsRow(b(k), items[k], B[k], top, n)
    BY DEF b, RowBox, B, l, IsRow
  <2>3. QED BY <2>1, <2>2, OneRow
<1>4. ASSUME NEW k \in 1..Len(items)
      PROVE  /\ b(k).bottom \in Int /\ b(k).top = b(k).bottom + 2 * AtScale(n, Height(items[k]))
             /\ b(k).top <= top
             /\ b(k).bottom >= top - 2 * AtScale(n, Reach(l)) + 2 * AtScale(n, Gap)
  <2>1. AtScale(n, B[k]) + AtScale(n, Height(items[k])) + AtScale(n, Gap) <= AtScale(n, Reach(l))
    BY <1>2
  <2>2. /\ b(k).top = top - 2 * AtScale(n, B[k])
        /\ b(k).bottom = top - 2 * AtScale(n, B[k]) - 2 * AtScale(n, Height(items[k]))
        /\ AtScale(n, B[k]) \in Nat /\ AtScale(n, Height(items[k])) \in Nat
        /\ AtScale(n, Reach(l)) \in Nat /\ AtScale(n, Gap) \in Nat
    BY <1>2, <1>3
  <2>3. b(k).bottom \in Int /\ b(k).top = b(k).bottom + 2 * AtScale(n, Height(items[k]))
    BY <2>2
  <2>4. b(k).top <= top
    BY <2>2
  <2>5. b(k).bottom >= top - 2 * AtScale(n, Reach(l)) + 2 * AtScale(n, Gap)
    BY <2>1, <2>2
  <2>6. QED BY <2>3, <2>4, <2>5
<1>5. ASSUME NEW j \in 1..Len(items), NEW k \in 1..Len(items), j < k
      PROVE  b(k).top <= b(j).bottom
  <2>1. AtScale(n, B[j]) + AtScale(n, Height(items[j])) + AtScale(n, Gap) <= AtScale(n, B[k])
    BY <1>2, <1>5
  <2>2. /\ b(k).top = top - 2 * AtScale(n, B[k])
        /\ b(j).bottom = top - 2 * AtScale(n, B[j]) - 2 * AtScale(n, Height(items[j]))
        /\ AtScale(n, B[k]) \in Nat /\ AtScale(n, B[j]) \in Nat /\ AtScale(n, Height(items[j])) \in Nat
        /\ AtScale(n, Gap) \in Nat
    BY <1>2, <1>3
  <2>3. QED BY <2>1, <2>2
<1>6. ASSUME NEW k \in 1..Len(items) PROVE Hangs(items, k, top, n)
  BY <1>3, <1>4 DEF Hangs, b, l
<1>7. QED BY <1>2, <1>5, <1>6 DEF b, l

\* What stands beside an edge is clear of it and of one another.
LEMMA SidesStand ==
    ASSUME NEW V, Sized(V), NEW items \in Seq(V), NEW edge \in Int, NEW middle \in Int, NEW n \in Nat
    PROVE  /\ \A k \in 1..Len(items), direction \in {-1, 1} : Beside(items, k, edge, middle, direction, n)
           /\ \A k \in 1..Len(items) : Reaches(items, k, edge, middle, n)
           /\ \A j, k \in 1..Len(items) :
                 j < k =>
                    /\ SideBox(items, j, edge, middle, 1, n).right <= SideBox(items, k, edge, middle, 1, n).left
                    /\ SideBox(items, k, edge, middle, -1, n).right <= SideBox(items, j, edge, middle, -1, n).left
           /\ AtScale(n, Reach(Widths(items))) \in Nat
<1> DEFINE l == Widths(items)
           B == Before(l)
           b(k) == SideBox(items, k, edge, middle, 1, n)
           c(k) == SideBox(items, k, edge, middle, -1, n)
<1>1. /\ Len(items) \in Nat /\ \A k \in 1..Len(items) : items[k] \in V
      /\ l \in Seq(Nat) /\ Len(l) = Len(items)
      /\ \A k \in 1..Len(items) : l[k] = Width(items[k])
  BY StackSizes
<1>2. /\ \A k \in 1..Len(items) :
            B[k] \in Nat /\ AtScale(n, Gap + B[k]) + AtScale(n, Width(items[k])) <= AtScale(n, Reach(l))
      /\ \A j, k \in 1..Len(items) :
            j < k => AtScale(n, Gap + B[j]) + AtScale(n, Width(items[j])) <= AtScale(n, Gap + B[k])
      /\ AtScale(n, Reach(l)) \in Nat
  <2> HIDE DEF l
  <2>1. /\ \A k \in 1..(Len(l) + 1) : B[k] \in Nat
        /\ \A j \in 1..Len(l), k \in 1..(Len(l) + 1) : j < k => B[j] + l[j] + Gap <= B[k]
        /\ Reach(l) \in Nat
        /\ \A j \in 1..Len(l) : B[j] + l[j] + Gap <= Reach(l)
    BY <1>1, BeforeFacts
  <2> HIDE DEF B
  <2>2. \A k \in 1..Len(items) : k \in 1..(Len(l) + 1) /\ k \in 1..Len(l) /\ Width(items[k]) \in Nat
    BY <1>1, Sizes
  <2>3. ASSUME NEW k \in 1..Len(items)
        PROVE  B[k] \in Nat /\ AtScale(n, Gap + B[k]) + AtScale(n, Width(items[k])) <= AtScale(n, Reach(l))
    <3>1. B[k] \in Nat /\ Width(items[k]) \in Nat /\ B[k] + Width(items[k]) + Gap <= Reach(l)
      BY <1>1, <2>1, <2>2
    <3>2. Gap + B[k] \in Nat /\ (Gap + B[k]) + Width(items[k]) <= Reach(l)
      BY <2>1, <3>1 DEF Gap
    <3>3. QED BY <2>1, <3>1, <3>2, AtScaleOrder
  <2>4. ASSUME NEW j \in 1..Len(items), NEW k \in 1..Len(items), j < k
        PROVE  AtScale(n, Gap + B[j]) + AtScale(n, Width(items[j])) <= AtScale(n, Gap + B[k])
    <3>1. B[j] \in Nat /\ B[k] \in Nat /\ Width(items[j]) \in Nat /\ B[j] + Width(items[j]) + Gap <= B[k]
      BY <1>1, <2>1, <2>2, <2>4
    <3>2. Gap + B[j] \in Nat /\ Gap + B[k] \in Nat /\ (Gap + B[j]) + Width(items[j]) <= Gap + B[k]
      BY <3>1 DEF Gap
    <3>3. QED BY <3>1, <3>2, AtScaleOrder
  <2>5. AtScale(n, Reach(l)) \in Nat
    BY <2>1, AtScaleFacts
  <2>6. QED BY <2>3, <2>4, <2>5
<1> HIDE DEF l, B, b, c
<1>3. ASSUME NEW k \in 1..Len(items)
      PROVE  /\ b(k).ref = items[k].ref /\ c(k).ref = items[k].ref
             /\ b(k).left = edge + 2 * AtScale(n, Gap + B[k])
             /\ b(k).right = edge + 2 * AtScale(n, Gap + B[k]) + 2 * AtScale(n, Width(items[k]))
             /\ c(k).left = edge - 2 * AtScale(n, Gap + B[k]) - 2 * AtScale(n, Width(items[k]))
             /\ c(k).right = edge - 2 * AtScale(n, Gap + B[k])
             /\ b(k).bottom = middle - AtScale(n, Height(items[k])) /\ b(k).top = middle + AtScale(n, Height(items[k]))
             /\ c(k).bottom = middle - AtScale(n, Height(items[k])) /\ c(k).top = middle + AtScale(n, Height(items[k]))
             /\ AtScale(n, Width(items[k])) \in Nat /\ AtScale(n, Height(items[k])) \in Nat
             /\ AtScale(n, Gap + B[k]) \in Nat
  <2>1. Width(items[k]) \in Nat /\ Height(items[k]) \in Nat /\ B[k] \in Nat
    BY <1>1, <1>2, Sizes
  <2>2. IsRight(b(k), items[k], B[k], edge, middle, n)
    BY DEF b, SideBox, B, l, IsRight
  <2>3. IsLeft(c(k), items[k], B[k], edge, middle, n)
    BY DEF c, SideBox, B, l, IsLeft
  <2>4. /\ b(k).ref = items[k].ref
        /\ b(k).left = edge + 2 * AtScale(n, Gap + B[k])
        /\ b(k).right = edge + 2 * AtScale(n, Gap + B[k]) + 2 * AtScale(n, Width(items[k]))
        /\ b(k).bottom = middle - AtScale(n, Height(items[k])) /\ b(k).top = middle + AtScale(n, Height(items[k]))
        /\ AtScale(n, Width(items[k])) \in Nat /\ AtScale(n, Height(items[k])) \in Nat
        /\ AtScale(n, Gap + B[k]) \in Nat
    BY <2>1, <2>2, OneRight
  <2>5. /\ c(k).ref = items[k].ref
        /\ c(k).left = edge - 2 * AtScale(n, Gap + B[k]) - 2 * AtScale(n, Width(items[k]))
        /\ c(k).right = edge - 2 * AtScale(n, Gap + B[k])
        /\ c(k).bottom = middle - AtScale(n, Height(items[k])) /\ c(k).top = middle + AtScale(n, Height(items[k]))
    <3> DEFINE x == B[k]
               m == items[k]
               box == c(k)
    <3>1. Width(m) \in Nat /\ Height(m) \in Nat /\ x \in Nat /\ IsLeft(box, m, x, edge, middle, n)
      BY <2>1, <2>3
    <3>2. AtScale(n, Gap + x) \in Nat /\ AtScale(n, Width(m)) \in Nat /\ AtScale(n, Height(m)) \in Nat
      BY <2>4
    <3> HIDE DEF x, m, box
    <3>3. /\ box.ref = m.ref
          /\ box.left = edge - 2 * AtScale(n, Gap + x) - 2 * AtScale(n, Width(m))
          /\ box.right = edge - 2 * AtScale(n, Gap + x)
          /\ box.bottom = middle - AtScale(n, Height(m)) /\ box.top = middle + AtScale(n, Height(m))
      BY <3>1, <3>2, OneLeft
    <3>4. QED BY <3>3 DEF x, m, box
  <2>6. QED BY <2>4, <2>5
<1>4. ASSUME NEW k \in 1..Len(items)
      PROVE  /\ b(k).left \in Int /\ b(k).right = b(k).left + 2 * AtScale(n, Width(items[k]))
             /\ c(k).left \in Int /\ c(k).right = c(k).left + 2 * AtScale(n, Width(items[k]))
             /\ b(k).left >= edge /\ b(k).right <= edge + 2 * AtScale(n, Reach(l))
             /\ c(k).right <= edge /\ c(k).left >= edge - 2 * AtScale(n, Reach(l))
  <2>1. AtScale(n, Gap + B[k]) + AtScale(n, Width(items[k])) <= AtScale(n, Reach(l))
    BY <1>2
  <2>2. /\ b(k).left = edge + 2 * AtScale(n, Gap + B[k])
        /\ b(k).right = edge + 2 * AtScale(n, Gap + B[k]) + 2 * AtScale(n, Width(items[k]))
        /\ c(k).left = edge - 2 * AtScale(n, Gap + B[k]) - 2 * AtScale(n, Width(items[k]))
        /\ c(k).right = edge - 2 * AtScale(n, Gap + B[k])
        /\ AtScale(n, Gap + B[k]) \in Nat /\ AtScale(n, Width(items[k])) \in Nat
        /\ AtScale(n, Reach(l)) \in Nat
    BY <1>2, <1>3
  <2>3. /\ b(k).left \in Int /\ b(k).right = b(k).left + 2 * AtScale(n, Width(items[k]))
    BY <2>2
  <2>4. /\ c(k).left \in Int /\ c(k).right = c(k).left + 2 * AtScale(n, Width(items[k]))
    BY <2>2
  <2>5. b(k).left >= edge /\ c(k).right <= edge
    BY <2>2
  <2>6. b(k).right <= edge + 2 * AtScale(n, Reach(l))
    BY <2>1, <2>2
  <2>7. c(k).left >= edge - 2 * AtScale(n, Reach(l))
    BY <2>1, <2>2
  <2>8. QED BY <2>3, <2>4, <2>5, <2>6, <2>7
<1>5. ASSUME NEW j \in 1..Len(items), NEW k \in 1..Len(items), j < k
      PROVE  b(j).right <= b(k).left /\ c(k).right <= c(j).left
  <2>1. AtScale(n, Gap + B[j]) + AtScale(n, Width(items[j])) <= AtScale(n, Gap + B[k])
    BY <1>2, <1>5
  <2>2. /\ b(k).left = edge + 2 * AtScale(n, Gap + B[k])
        /\ b(j).right = edge + 2 * AtScale(n, Gap + B[j]) + 2 * AtScale(n, Width(items[j]))
        /\ c(j).left = edge - 2 * AtScale(n, Gap + B[j]) - 2 * AtScale(n, Width(items[j]))
        /\ c(k).right = edge - 2 * AtScale(n, Gap + B[k])
        /\ AtScale(n, Gap + B[k]) \in Nat /\ AtScale(n, Gap + B[j]) \in Nat /\ AtScale(n, Width(items[j])) \in Nat
    BY <1>2, <1>3
  <2>3. b(j).right <= b(k).left
    BY <2>1, <2>2
  <2>4. c(k).right <= c(j).left
    BY <2>1, <2>2
  <2>5. QED BY <2>3, <2>4
<1>6. ASSUME NEW k \in 1..Len(items), NEW direction \in {-1, 1}
      PROVE  Beside(items, k, edge, middle, direction, n)
  <2>1. CASE direction = 1
    BY <1>3, <1>4, <2>1 DEF Beside, b
  <2>2. CASE direction = -1
    BY <1>3, <1>4, <2>2 DEF Beside, c
  <2>3. QED BY <2>1, <2>2
<1>7. ASSUME NEW k \in 1..Len(items) PROVE Reaches(items, k, edge, middle, n)
  BY <1>4 DEF Reaches, b, c, l
<1>8. QED BY <1>2, <1>5, <1>6, <1>7 DEF b, c, l

-----------------------------------------------------------------------------
(* The column and the band, drawn at the scale.                             *)

Below(a, c, s) ==
    MiddleOfBand(a, c, s) - s[1] * BandHeight(a) - 2 * s[1] * Gap
      - 2 * CalloutPad(CalloutRoom(a, c), s)

\* The lines that part the regions of the frame, in 1/(2d) hundredths.
Lines(a, c, s) ==
    [wide |-> FrameWidth * s[2], tall |-> FrameHeight * s[2],
     half |-> AtScale(s[1], Width(a.primary)),
     top |-> ColumnTop(a, c, s),
     bandTop |-> MiddleOfBand(a, c, s) + AtScale(s[1], BandHeight(a)),
     bandBottom |-> MiddleOfBand(a, c, s) - AtScale(s[1], BandHeight(a)),
     rows |-> Below(a, c, s),
     floor |-> Below(a, c, s) - 2 * AtScale(s[1], Reach(Heights(a.below))) + 2 * AtScale(s[1], Gap)]

\* The pad and the room below the primary are together as high as a callout.
LEMMA PadIs ==
    ASSUME NEW room, room = None \/ room \in Int, NEW s \in Rationals
    PROVE  /\ CalloutPad(room, s) \in Nat
           /\ room \in Int => CalloutPad(room, s) >= Envelope * s[2] - room * s[1]
<1>1. s[1] \in Nat /\ s[2] \in Nat
  BY Rational
<1>2. CASE room = None
  BY <1>2, NoneAssumption DEF CalloutPad
<1>3. CASE room \in Int
  <2>1. Envelope * s[2] \in Int /\ room * s[1] \in Int
    BY <1>1, <1>3 DEF Envelope
  <2>2. room # None
    BY <1>3, NoneAssumption
  <2>3. QED BY <2>1, <2>2 DEF CalloutPad, Most
<1>4. QED BY <1>2, <1>3

\* What the scale leaves: everything fits between the pads and between the sides.
LEMMA Fits ==
    ASSUME NEW V, NEW a, NEW c, Arranged(V, a),
           CalloutRoom(a, c) = None \/ CalloutRoom(a, c) \in Int,
           NEW s, s = Scale(a, c),
           NEW band, band = AtScale(s[1], BandHeight(a)),
           NEW up, up = AtScale(s[1], Reach(Heights(a.above))),
           NEW down, down = AtScale(s[1], Reach(Heights(a.below))),
           NEW pad, pad = CalloutPad(CalloutRoom(a, c), s)
    PROVE  /\ s \in Rationals /\ s[1] \in Nat /\ s[2] \in Nat
           /\ band \in Nat /\ up \in Nat /\ down \in Nat /\ pad \in Nat
           /\ TopPad(a, c) * s[2] \in Nat /\ BottomPad(a, c) * s[2] \in Nat /\ FrameHeight * s[2] \in Nat
           /\ (band + up + down) + pad <= FrameHeight * s[2] - TopPad(a, c) * s[2] - BottomPad(a, c) * s[2]
           /\ ColumnTop(a, c, s) = BottomPad(a, c) * s[2] - TopPad(a, c) * s[2] + (band + up + down) + pad
           /\ MiddleOfBand(a, c, s) = ColumnTop(a, c, s) - 2 * up - band
           /\ Below(a, c, s) = MiddleOfBand(a, c, s) - band - 2 * AtScale(s[1], Gap) - 2 * pad
           /\ AtScale(s[1], Gap) \in Nat
<1>1. /\ s \in Rationals
      /\ ColumnHeight(a) * s[1] + CalloutPad(CalloutRoom(a, c), s) <= FreeHeight(a, c) * s[2]
  BY ScaleFits
<1>2. s[1] \in Nat /\ s[2] \in Nat
  BY <1>1, Rational
<1>3. /\ BandHeight(a) \in Nat
      /\ Reach(Heights(a.above)) \in Nat /\ Reach(Heights(a.below)) \in Nat
  <2>1. BandHeight(a) \in Nat
    BY Band
  <2>2. Heights(a.above) \in Seq(Nat) /\ Heights(a.below) \in Seq(Nat)
    BY StackSizes DEF Arranged
  <2>3. QED BY <2>1, <2>2, BeforeFacts
<1>4. /\ ColumnHeight(a) * s[1] = band + up + down
      /\ s[1] * BandHeight(a) = band /\ 2 * s[1] * Reach(Heights(a.above)) = 2 * up
      /\ band \in Nat /\ up \in Nat /\ down \in Nat
  <2> DEFINE x == BandHeight(a)
             y == Reach(Heights(a.above))
             z == Reach(Heights(a.below))
             n == s[1]
  <2>1. x \in Nat /\ y \in Nat /\ z \in Nat /\ n \in Nat
    BY <1>2, <1>3
  <2>2. ColumnHeight(a) = x + y + z
    BY DEF ColumnHeight
  <2> HIDE DEF x, y, z, n
  <2>3. /\ (x + y + z) * n = AtScale(n, x) + AtScale(n, y) + AtScale(n, z)
        /\ AtScale(n, x) \in Nat /\ AtScale(n, y) \in Nat /\ AtScale(n, z) \in Nat
    BY <2>1 DEF AtScale
  <2>4. n * x = AtScale(n, x) /\ 2 * n * y = 2 * AtScale(n, y)
    BY <2>1 DEF AtScale
  <2>5. QED BY <2>2, <2>3, <2>4 DEF x, y, z, n
<1>5. pad \in Nat
  BY <1>1, PadIs
<1>6. /\ TopPad(a, c) \in Nat /\ BottomPad(a, c) \in Nat
      /\ FreeHeight(a, c) = FrameHeight - TopPad(a, c) - BottomPad(a, c)
  BY Pads DEF Envelope
<1>7. TopPad(a, c) * s[2] \in Nat /\ BottomPad(a, c) * s[2] \in Nat /\ FrameHeight * s[2] \in Nat
  BY <1>2, <1>6 DEF FrameHeight
<1>8. FreeHeight(a, c) * s[2] = FrameHeight * s[2] - TopPad(a, c) * s[2] - BottomPad(a, c) * s[2]
  BY <1>2, <1>6 DEF FrameHeight
<1>9. (band + up + down) + pad <= FrameHeight * s[2] - TopPad(a, c) * s[2] - BottomPad(a, c) * s[2]
  BY <1>1, <1>4, <1>8
<1>10. (BottomPad(a, c) - TopPad(a, c)) * s[2] = BottomPad(a, c) * s[2] - TopPad(a, c) * s[2]
  BY <1>2, <1>6
<1>11. ColumnTop(a, c, s) = BottomPad(a, c) * s[2] - TopPad(a, c) * s[2] + (band + up + down) + pad
  BY <1>4, <1>10 DEF ColumnTop
<1>12. MiddleOfBand(a, c, s) = ColumnTop(a, c, s) - 2 * up - band
  BY <1>4 DEF MiddleOfBand
<1>13. Below(a, c, s) = MiddleOfBand(a, c, s) - band - 2 * AtScale(s[1], Gap) - 2 * pad
  <2>1. 2 * s[1] * Gap = 2 * AtScale(s[1], Gap)
    BY <1>2 DEF AtScale, Gap
  <2>2. QED BY <1>4, <2>1 DEF Below
<1>14. AtScale(s[1], Gap) \in Nat
  BY <1>2 DEF AtScale, Gap
<1>15. QED BY <1>1, <1>2, <1>4, <1>5, <1>7, <1>9, <1>11, <1>12, <1>13, <1>14

\* The regions lie one above the other, and inside the frame.
LEMMA Column ==
    ASSUME NEW V, NEW a, NEW c, Arranged(V, a),
           CalloutRoom(a, c) = None \/ CalloutRoom(a, c) \in Int,
           NEW s, s = Scale(a, c), NEW g, g = Lines(a, c, s),
           NEW pad, pad = CalloutPad(CalloutRoom(a, c), s),
           NEW gap, gap = AtScale(s[1], Gap),
           NEW up, up = AtScale(s[1], Reach(Heights(a.above))),
           NEW down, down = AtScale(s[1], Reach(Heights(a.below)))
    PROVE  /\ g.top \in Int /\ g.bandTop \in Int /\ g.bandBottom \in Int /\ g.rows \in Int
           /\ g.floor \in Int /\ g.tall \in Nat /\ MiddleOfBand(a, c, s) \in Int
           /\ pad \in Nat /\ gap \in Nat /\ down \in Nat
           /\ g.bandBottom <= g.bandTop /\ g.bandTop <= g.top
           /\ g.bandTop = g.top - 2 * up
           /\ g.rows = g.bandBottom - 2 * gap - 2 * pad
           /\ g.floor = g.bandBottom - 2 * pad - 2 * down
           /\ g.top + 2 * (TopPad(a, c) * s[2]) <= g.tall
           /\ -g.tall + 2 * (BottomPad(a, c) * s[2]) <= g.floor
           /\ TopPad(a, c) * s[2] \in Nat /\ BottomPad(a, c) * s[2] \in Nat
<1> DEFINE band == AtScale(s[1], BandHeight(a))
           t == TopPad(a, c) * s[2]
           b == BottomPad(a, c) * s[2]
           f == FrameHeight * s[2]
           top == ColumnTop(a, c, s)
           middle == MiddleOfBand(a, c, s)
           rows == Below(a, c, s)
<1>1. /\ band \in Nat /\ up \in Nat /\ down \in Nat /\ pad \in Nat /\ gap \in Nat
      /\ t \in Nat /\ b \in Nat /\ f \in Nat
      /\ (band + up + down) + pad <= f - t - b
      /\ top = b - t + (band + up + down) + pad
      /\ middle = top - 2 * up - band
      /\ rows = middle - band - 2 * gap - 2 * pad
  BY Fits
<1>2. /\ g.tall = f /\ g.top = top /\ g.bandTop = middle + band /\ g.bandBottom = middle - band
      /\ g.rows = rows /\ g.floor = rows - 2 * down + 2 * gap
  BY DEF Lines
<1> HIDE DEF band, t, b, f, top, middle, rows
<1>3. top \in Int /\ middle \in Int /\ rows \in Int
  BY <1>1
<1>4. /\ g.top \in Int /\ g.bandTop \in Int /\ g.bandBottom \in Int /\ g.rows \in Int
      /\ g.floor \in Int /\ g.tall \in Nat
  BY <1>1, <1>2, <1>3
<1>5. g.bandBottom <= g.bandTop /\ g.bandTop <= g.top /\ g.bandTop = g.top - 2 * up
  BY <1>1, <1>2, <1>3
<1>6. g.rows = g.bandBottom - 2 * gap - 2 * pad
  BY <1>1, <1>2, <1>3
<1>7. g.floor = g.bandBottom - 2 * pad - 2 * down
  BY <1>1, <1>2, <1>3
<1>8. g.top + 2 * t <= g.tall
  BY <1>1, <1>2, <1>3
<1>9. -g.tall + 2 * b <= g.floor
  <2>1. g.floor = b - t - (band + up + down) - pad
    BY <1>1, <1>2, <1>3
  <2>2. QED BY <1>1, <1>2, <2>1
<1>10. QED BY <1>1, <1>3, <1>4, <1>5, <1>6, <1>7, <1>8, <1>9 DEF t, b, middle

-----------------------------------------------------------------------------
(* The box of every visual, and the region that it stands in.               *)

PrimaryBox(a, c, s) == Box(a.primary, 0, MiddleOfBand(a, c, s), s[1])

\* The box of the k-th visual of a stack.
PlaceOf(a, c, s, stack, k) ==
    CASE stack = "left" ->
            SideBox(a.left, k, PrimaryBox(a, c, s).left, MiddleOfBand(a, c, s), -1, s[1])
      [] stack = "right" ->
            SideBox(a.right, k, PrimaryBox(a, c, s).right, MiddleOfBand(a, c, s), 1, s[1])
      [] stack = "above" -> RowBox(a.above, k, ColumnTop(a, c, s), s[1])
      [] stack = "below" -> RowBox(a.below, k, Below(a, c, s), s[1])

\* A visual is drawn at its size, as a box of whole numbers.
Sketched(m, b, n) ==
    /\ b.ref = m.ref
    /\ b.left \in Int /\ b.right = b.left + 2 * AtScale(n, Width(m)) /\ AtScale(n, Width(m)) \in Nat
    /\ b.bottom \in Int /\ b.top = b.bottom + 2 * AtScale(n, Height(m)) /\ AtScale(n, Height(m)) \in Nat

InBand(g, b) == g.bandBottom <= b.bottom /\ b.top <= g.bandTop

\* The region of a stack, or of the primary.
Region(g, stack, b) ==
    /\ -g.wide <= b.left /\ b.right <= g.wide
    /\ stack = "primary" => -g.half <= b.left /\ b.right <= g.half /\ InBand(g, b)
    /\ stack = "left" => b.right <= -g.half /\ InBand(g, b)
    /\ stack = "right" => g.half <= b.left /\ InBand(g, b)
    /\ stack = "above" => g.bandTop <= b.bottom /\ b.top <= g.top
    /\ stack = "below" => g.floor <= b.bottom /\ b.top <= g.rows

\* The lines are in their order.
Ordered(g) ==
    /\ g.top \in Int /\ g.bandTop \in Int /\ g.bandBottom \in Int /\ g.rows \in Int
    /\ g.floor \in Int /\ g.tall \in Nat /\ g.half \in Nat
    /\ g.bandBottom <= g.bandTop /\ g.bandTop <= g.top /\ g.top <= g.tall
    /\ g.rows <= g.bandBottom /\ g.floor <= g.bandBottom /\ -g.tall <= g.floor

\* Whatever stands in two regions is apart.
LEMMA RegionsApart ==
    ASSUME NEW g, Ordered(g), NEW stack \in Stacks \cup {"primary"}, NEW other \in Stacks \cup {"primary"},
           stack # other,
           NEW b, b.left \in Int, b.right \in Int, b.bottom \in Int, b.top \in Int, Region(g, stack, b),
           NEW d, d.left \in Int, d.right \in Int, d.bottom \in Int, d.top \in Int, Region(g, other, d)
    PROVE  Apart(b, d)
<1>1. /\ g.bandTop \in Int /\ g.bandBottom \in Int /\ g.rows \in Int /\ g.half \in Nat
      /\ g.bandBottom <= g.bandTop /\ g.rows <= g.bandBottom
  BY DEF Ordered
<1>2. ASSUME stack \in {"primary", "left", "right"} PROVE InBand(g, b)
  BY <1>2 DEF Region
<1>3. ASSUME other \in {"primary", "left", "right"} PROVE InBand(g, d)
  BY <1>3 DEF Region
<1>4. CASE stack = "above" \/ other = "above"
  BY <1>1, <1>2, <1>3, <1>4 DEF Region, InBand, Apart, Stacks
<1>5. CASE (stack = "below" \/ other = "below") /\ stack # "above" /\ other # "above"
  BY <1>1, <1>2, <1>3, <1>5 DEF Region, InBand, Apart, Stacks
<1>6. CASE stack \in {"primary", "left", "right"} /\ other \in {"primary", "left", "right"}
  BY <1>1, <1>6 DEF Region, Apart
<1>7. QED BY <1>4, <1>5, <1>6 DEF Stacks

\* And all of it is inside the frame.
LEMMA RegionsInside ==
    ASSUME NEW g, Ordered(g), NEW stack \in Stacks \cup {"primary"},
           NEW b, b.left \in Int, b.right \in Int, b.bottom \in Int, b.top \in Int, Region(g, stack, b),
           b.bottom <= b.top
    PROVE  /\ -g.wide <= b.left /\ b.right <= g.wide
           /\ g.floor <= b.bottom /\ b.top <= g.top
           /\ -g.tall <= b.bottom /\ b.top <= g.tall
<1>1. /\ g.top \in Int /\ g.bandTop \in Int /\ g.bandBottom \in Int /\ g.rows \in Int
      /\ g.floor \in Int /\ g.tall \in Nat
      /\ g.bandBottom <= g.bandTop /\ g.bandTop <= g.top /\ g.top <= g.tall
      /\ g.rows <= g.bandBottom /\ g.floor <= g.bandBottom /\ -g.tall <= g.floor
  BY DEF Ordered
<1>2. -g.wide <= b.left /\ b.right <= g.wide
  BY DEF Region
<1>3. CASE stack \in {"primary", "left", "right"}
  <2>1. g.bandBottom <= b.bottom /\ b.top <= g.bandTop
    BY <1>3 DEF Region, InBand
  <2>2. QED BY <1>1, <1>2, <2>1
<1>4. CASE stack = "above"
  <2>1. g.bandTop <= b.bottom /\ b.top <= g.top
    BY <1>4 DEF Region
  <2>2. QED BY <1>1, <1>2, <2>1
<1>5. CASE stack = "below"
  <2>1. g.floor <= b.bottom /\ b.top <= g.rows
    BY <1>5 DEF Region
  <2>2. QED BY <1>1, <1>2, <2>1
<1>6. QED BY <1>3, <1>4, <1>5 DEF Stacks

\* The lines are in their order at the scale that is found.
LEMMA LinesOrdered ==
    ASSUME NEW V, NEW a, NEW c, Arranged(V, a),
           CalloutRoom(a, c) = None \/ CalloutRoom(a, c) \in Int,
           NEW s, s = Scale(a, c), NEW g, g = Lines(a, c, s)
    PROVE  Ordered(g)
<1> DEFINE pad == CalloutPad(CalloutRoom(a, c), s)
           gap == AtScale(s[1], Gap)
           up == AtScale(s[1], Reach(Heights(a.above)))
           down == AtScale(s[1], Reach(Heights(a.below)))
           t == TopPad(a, c) * s[2]
           b == BottomPad(a, c) * s[2]
<1>1. /\ g.top \in Int /\ g.bandTop \in Int /\ g.bandBottom \in Int /\ g.rows \in Int
      /\ g.floor \in Int /\ g.tall \in Nat
      /\ pad \in Nat /\ gap \in Nat /\ down \in Nat
      /\ g.bandBottom <= g.bandTop /\ g.bandTop <= g.top
      /\ g.rows = g.bandBottom - 2 * gap - 2 * pad
      /\ g.floor = g.bandBottom - 2 * pad - 2 * down
      /\ g.top + 2 * t <= g.tall /\ -g.tall + 2 * b <= g.floor
      /\ t \in Nat /\ b \in Nat
  BY Column
<1>2. g.half \in Nat
  <2>1. Width(a.primary) \in Nat /\ s[1] \in Nat
    BY Sizes, ScaleFits, Rational DEF Arranged
  <2>2. AtScale(s[1], Width(a.primary)) \in Nat
    BY <2>1 DEF AtScale
  <2>3. QED BY <2>2 DEF Lines
<1> HIDE DEF pad, gap, up, down, t, b
<1>3. g.top <= g.tall /\ g.rows <= g.bandBottom
  BY <1>1
<1>4. g.floor <= g.bandBottom /\ -g.tall <= g.floor
  BY <1>1
<1>5. QED BY <1>1, <1>2, <1>3, <1>4 DEF Ordered

\* A scale at which an arrangement is drawn, and its lines.
Drawing(V, a, c, s, g) ==
    /\ Arranged(V, a)
    /\ CalloutRoom(a, c) = None \/ CalloutRoom(a, c) \in Int
    /\ s = Scale(a, c) /\ g = Lines(a, c, s)

\* What the drawing has of its lines: each visual fits in its region.
LEMMA DrawingFacts ==
    ASSUME NEW V, NEW a, NEW c, NEW s, NEW g, Drawing(V, a, c, s, g)
    PROVE  /\ Ordered(g) /\ s \in Rationals /\ s[1] \in Nat /\ s[2] \in Nat
           /\ MiddleOfBand(a, c, s) \in Int /\ ColumnTop(a, c, s) \in Int /\ Below(a, c, s) \in Int
           /\ g.half \in Nat /\ g.wide \in Nat /\ g.half <= g.wide
           /\ g.half = AtScale(s[1], Width(a.primary))
           /\ g.half + 2 * AtScale(s[1], Reach(Widths(a.left))) <= g.wide
           /\ g.half + 2 * AtScale(s[1], Reach(Widths(a.right))) <= g.wide
           /\ AtScale(s[1], Reach(Widths(a.left))) \in Nat /\ AtScale(s[1], Reach(Widths(a.right))) \in Nat
           /\ \A m \in {a.primary} \cup Range(a.left) \cup Range(a.right) :
                 /\ MiddleOfBand(a, c, s) - AtScale(s[1], Height(m)) >= g.bandBottom
                 /\ MiddleOfBand(a, c, s) + AtScale(s[1], Height(m)) <= g.bandTop
           /\ \A m \in Range(a.above) \cup Range(a.below) : AtScale(s[1], Width(m)) <= g.wide
<1> USE DEF Drawing
<1>1. Ordered(g)
  BY LinesOrdered
<1>2. /\ s \in Rationals
      /\ (Width(a.primary) + 2 * Reach(Widths(a.left))) * s[1] <= FrameWidth * s[2]
      /\ (Width(a.primary) + 2 * Reach(Widths(a.right))) * s[1] <= FrameWidth * s[2]
      /\ \A m \in Range(a.above) \cup Range(a.below) : Width(m) * s[1] <= FrameWidth * s[2]
  BY ScaleFits
<1>3. s[1] \in Nat /\ s[2] \in Nat
  BY <1>2, Rational
<1>4. MiddleOfBand(a, c, s) \in Int
  BY Column
<1>5. /\ ColumnTop(a, c, s) \in Int /\ Below(a, c, s) \in Int
      /\ g.half = AtScale(s[1], Width(a.primary)) /\ g.wide = FrameWidth * s[2]
  BY <1>1 DEF Ordered, Lines
<1>6. g.half \in Nat /\ g.wide \in Nat
  BY <1>1, <1>3, <1>5 DEF Ordered, FrameWidth
<1>7. /\ Width(a.primary) \in Nat
      /\ Reach(Widths(a.left)) \in Nat /\ Reach(Widths(a.right)) \in Nat
  <2>1. Widths(a.left) \in Seq(Nat) /\ Widths(a.right) \in Seq(Nat)
    BY StackSizes DEF Arranged
  <2>2. QED BY <2>1, BeforeFacts, Sizes DEF Arranged
<1>8. ASSUME NEW x \in Nat, (Width(a.primary) + 2 * x) * s[1] <= FrameWidth * s[2]
      PROVE  AtScale(s[1], x) \in Nat /\ g.half + 2 * AtScale(s[1], x) <= g.wide
  <2> DEFINE w == Width(a.primary)
             n == s[1]
  <2>1. w \in Nat /\ n \in Nat
    BY <1>3, <1>7
  <2> HIDE DEF w, n
  <2>2. (w + 2 * x) * n = AtScale(n, w) + 2 * AtScale(n, x) /\ AtScale(n, x) \in Nat
    BY <2>1 DEF AtScale
  <2>3. QED BY <1>5, <1>8, <2>2 DEF w, n
<1>9. /\ AtScale(s[1], Reach(Widths(a.left))) \in Nat /\ AtScale(s[1], Reach(Widths(a.right))) \in Nat
      /\ g.half + 2 * AtScale(s[1], Reach(Widths(a.left))) <= g.wide
      /\ g.half + 2 * AtScale(s[1], Reach(Widths(a.right))) <= g.wide
  BY <1>2, <1>7, <1>8
<1>10. g.half <= g.wide
  BY <1>6, <1>9
<1>11. ASSUME NEW m \in {a.primary} \cup Range(a.left) \cup Range(a.right)
       PROVE  /\ MiddleOfBand(a, c, s) - AtScale(s[1], Height(m)) >= g.bandBottom
              /\ MiddleOfBand(a, c, s) + AtScale(s[1], Height(m)) <= g.bandTop
  <2> DEFINE middle == MiddleOfBand(a, c, s)
             n == s[1]
             band == BandHeight(a)
             h == Height(m)
  <2>1. m \in V
    BY StackSizes DEF Arranged
  <2>2. h \in Nat /\ band \in Nat /\ h <= band
    BY <2>1, Band, Sizes DEF Arranged
  <2>3. g.bandTop = middle + AtScale(n, band) /\ g.bandBottom = middle - AtScale(n, band)
    BY DEF Lines
  <2>4. middle \in Int /\ n \in Nat
    BY <1>3, <1>4
  <2> HIDE DEF middle, n, band, h
  <2>5. AtScale(n, h) <= AtScale(n, band) /\ AtScale(n, h) \in Nat /\ AtScale(n, band) \in Nat
    <3>1. h + 0 <= band
      BY <2>2
    <3>2. AtScale(n, h) + AtScale(n, 0) <= AtScale(n, band)
      BY <2>2, <2>4, <3>1, AtScaleOrder
    <3>3. AtScale(n, 0) = 0 /\ AtScale(n, h) \in Nat /\ AtScale(n, band) \in Nat
      BY <2>2, <2>4 DEF AtScale
    <3>4. QED BY <3>2, <3>3
  <2>6. middle - AtScale(n, h) >= g.bandBottom /\ middle + AtScale(n, h) <= g.bandTop
    BY <2>3, <2>4, <2>5
  <2>7. QED BY <2>6 DEF middle, n, h
<1>12. ASSUME NEW m \in Range(a.above) \cup Range(a.below) PROVE AtScale(s[1], Width(m)) <= g.wide
  <2>1. Width(m) \in Nat /\ Width(m) * s[1] <= FrameWidth * s[2]
    <3>1. m \in V
      BY StackSizes DEF Arranged
    <3>2. QED BY <1>2, <3>1, Sizes DEF Arranged
  <2>2. AtScale(s[1], Width(m)) = Width(m) * s[1]
    BY <1>3, <2>1 DEF AtScale
  <2>3. QED BY <1>5, <2>1, <2>2
<1>13. QED BY <1>1, <1>2, <1>3, <1>4, <1>5, <1>6, <1>9, <1>10, <1>11, <1>12

\* The primary stands in the middle of the band.
LEMMA PrimaryStands ==
    ASSUME NEW V, NEW a, NEW c, NEW s, NEW g, Drawing(V, a, c, s, g),
           NEW b, b = PrimaryBox(a, c, s)
    PROVE  /\ Sketched(a.primary, b, s[1]) /\ Region(g, "primary", b)
           /\ b.left = -g.half /\ b.right = g.half
           /\ b.bottom = MiddleOfBand(a, c, s) - AtScale(s[1], Height(a.primary))
<1>1. a.primary \in V /\ Width(a.primary) \in Nat /\ Height(a.primary) \in Nat
  BY Sizes DEF Drawing, Arranged
<1>2. /\ s[1] \in Nat /\ MiddleOfBand(a, c, s) \in Int
      /\ g.half \in Nat /\ g.wide \in Nat /\ g.half <= g.wide /\ g.half = AtScale(s[1], Width(a.primary))
      /\ MiddleOfBand(a, c, s) - AtScale(s[1], Height(a.primary)) >= g.bandBottom
      /\ MiddleOfBand(a, c, s) + AtScale(s[1], Height(a.primary)) <= g.bandTop
  BY DrawingFacts
<1>3. /\ b.ref = a.primary.ref
      /\ b.left = 0 - AtScale(s[1], Width(a.primary)) /\ b.right = 0 + AtScale(s[1], Width(a.primary))
      /\ b.bottom = MiddleOfBand(a, c, s) - AtScale(s[1], Height(a.primary))
      /\ b.top = MiddleOfBand(a, c, s) + AtScale(s[1], Height(a.primary))
      /\ AtScale(s[1], Height(a.primary)) \in Nat
  BY <1>1, <1>2, BoxFacts, 0 \in Int DEF PrimaryBox
<1>4. b.left = -g.half /\ b.right = g.half
  BY <1>2, <1>3
<1>5. Sketched(a.primary, b, s[1])
  BY <1>2, <1>3, <1>4 DEF Sketched
<1>6. Region(g, "primary", b)
  <2>1. InBand(g, b)
    BY <1>2, <1>3 DEF InBand
  <2>2. -g.wide <= b.left /\ b.right <= g.wide /\ -g.half <= b.left /\ b.right <= g.half
    BY <1>2, <1>4
  <2>3. QED BY <2>1, <2>2 DEF Region
<1>7. QED BY <1>3, <1>4, <1>5, <1>6

\* The k-th visual of a stack stands in the region of the stack.
Stood(a, c, s, g, stack, k) ==
    /\ Sketched(StackOf(a)[stack][k], PlaceOf(a, c, s, stack, k), s[1])
    /\ Region(g, stack, PlaceOf(a, c, s, stack, k))
    /\ stack \in {"left", "right"} =>
          PlaceOf(a, c, s, stack, k).bottom =
             MiddleOfBand(a, c, s) - AtScale(s[1], Height(StackOf(a)[stack][k]))

\* What is known of a box, and the region it therefore stands in.
LEMMA InRow ==
    ASSUME NEW g, g.wide \in Nat, g.floor \in Int, g.bandTop \in Int, NEW stack \in {"above", "below"},
           NEW w \in Nat, w <= g.wide, NEW top \in Int, NEW low \in Int,
           NEW b, b.left = -w, b.right = w, b.bottom \in Int, b.top \in Int, b.top <= top, low <= b.bottom,
           stack = "above" => top = g.top /\ g.bandTop <= low,
           stack = "below" => top = g.rows /\ g.floor <= low
    PROVE  Region(g, stack, b)
<1>1. -g.wide <= b.left /\ b.right <= g.wide
  OBVIOUS
<1>2. stack = "above" => g.bandTop <= b.bottom /\ b.top <= g.top
  OBVIOUS
<1>3. stack = "below" => g.floor <= b.bottom /\ b.top <= g.rows
  OBVIOUS
<1>4. QED BY <1>1, <1>2, <1>3 DEF Region

OnSide(g, stack, reach, h, middle, b) ==
    /\ g.wide \in Nat /\ g.half \in Nat /\ g.bandTop \in Int /\ g.bandBottom \in Int
    /\ stack \in {"left", "right"}
    /\ reach \in Nat /\ g.half + 2 * reach <= g.wide
    /\ h \in Nat /\ middle \in Int /\ middle - h >= g.bandBottom /\ middle + h <= g.bandTop
    /\ b.left \in Int /\ b.right \in Int /\ b.left <= b.right
    /\ b.bottom = middle - h /\ b.top = middle + h
    /\ stack = "left" => b.right <= -g.half /\ b.left >= -g.half - 2 * reach
    /\ stack = "right" => b.left >= g.half /\ b.right <= g.half + 2 * reach

\* A visual beside the band's edge stands in the region of its stack.
LEMMA InSide ==
    ASSUME NEW g, NEW stack, NEW reach, NEW h, NEW middle, NEW b, OnSide(g, stack, reach, h, middle, b)
    PROVE  Region(g, stack, b) /\ b.bottom \in Int /\ b.top = b.bottom + 2 * h
<1> USE DEF OnSide
<1>1. b.bottom \in Int /\ b.top = b.bottom + 2 * h
  OBVIOUS
<1>2. InBand(g, b)
  BY DEF InBand
<1>3. CASE stack = "left"
  <2>1. b.right <= -g.half /\ -g.wide <= b.left /\ b.right <= g.wide
    BY <1>3
  <2>2. QED BY <1>1, <1>2, <1>3, <2>1 DEF Region
<1>4. CASE stack = "right"
  <2>1. g.half <= b.left /\ -g.wide <= b.left /\ b.right <= g.wide
    BY <1>4
  <2>2. QED BY <1>1, <1>2, <1>4, <2>1 DEF Region
<1>5. QED BY <1>3, <1>4

\* The boxes of a row, and of a visual beside the primary, by their regions.
LEMMA RowStands ==
    ASSUME NEW V, NEW a, NEW c, NEW s, NEW g, Drawing(V, a, c, s, g),
           NEW items \in Seq(V), NEW stack \in {"above", "below"}, Range(items) \subseteq Range(a.above) \cup Range(a.below),
           NEW top \in Int,
           NEW low, low = top - 2 * AtScale(s[1], Reach(Heights(items))) + 2 * AtScale(s[1], Gap),
           stack = "above" => top = g.top /\ g.bandTop <= low,
           stack = "below" => top = g.rows /\ g.floor <= low,
           NEW k \in 1..Len(items)
    PROVE  Sketched(items[k], RowBox(items, k, top, s[1]), s[1]) /\ Region(g, stack, RowBox(items, k, top, s[1]))
<1> DEFINE m == items[k]
           n == s[1]
           h == AtScale(n, Height(m))
           w == AtScale(n, Width(m))
           b == RowBox(items, k, top, n)
<1>1. n \in Nat /\ g.wide \in Nat /\ g.floor \in Int /\ g.bandTop \in Int
  BY DrawingFacts DEF Ordered
<1>2. /\ b.ref = m.ref /\ w \in Nat /\ h \in Nat
      /\ b.left = -w /\ b.right = w
      /\ b.bottom \in Int /\ b.top = b.bottom + 2 * h
      /\ b.top <= top /\ b.bottom >= low /\ low \in Int
  <2>1. Sized(V) /\ low = top - 2 * AtScale(n, Reach(Heights(items))) + 2 * AtScale(n, Gap)
    BY DEF Drawing, Arranged
  <2> HIDE DEF n
  <2>2. /\ b.ref = m.ref /\ w \in Nat /\ h \in Nat
        /\ b.left = -w /\ b.right = w
        /\ b.bottom \in Int /\ b.top = b.bottom + 2 * h /\ b.top <= top
        /\ b.bottom >= top - 2 * AtScale(n, Reach(Heights(items))) + 2 * AtScale(n, Gap)
        /\ AtScale(n, Reach(Heights(items))) \in Nat /\ AtScale(n, Gap) \in Nat
    <3>1. Hangs(items, k, top, n) /\ AtScale(n, Reach(Heights(items))) \in Nat /\ AtScale(n, Gap) \in Nat
      BY <1>1, <2>1, RowsHang
    <3>2. QED BY <3>1 DEF Hangs
  <2> HIDE DEF b, w, h, m
  <2>3. QED BY <2>1, <2>2
<1>3. w <= g.wide
  <2>1. m \in Range(items)
    BY StackSizes DEF Drawing, Arranged
  <2>2. QED BY <2>1, DrawingFacts
<1> HIDE DEF w, h, m, n, b
<1>4. b.left \in Int /\ b.right = b.left + 2 * w /\ b.top \in Int
  BY <1>2
<1>5. Sketched(m, b, n)
  BY <1>2, <1>4 DEF Sketched, w, h
<1>6. Region(g, stack, b)
  BY <1>1, <1>2, <1>3, <1>4, InRow
<1>7. QED BY <1>5, <1>6 DEF m, b, n

\* A visual beside the primary stands in its region, centred on the primary.
LEMMA SideStands ==
    ASSUME NEW V, NEW a, NEW c, NEW s, NEW g, Drawing(V, a, c, s, g),
           NEW items \in Seq(V), NEW stack \in {"left", "right"},
           items = IF stack = "left" THEN a.left ELSE a.right,
           NEW edge \in Int, NEW direction \in {-1, 1},
           stack = "left" => edge = -g.half /\ direction = -1,
           stack = "right" => edge = g.half /\ direction = 1,
           NEW k \in 1..Len(items),
           NEW b, b = SideBox(items, k, edge, MiddleOfBand(a, c, s), direction, s[1])
    PROVE  /\ Sketched(items[k], b, s[1]) /\ Region(g, stack, b)
           /\ b.bottom = MiddleOfBand(a, c, s) - AtScale(s[1], Height(items[k]))
<1> DEFINE m == items[k]
           n == s[1]
           h == AtScale(n, Height(m))
           w == AtScale(n, Width(m))
           reach == AtScale(n, Reach(Widths(items)))
           middle == MiddleOfBand(a, c, s)
<1>1. /\ n \in Nat /\ g.wide \in Nat /\ g.half \in Nat /\ middle \in Int
      /\ g.bandTop \in Int /\ g.bandBottom \in Int
  BY DrawingFacts DEF Ordered
<1>2. middle - h >= g.bandBottom /\ middle + h <= g.bandTop
  <2>1. m \in Range(items)
    BY StackSizes DEF Drawing, Arranged
  <2>2. m \in {a.primary} \cup Range(a.left) \cup Range(a.right)
    BY <2>1
  <2>3. QED BY <2>2, DrawingFacts
<1>3. g.half + 2 * reach <= g.wide /\ reach \in Nat
  BY DrawingFacts
<1>4. Sized(V) /\ b = SideBox(items, k, edge, middle, direction, n)
  BY DEF Drawing, Arranged
<1> HIDE DEF n, middle
<1>5. /\ b.ref = m.ref /\ w \in Nat /\ h \in Nat
      /\ b.left \in Int /\ b.right = b.left + 2 * w
      /\ b.bottom = middle - h /\ b.top = middle + h
  <2>1. Beside(items, k, edge, middle, direction, n)
    BY <1>1, <1>4, SidesStand
  <2>2. QED BY <1>4, <2>1 DEF Beside
<1>6. /\ stack = "right" => b.left >= edge /\ b.right <= edge + 2 * reach
      /\ stack = "left" => b.right <= edge /\ b.left >= edge - 2 * reach
  <2>1. /\ SideBox(items, k, edge, middle, 1, n).left >= edge
        /\ SideBox(items, k, edge, middle, 1, n).right <= edge + 2 * reach
        /\ SideBox(items, k, edge, middle, -1, n).right <= edge
        /\ SideBox(items, k, edge, middle, -1, n).left >= edge - 2 * reach
    <3>1. Reaches(items, k, edge, middle, n)
      BY <1>1, <1>4, SidesStand
    <3>2. QED BY <3>1 DEF Reaches
  <2>2. stack = "right" => b.left >= edge /\ b.right <= edge + 2 * reach
    BY <1>4, <2>1
  <2>3. stack = "left" => b.right <= edge /\ b.left >= edge - 2 * reach
    BY <1>4, <2>1
  <2>4. QED BY <2>2, <2>3
<1> HIDE DEF w, h, m, reach
<1>7. /\ stack = "left" => b.right <= -g.half /\ b.left >= -g.half - 2 * reach
      /\ stack = "right" => b.left >= g.half /\ b.right <= g.half + 2 * reach
  BY <1>6
<1>8. b.right \in Int /\ b.left <= b.right
  BY <1>5
<1>9. Region(g, stack, b) /\ b.bottom \in Int /\ b.top = b.bottom + 2 * h
  <2>1. OnSide(g, stack, reach, h, middle, b)
    BY <1>1, <1>2, <1>3, <1>5, <1>7, <1>8 DEF OnSide
  <2>2. QED BY <2>1, InSide
<1>10. Sketched(m, b, n)
  BY <1>5, <1>9 DEF Sketched, w, h
<1>11. QED BY <1>5, <1>9, <1>10 DEF m, n, h, middle

\* So does every visual of every stack.
LEMMA StacksStand ==
    ASSUME NEW V, NEW a, NEW c, NEW s, NEW g, Drawing(V, a, c, s, g),
           NEW stack \in Stacks, NEW k \in 1..Len(StackOf(a)[stack])
    PROVE  Stood(a, c, s, g, stack, k)
<1>1. /\ a.left \in Seq(V) /\ a.right \in Seq(V) /\ a.above \in Seq(V) /\ a.below \in Seq(V)
  BY DEF Drawing, Arranged
<1>2. /\ s[1] \in Nat /\ ColumnTop(a, c, s) \in Int /\ Below(a, c, s) \in Int /\ g.half \in Nat
      /\ MiddleOfBand(a, c, s) \in Int
  BY DrawingFacts
<1>3. /\ PrimaryBox(a, c, s).left = -g.half /\ PrimaryBox(a, c, s).right = g.half
  BY PrimaryStands
<1>4. CASE stack = "left"
  <2>1. /\ StackOf(a)[stack] = a.left
        /\ PlaceOf(a, c, s, stack, k) = SideBox(a.left, k, -g.half, MiddleOfBand(a, c, s), -1, s[1])
    BY <1>3, <1>4 DEF StackOf, PlaceOf, Stacks
  <2>2. -g.half \in Int
    BY <1>2
  <2>3. /\ Sketched(StackOf(a)[stack][k], PlaceOf(a, c, s, stack, k), s[1])
        /\ Region(g, stack, PlaceOf(a, c, s, stack, k))
        /\ PlaceOf(a, c, s, stack, k).bottom =
              MiddleOfBand(a, c, s) - AtScale(s[1], Height(StackOf(a)[stack][k]))
    BY <1>1, <1>4, <2>1, <2>2, SideStands
  <2>4. QED BY <2>3 DEF Stood
<1>5. CASE stack = "right"
  <2>1. /\ StackOf(a)[stack] = a.right
        /\ PlaceOf(a, c, s, stack, k) = SideBox(a.right, k, g.half, MiddleOfBand(a, c, s), 1, s[1])
    BY <1>3, <1>5 DEF StackOf, PlaceOf, Stacks
  <2>2. g.half \in Int
    BY <1>2
  <2>3. /\ Sketched(StackOf(a)[stack][k], PlaceOf(a, c, s, stack, k), s[1])
        /\ Region(g, stack, PlaceOf(a, c, s, stack, k))
        /\ PlaceOf(a, c, s, stack, k).bottom =
              MiddleOfBand(a, c, s) - AtScale(s[1], Height(StackOf(a)[stack][k]))
    BY <1>1, <1>5, <2>1, <2>2, SideStands
  <2>4. QED BY <2>3 DEF Stood
<1>6. CASE stack = "above"
  <2>1. /\ StackOf(a)[stack] = a.above
        /\ PlaceOf(a, c, s, stack, k) = RowBox(a.above, k, g.top, s[1])
    BY <1>6 DEF StackOf, PlaceOf, Stacks, Drawing, Lines
  <2>2. g.top \in Int /\ g.bandTop = g.top - 2 * AtScale(s[1], Reach(Heights(a.above))) /\ g.bandTop \in Int
    BY Column DEF Drawing
  <2>3. AtScale(s[1], Gap) \in Nat
    BY Fits DEF Drawing
  <2>4. g.bandTop <= g.top - 2 * AtScale(s[1], Reach(Heights(a.above))) + 2 * AtScale(s[1], Gap)
    BY <2>2, <2>3
  <2>5. QED BY <1>1, <1>6, <2>1, <2>2, <2>4, RowStands DEF Stood
<1>7. CASE stack = "below"
  <2>1. /\ StackOf(a)[stack] = a.below
        /\ PlaceOf(a, c, s, stack, k) = RowBox(a.below, k, g.rows, s[1])
    BY <1>7 DEF StackOf, PlaceOf, Stacks, Drawing, Lines
  <2>2. /\ g.rows \in Int /\ g.floor \in Int
        /\ g.floor = g.rows - 2 * AtScale(s[1], Reach(Heights(a.below))) + 2 * AtScale(s[1], Gap)
    BY Column DEF Drawing, Lines
  <2>3. g.floor <= g.rows - 2 * AtScale(s[1], Reach(Heights(a.below))) + 2 * AtScale(s[1], Gap)
    BY <2>2
  <2>4. QED BY <1>1, <1>7, <2>1, <2>2, <2>3, RowStands DEF Stood
<1>8. QED BY <1>4, <1>5, <1>6, <1>7 DEF Stacks

\* Two visuals of one stack are apart.
LEMMA StackApart ==
    ASSUME NEW V, NEW a, NEW c, NEW s, NEW g, Drawing(V, a, c, s, g),
           NEW stack \in Stacks, NEW j \in 1..Len(StackOf(a)[stack]), NEW k \in 1..Len(StackOf(a)[stack]), j < k
    PROVE  /\ Apart(PlaceOf(a, c, s, stack, j), PlaceOf(a, c, s, stack, k))
           /\ Apart(PlaceOf(a, c, s, stack, k), PlaceOf(a, c, s, stack, j))
<1> DEFINE b == PlaceOf(a, c, s, stack, j)
           d == PlaceOf(a, c, s, stack, k)
<1>1. /\ Sized(V)
      /\ a.left \in Seq(V) /\ a.right \in Seq(V) /\ a.above \in Seq(V) /\ a.below \in Seq(V)
  BY DEF Drawing, Arranged
<1>2. /\ s[1] \in Nat /\ ColumnTop(a, c, s) \in Int /\ Below(a, c, s) \in Int /\ g.half \in Nat
      /\ MiddleOfBand(a, c, s) \in Int
  BY DrawingFacts
<1>3. /\ PrimaryBox(a, c, s).left = -g.half /\ PrimaryBox(a, c, s).right = g.half
      /\ -g.half \in Int /\ g.half \in Int
  BY <1>2, PrimaryStands
<1>4. CASE stack = "left"
  <2>1. d.right <= b.left
    BY <1>1, <1>2, <1>3, <1>4, SidesStand DEF StackOf, PlaceOf, Stacks
  <2>2. QED BY <2>1 DEF Apart
<1>5. CASE stack = "right"
  <2>1. b.right <= d.left
    BY <1>1, <1>2, <1>3, <1>5, SidesStand DEF StackOf, PlaceOf, Stacks
  <2>2. QED BY <2>1 DEF Apart
<1>6. CASE stack = "above"
  <2>1. d.top <= b.bottom
    BY <1>1, <1>2, <1>6, RowsHang DEF StackOf, PlaceOf, Stacks
  <2>2. QED BY <2>1 DEF Apart
<1>7. CASE stack = "below"
  <2>1. d.top <= b.bottom
    BY <1>1, <1>2, <1>7, RowsHang DEF StackOf, PlaceOf, Stacks
  <2>2. QED BY <2>1 DEF Apart
<1>8. QED BY <1>4, <1>5, <1>6, <1>7 DEF Stacks

-----------------------------------------------------------------------------
(* The places of a lesson.                                                  *)

\* A lesson that was handed in, and how it is drawn.
Laid(v, c, a, s, g) ==
    /\ HandedIn(v, c) /\ a = Arrangement(v, c) /\ s = Scale(a, c) /\ g = Lines(a, c, s)

\* A lesson has one visual of a name.
LEMMA Names ==
    ASSUME NEW v, NEW c, HandedIn(v, c), NEW m \in Range(v), NEW other \in Range(v), m.ref = other.ref
    PROVE  m = other
<1>1. \A x \in Range(v) : \E k \in 1..Len(v) : x = v[k]
  BY HandedFacts
<1>2. PICK j \in 1..Len(v) : m = v[j]
  BY <1>1
<1>3. PICK k \in 1..Len(v) : other = v[k]
  BY <1>1
<1>4. j = k
  BY <1>2, <1>3, HandedFacts
<1>5. QED BY <1>2, <1>3, <1>4

\* A lesson that was handed in satisfies what the lemmas ask of a drawing.
LEMMA LaidFacts ==
    ASSUME NEW v, NEW c, NEW a, NEW s, NEW g, Laid(v, c, a, s, g)
    PROVE  /\ Drawing(Range(v), a, c, s, g) /\ EachPlaced(v, c, a)
           /\ \A x \in OnPrimary(c, a.primary) : x.y \in a.primary.bottom..a.primary.top
<1>1. HandedIn(v, c) /\ EachPlaced(v, c, a)
  BY ArrangementPlaces DEF Laid
<1>2. Arranged(Range(v), a)
  <2>1. Sized(Range(v))
    <3>1. Lesson(v, c)
      BY <1>1 DEF HandedIn
    <3>2. \A m \in Range(v) :
             {m.left, m.right, m.bottom, m.top} \subseteq Int /\ m.left < m.right /\ m.bottom < m.top
      BY <3>1 DEF Lesson
    <3>3. QED BY <3>2 DEF Sized
  <2>2. a.primary \in Range(v) /\ StackOf(a) \in [Stacks -> Seq(Range(v))]
    BY <1>1 DEF EachPlaced
  <2>3. \A stack \in Stacks : StackOf(a)[stack] \in Seq(Range(v))
    BY <2>2
  <2>4. /\ StackOf(a)["left"] = a.left /\ StackOf(a)["right"] = a.right
        /\ StackOf(a)["above"] = a.above /\ StackOf(a)["below"] = a.below
    BY DEF StackOf, Stacks
  <2>5. a.left \in Seq(Range(v)) /\ a.right \in Seq(Range(v))
    BY <2>3, <2>4 DEF Stacks
  <2>6. a.above \in Seq(Range(v)) /\ a.below \in Seq(Range(v))
    BY <2>3, <2>4 DEF Stacks
  <2>7. QED BY <2>1, <2>2, <2>5, <2>6 DEF Arranged
<1>3. ASSUME NEW x \in OnPrimary(c, a.primary) PROVE x.y \in a.primary.bottom..a.primary.top
  <2>1. x \in Range(c) /\ x.visual = a.primary.ref /\ x.y # None
    BY DEF OnPrimary
  <2>2. PICK m \in Range(v) : m.ref = x.visual /\ x.y \in m.bottom..m.top
    BY <1>1, <2>1 DEF HandedIn, Lesson
  <2>3. m = a.primary
    BY <1>1, <2>1, <2>2, Names DEF EachPlaced
  <2>4. QED BY <2>2, <2>3
<1>4. a.primary.bottom \in Int /\ a.primary.top \in Int
  BY <1>2 DEF Arranged, Sized
<1>5. \A x \in OnPrimary(c, a.primary) : x.y \in Int /\ x.y >= a.primary.bottom
  BY <1>3, <1>4
<1>6. CalloutRoom(a, c) = None \/ CalloutRoom(a, c) \in Int
  BY <1>4, <1>5, Room
<1>7. QED BY <1>1, <1>2, <1>3, <1>6 DEF Drawing, Laid

\* The places are the primary's and those of every stack.
LEMMA PlacesAre ==
    ASSUME NEW V, NEW a, NEW c, NEW s, Arranged(V, a)
    PROVE  /\ \A b \in Places(a, c, s) :
                 \/ b = PrimaryBox(a, c, s)
                 \/ \E stack \in Stacks : \E k \in 1..Len(StackOf(a)[stack]) : b = PlaceOf(a, c, s, stack, k)
           /\ PrimaryBox(a, c, s) \in Places(a, c, s)
           /\ \A stack \in Stacks : \A k \in 1..Len(StackOf(a)[stack]) :
                 PlaceOf(a, c, s, stack, k) \in Places(a, c, s)
<1> DEFINE L == {PlaceOf(a, c, s, "left", k) : k \in 1..Len(a.left)}
           R == {PlaceOf(a, c, s, "right", k) : k \in 1..Len(a.right)}
           A == {PlaceOf(a, c, s, "above", k) : k \in 1..Len(a.above)}
           B == {PlaceOf(a, c, s, "below", k) : k \in 1..Len(a.below)}
<1>1. /\ DOMAIN a.left = 1..Len(a.left) /\ DOMAIN a.right = 1..Len(a.right)
      /\ DOMAIN a.above = 1..Len(a.above) /\ DOMAIN a.below = 1..Len(a.below)
  BY DEF Arranged
<1>2. /\ StackOf(a)["left"] = a.left /\ StackOf(a)["right"] = a.right
      /\ StackOf(a)["above"] = a.above /\ StackOf(a)["below"] = a.below
  BY DEF StackOf, Stacks
<1>3. L = PlaceSide(a.left, PrimaryBox(a, c, s).left, MiddleOfBand(a, c, s), -1, s[1])
  BY <1>1 DEF PlaceOf, PlaceSide, SideBox
<1>4. R = PlaceSide(a.right, PrimaryBox(a, c, s).right, MiddleOfBand(a, c, s), 1, s[1])
  BY <1>1 DEF PlaceOf, PlaceSide, SideBox
<1>5. A = StackRows(a.above, ColumnTop(a, c, s), s[1])
  BY <1>1 DEF PlaceOf, StackRows, RowBox
<1>6. B = StackRows(a.below, Below(a, c, s), s[1])
  BY <1>1 DEF PlaceOf, StackRows, RowBox
<1>7. Places(a, c, s) = {PrimaryBox(a, c, s)} \cup A \cup L \cup R \cup B
  BY <1>3, <1>4, <1>5, <1>6 DEF Places, PrimaryBox, Below
<1>8. ASSUME NEW b \in Places(a, c, s), b # PrimaryBox(a, c, s)
      PROVE  \E stack \in Stacks : \E k \in 1..Len(StackOf(a)[stack]) : b = PlaceOf(a, c, s, stack, k)
  <2>1. b \in A \/ b \in L \/ b \in R \/ b \in B
    BY <1>7, <1>8
  <2>2. CASE b \in A
    BY <1>2, <2>2 DEF Stacks
  <2>3. CASE b \in L
    BY <1>2, <2>3 DEF Stacks
  <2>4. CASE b \in R
    BY <1>2, <2>4 DEF Stacks
  <2>5. CASE b \in B
    BY <1>2, <2>5 DEF Stacks
  <2>6. QED BY <2>1, <2>2, <2>3, <2>4, <2>5
<1>9. ASSUME NEW stack \in Stacks, NEW k \in 1..Len(StackOf(a)[stack])
      PROVE  PlaceOf(a, c, s, stack, k) \in Places(a, c, s)
  <2>1. PlaceOf(a, c, s, stack, k) \in L \cup R \cup A \cup B
    BY <1>2 DEF Stacks
  <2>2. QED BY <1>7, <2>1
<1>10. QED BY <1>7, <1>8, <1>9

\* Every box is of one visual and stands in the region where that was put.
Slot(v, c, a, s, g, b, stack, m) ==
    /\ m \in Range(v) /\ stack \in Stacks \cup {"primary"}
    /\ Sketched(m, b, s[1]) /\ Region(g, stack, b)
    /\ stack = "primary" => m = a.primary
    /\ stack # "primary" => m # a.primary
    /\ stack \in {"left", "right"} => FitsBeside(a.primary, c, m)
    /\ stack \in {"left", "right", "primary"} =>
          b.bottom = MiddleOfBand(a, c, s) - AtScale(s[1], Height(m))
    /\ stack = "below" => a.below # <<>>

\* The box of a visual in a stack.
LEMMA SlotOf ==
    ASSUME NEW v, NEW c, NEW a, NEW s, NEW g, Laid(v, c, a, s, g),
           NEW stack \in Stacks, NEW k \in 1..Len(StackOf(a)[stack])
    PROVE  Slot(v, c, a, s, g, PlaceOf(a, c, s, stack, k), stack, StackOf(a)[stack][k])
<1>1. Drawing(Range(v), a, c, s, g) /\ EachPlaced(v, c, a)
  BY LaidFacts
<1>2. Stood(a, c, s, g, stack, k)
  BY <1>1, StacksStand
<1>3. StackOf(a) \in [Stacks -> Seq(Range(v))] /\ StackOf(a)[stack][k] # a.primary
  BY <1>1 DEF EachPlaced
<1>4. StackOf(a)[stack] \in Seq(Range(v))
  BY <1>3
<1>5. StackOf(a)[stack][k] \in Range(v)
  <2> DEFINE items == StackOf(a)[stack]
  <2>1. items \in Seq(Range(v)) /\ k \in 1..Len(items)
    BY <1>4
  <2> HIDE DEF items
  <2>2. items[k] \in Range(v)
    BY <2>1
  <2>3. QED BY <2>2 DEF items
<1>6. stack # "primary" /\ stack \in Stacks \cup {"primary"}
  BY DEF Stacks
<1>7. stack = "below" => a.below # <<>>
  BY DEF StackOf, Stacks
<1>8. stack \in {"left", "right"} => FitsBeside(a.primary, c, StackOf(a)[stack][k])
  BY <1>1 DEF EachPlaced
<1>9. QED BY <1>2, <1>3, <1>5, <1>6, <1>7, <1>8 DEF Slot, Stood

\* The box of the primary.
LEMMA SlotOfPrimary ==
    ASSUME NEW v, NEW c, NEW a, NEW s, NEW g, Laid(v, c, a, s, g)
    PROVE  Slot(v, c, a, s, g, PrimaryBox(a, c, s), "primary", a.primary)
<1>1. Drawing(Range(v), a, c, s, g) /\ EachPlaced(v, c, a)
  BY LaidFacts
<1>2. /\ Sketched(a.primary, PrimaryBox(a, c, s), s[1]) /\ Region(g, "primary", PrimaryBox(a, c, s))
      /\ PrimaryBox(a, c, s).bottom = MiddleOfBand(a, c, s) - AtScale(s[1], Height(a.primary))
  BY <1>1, PrimaryStands
<1>3. QED BY <1>1, <1>2 DEF Slot, EachPlaced

\* A box of whole numbers: SMT needs no more of it.
LEMMA SlotBox ==
    ASSUME NEW v, NEW c, NEW a, NEW s, NEW g, NEW b, NEW stack, NEW m, Slot(v, c, a, s, g, b, stack, m)
    PROVE  /\ b.left \in Int /\ b.right \in Int /\ b.bottom \in Int /\ b.top \in Int
           /\ b.left <= b.right /\ b.bottom <= b.top /\ b.ref = m.ref
           /\ b.right = b.left + 2 * AtScale(s[1], Width(m)) /\ AtScale(s[1], Width(m)) \in Nat
           /\ b.top = b.bottom + 2 * AtScale(s[1], Height(m)) /\ AtScale(s[1], Height(m)) \in Nat
           /\ stack \in Stacks \cup {"primary"} /\ Region(g, stack, b) /\ m \in Range(v)
<1>1. Sketched(m, b, s[1]) /\ stack \in Stacks \cup {"primary"} /\ Region(g, stack, b) /\ m \in Range(v)
  BY DEF Slot
<1>2. /\ b.ref = m.ref
      /\ b.left \in Int /\ b.right = b.left + 2 * AtScale(s[1], Width(m)) /\ AtScale(s[1], Width(m)) \in Nat
      /\ b.bottom \in Int /\ b.top = b.bottom + 2 * AtScale(s[1], Height(m)) /\ AtScale(s[1], Height(m)) \in Nat
  BY <1>1 DEF Sketched
<1>3. b.right \in Int /\ b.left <= b.right /\ b.top \in Int /\ b.bottom <= b.top
  BY <1>2
<1>4. QED BY <1>1, <1>2, <1>3

\* Each box is somebody's.
LEMMA EachBoxHasASlot ==
    ASSUME NEW v, NEW c, NEW a, NEW s, NEW g, Laid(v, c, a, s, g), NEW b \in Places(a, c, s)
    PROVE  \E stack, m : Slot(v, c, a, s, g, b, stack, m)
<1>1. Arranged(Range(v), a)
  BY LaidFacts DEF Drawing
<1>2. CASE b = PrimaryBox(a, c, s)
  BY <1>2, SlotOfPrimary
<1>3. CASE b # PrimaryBox(a, c, s)
  <2>1. PICK stack \in Stacks : \E k \in 1..Len(StackOf(a)[stack]) : b = PlaceOf(a, c, s, stack, k)
    BY <1>1, <1>3, PlacesAre
  <2>2. PICK k \in 1..Len(StackOf(a)[stack]) : b = PlaceOf(a, c, s, stack, k)
    BY <2>1
  <2>3. QED BY <2>2, SlotOf
<1>4. QED BY <1>2, <1>3

\* And everybody has a box.
LEMMA EachVisualHasABox ==
    ASSUME NEW v, NEW c, NEW a, NEW s, NEW g, Laid(v, c, a, s, g), NEW m \in Range(v)
    PROVE  \E b \in Places(a, c, s) : \E stack : Slot(v, c, a, s, g, b, stack, m)
<1>1. Arranged(Range(v), a) /\ EachPlaced(v, c, a)
  BY LaidFacts DEF Drawing
<1>2. CASE m = a.primary
  BY <1>1, <1>2, PlacesAre, SlotOfPrimary
<1>3. CASE m # a.primary
  <2>1. PICK stack \in Stacks : \E i \in 1..Len(StackOf(a)[stack]) : StackOf(a)[stack][i] = m
    BY <1>1, <1>3 DEF EachPlaced
  <2>2. PICK k \in 1..Len(StackOf(a)[stack]) : StackOf(a)[stack][k] = m
    BY <2>1
  <2>3. PlaceOf(a, c, s, stack, k) \in Places(a, c, s)
    BY <1>1, PlacesAre
  <2>4. Slot(v, c, a, s, g, PlaceOf(a, c, s, stack, k), stack, m)
    BY <2>2, SlotOf
  <2>5. QED BY <2>3, <2>4
<1>4. QED BY <1>2, <1>3

\* No two boxes are of one visual, and no two are drawn over each other.
LEMMA BoxesApart ==
    ASSUME NEW v, NEW c, NEW a, NEW s, NEW g, Laid(v, c, a, s, g),
           NEW b \in Places(a, c, s), NEW d \in Places(a, c, s), b # d
    PROVE  b.ref # d.ref /\ Apart(b, d)
<1>1. /\ Drawing(Range(v), a, c, s, g) /\ Arranged(Range(v), a) /\ EachPlaced(v, c, a) /\ Ordered(g)
      /\ HandedIn(v, c)
  BY LaidFacts, DrawingFacts DEF Drawing, Laid
<1>2. \A x, y, m, o, left, right :
         (Slot(v, c, a, s, g, x, left, m) /\ Slot(v, c, a, s, g, y, right, o) /\ left # right) => Apart(x, y)
  <2> SUFFICES ASSUME NEW x, NEW y, NEW m, NEW o, NEW left, NEW right,
                      Slot(v, c, a, s, g, x, left, m), Slot(v, c, a, s, g, y, right, o), left # right
               PROVE  Apart(x, y)
    OBVIOUS
  <2>1. /\ x.left \in Int /\ x.right \in Int /\ x.bottom \in Int /\ x.top \in Int
        /\ left \in Stacks \cup {"primary"} /\ Region(g, left, x)
    BY SlotBox
  <2>2. /\ y.left \in Int /\ y.right \in Int /\ y.bottom \in Int /\ y.top \in Int
        /\ right \in Stacks \cup {"primary"} /\ Region(g, right, y)
    BY SlotBox
  <2>3. QED BY <1>1, <2>1, <2>2, RegionsApart
<1>3. \A x, y, m, o, left, right :
         (Slot(v, c, a, s, g, x, left, m) /\ Slot(v, c, a, s, g, y, right, o) /\ m # o) => x.ref # y.ref
  BY <1>1, SlotBox, Names
<1>4. Slot(v, c, a, s, g, PrimaryBox(a, c, s), "primary", a.primary)
  BY SlotOfPrimary
<1>5. ASSUME NEW stack \in Stacks, NEW k \in 1..Len(StackOf(a)[stack])
      PROVE  /\ PlaceOf(a, c, s, stack, k).ref # PrimaryBox(a, c, s).ref
             /\ Apart(PlaceOf(a, c, s, stack, k), PrimaryBox(a, c, s))
             /\ Apart(PrimaryBox(a, c, s), PlaceOf(a, c, s, stack, k))
  <2>1. Slot(v, c, a, s, g, PlaceOf(a, c, s, stack, k), stack, StackOf(a)[stack][k])
    BY SlotOf
  <2>2. stack # "primary" /\ StackOf(a)[stack][k] # a.primary
    BY <1>1 DEF Stacks, EachPlaced
  <2>3. QED BY <1>2, <1>3, <1>4, <2>1, <2>2
<1>6. CASE b = PrimaryBox(a, c, s)
  <2>1. PICK stack \in Stacks : \E k \in 1..Len(StackOf(a)[stack]) : d = PlaceOf(a, c, s, stack, k)
    BY <1>1, <1>6, PlacesAre
  <2>2. PICK k \in 1..Len(StackOf(a)[stack]) : d = PlaceOf(a, c, s, stack, k)
    BY <2>1
  <2>3. QED BY <1>5, <1>6, <2>2
<1>7. CASE d = PrimaryBox(a, c, s)
  <2>1. PICK stack \in Stacks : \E k \in 1..Len(StackOf(a)[stack]) : b = PlaceOf(a, c, s, stack, k)
    BY <1>1, <1>7, PlacesAre
  <2>2. PICK k \in 1..Len(StackOf(a)[stack]) : b = PlaceOf(a, c, s, stack, k)
    BY <2>1
  <2>3. QED BY <1>5, <1>7, <2>2
<1>8. CASE b # PrimaryBox(a, c, s) /\ d # PrimaryBox(a, c, s)
  <2>1. PICK left \in Stacks : \E k \in 1..Len(StackOf(a)[left]) : b = PlaceOf(a, c, s, left, k)
    BY <1>1, <1>8, PlacesAre
  <2>2. PICK j \in 1..Len(StackOf(a)[left]) : b = PlaceOf(a, c, s, left, j)
    BY <2>1
  <2>3. PICK right \in Stacks : \E k \in 1..Len(StackOf(a)[right]) : d = PlaceOf(a, c, s, right, k)
    BY <1>1, <1>8, PlacesAre
  <2>4. PICK k \in 1..Len(StackOf(a)[right]) : d = PlaceOf(a, c, s, right, k)
    BY <2>3
  <2>5. Slot(v, c, a, s, g, b, left, StackOf(a)[left][j]) /\ Slot(v, c, a, s, g, d, right, StackOf(a)[right][k])
    BY <2>2, <2>4, SlotOf
  <2>6. left # right \/ j # k
    BY <2>2, <2>4
  <2>7. StackOf(a)[left][j] # StackOf(a)[right][k]
    BY <1>1, <2>6 DEF EachPlaced
  <2>8. b.ref # d.ref
    BY <1>3, <2>5, <2>7
  <2>9. CASE left # right
    BY <1>2, <2>5, <2>8, <2>9
  <2>10. CASE left = right
    <3>1. j \in Int /\ k \in Int /\ j # k
      BY <2>6, <2>10
    <3>2. j < k \/ k < j
      BY <3>1
    <3>3. k \in 1..Len(StackOf(a)[left]) /\ d = PlaceOf(a, c, s, left, k)
      BY <2>4, <2>10
    <3>4. Apart(b, d)
      BY <1>1, <2>2, <3>2, <3>3, StackApart
    <3>5. QED BY <2>8, <3>4
  <2>11. QED BY <2>9, <2>10
<1>9. QED BY <1>6, <1>7, <1>8

-----------------------------------------------------------------------------
(* The callouts.                                                            *)

\* The height in the frame of a part of a visual.
HungAt(y, m, b, n) == b.bottom + 2 * (y - m.bottom) * n

\* A part of a visual is inside its box.
LEMMA HungWithin ==
    ASSUME NEW v, NEW c, NEW a, NEW s, NEW g, Laid(v, c, a, s, g),
           NEW b, NEW stack, NEW m, Slot(v, c, a, s, g, b, stack, m),
           NEW y \in m.bottom..m.top
    PROVE  /\ HungAt(y, m, b, s[1]) \in Int
           /\ b.bottom <= HungAt(y, m, b, s[1]) /\ HungAt(y, m, b, s[1]) <= b.top
           /\ y - m.bottom \in Nat /\ AtScale(s[1], y - m.bottom) \in Nat
           /\ HungAt(y, m, b, s[1]) = b.bottom + 2 * AtScale(s[1], y - m.bottom)
<1> DEFINE n == s[1]
           up == y - m.bottom
           h == Height(m)
<1>1. Drawing(Range(v), a, c, s, g) /\ n \in Nat
  BY LaidFacts, DrawingFacts
<1>2. /\ b.bottom \in Int /\ b.top = b.bottom + 2 * AtScale(n, h) /\ m \in Range(v)
  BY SlotBox
<1>3. m.bottom \in Int /\ m.top \in Int
  BY <1>1, <1>2 DEF Drawing, Arranged, Sized
<1>4. up \in Nat /\ h \in Nat /\ up <= h
  BY <1>3 DEF Height
<1>5. HungAt(y, m, b, n) = b.bottom + 2 * up * n
  BY DEF HungAt
<1> HIDE DEF n, up, h
<1>6. AtScale(n, up) <= AtScale(n, h) /\ AtScale(n, up) \in Nat /\ AtScale(n, h) \in Nat
  <2>1. up * n <= h * n
    BY <1>1, <1>4, Scaled
  <2>2. up * n = AtScale(n, up) /\ h * n = AtScale(n, h) /\ AtScale(n, up) \in Nat /\ AtScale(n, h) \in Nat
    BY <1>1, <1>4 DEF AtScale
  <2>3. QED BY <2>1, <2>2
<1>7. 2 * up * n = 2 * AtScale(n, up)
  BY <1>1, <1>4 DEF AtScale
<1>8. QED BY <1>2, <1>4, <1>5, <1>6, <1>7 DEF n, up, h

\* A callout at the top of a visual has its height below the top of the frame.
LEMMA TopCallouts ==
    ASSUME NEW v, NEW c, NEW a, NEW s, NEW g, Laid(v, c, a, s, g),
           NEW b, NEW stack, NEW m, Slot(v, c, a, s, g, b, stack, m),
           NEW x \in Range(c), x.anchor = "top", x.y \in m.bottom..m.top
    PROVE  HungAt(x.y, m, b, s[1]) + 2 * Envelope * s[2] <= FrameHeight * s[2]
<1> DEFINE at == HungAt(x.y, m, b, s[1])
           far == Envelope * s[2]
<1>1. Drawing(Range(v), a, c, s, g) /\ Ordered(g) /\ s[2] \in Nat
  BY LaidFacts, DrawingFacts
<1>2. TopPad(a, c) = Envelope
  BY DEF TopPad, OuterPad
<1>3. g.top + 2 * far <= g.tall
  BY <1>1, <1>2, Column DEF Drawing
<1>4. b.top <= g.top /\ b.top \in Int
  BY <1>1, SlotBox, RegionsInside
<1>5. at \in Int /\ at <= b.top
  BY HungWithin
<1>6. g.top \in Int /\ g.tall \in Int /\ far \in Int
  BY <1>1 DEF Ordered, Envelope
<1>7. g.tall = FrameHeight * s[2]
  BY <1>1 DEF Drawing, Lines
<1>8. 2 * Envelope * s[2] = 2 * far
  BY <1>1 DEF Envelope
<1> HIDE DEF at, far
<1>9. at + 2 * far <= g.tall
  BY <1>3, <1>4, <1>5, <1>6
<1>10. QED BY <1>7, <1>8, <1>9 DEF at

\* So has one at the bottom of a visual that is not the primary above the bottom.
LEMMA OuterCallouts ==
    ASSUME NEW v, NEW c, NEW a, NEW s, NEW g, Laid(v, c, a, s, g),
           NEW b, NEW stack, NEW m, Slot(v, c, a, s, g, b, stack, m),
           NEW x \in Range(c), x.anchor = "bottom", x.visual # a.primary.ref, x.y \in m.bottom..m.top
    PROVE  HungAt(x.y, m, b, s[1]) - 2 * Envelope * s[2] >= -FrameHeight * s[2]
<1> DEFINE at == HungAt(x.y, m, b, s[1])
           far == Envelope * s[2]
<1>1. Drawing(Range(v), a, c, s, g) /\ Ordered(g) /\ s[2] \in Nat
  BY LaidFacts, DrawingFacts
<1>2. BottomPad(a, c) = Envelope
  BY DEF BottomPad, OuterPad
<1>3. -g.tall + 2 * far <= g.floor
  BY <1>1, <1>2, Column DEF Drawing
<1>4. g.floor <= b.bottom /\ b.bottom \in Int
  BY <1>1, SlotBox, RegionsInside
<1>5. at \in Int /\ b.bottom <= at
  BY HungWithin
<1>6. g.floor \in Int /\ g.tall \in Int /\ far \in Int
  BY <1>1 DEF Ordered, Envelope
<1>7. g.tall = FrameHeight * s[2] /\ -g.tall = -FrameHeight * s[2]
  BY <1>1 DEF Drawing, Lines, FrameHeight
<1>8. 2 * Envelope * s[2] = 2 * far
  BY <1>1 DEF Envelope
<1> HIDE DEF at, far
<1>9. at - 2 * far >= -g.tall
  BY <1>3, <1>4, <1>5, <1>6
<1>10. QED BY <1>7, <1>8, <1>9 DEF at

\* Whatever the scale: the room below the primary, the pad and the gap to the
\* row below are together as high as a callout.
LEMMA RoomAndPad ==
    ASSUME NEW a, NEW c, NEW s \in Rationals, a.primary.bottom \in Int,
           \A x \in OnPrimary(c, a.primary) : x.y \in Int /\ x.y >= a.primary.bottom,
           NEW x \in OnPrimary(c, a.primary),
           NEW pad, pad = CalloutPad(CalloutRoom(a, c), s)
    PROVE  /\ pad \in Nat /\ AtScale(s[1], x.y - a.primary.bottom) \in Nat /\ AtScale(s[1], Gap) \in Nat
           /\ pad + AtScale(s[1], x.y - a.primary.bottom) + (IF a.below = <<>> THEN 0 ELSE AtScale(s[1], Gap))
                 >= Envelope * s[2]
<1> DEFINE n == s[1]
           room == CalloutRoom(a, c)
           up == x.y - a.primary.bottom
           gap == IF a.below = <<>> THEN 0 ELSE Gap
<1>1. n \in Nat /\ s[2] \in Nat /\ up \in Nat
  BY Rational
<1>2. room \in Int /\ room <= up + gap
  BY Room
<1>3. gap \in Nat /\ AtScale(n, gap) = (IF a.below = <<>> THEN 0 ELSE AtScale(n, Gap))
  BY <1>1 DEF AtScale, Gap
<1>4. pad \in Nat /\ pad >= Envelope * s[2] - room * n
  BY <1>2, PadIs
<1> HIDE DEF n, room, up, gap
<1>5. room * n <= (up + gap) * n
  <2> DEFINE most == up + gap
  <2>1. room \in Int /\ most \in Int /\ n \in Nat /\ room <= most
    BY <1>1, <1>2, <1>3
  <2> HIDE DEF most
  <2>2. room * n <= most * n
    BY <2>1, Scaled
  <2>3. QED BY <2>2 DEF most
<1>6. (up + gap) * n = AtScale(n, up) + AtScale(n, gap) /\ AtScale(n, up) \in Nat /\ AtScale(n, gap) \in Nat
  BY <1>1, <1>3 DEF AtScale
<1>7. Envelope * s[2] \in Int /\ room * n \in Int
  BY <1>1, <1>2 DEF Envelope
<1>8. pad + AtScale(n, up) + AtScale(n, gap) >= Envelope * s[2]
  BY <1>4, <1>5, <1>6, <1>7
<1>9. AtScale(n, Gap) \in Nat
  BY <1>1 DEF AtScale, Gap
<1>10. QED BY <1>3, <1>4, <1>6, <1>8, <1>9 DEF n, up

\* What stands beside the primary keeps clear of its callouts at every scale that
\* is not too small.
LEMMA BesideKeepsClear ==
    ASSUME NEW primary, primary.bottom \in Int, primary.top \in Int, primary.bottom < primary.top,
           NEW m, Height(m) \in Nat, NEW x, x.y \in primary.bottom..primary.top, ~MeetsCallout(primary, m, x),
           NEW n \in Nat, NEW d \in Nat, 7 * d <= 10 * n,
           NEW rise, rise = 2 * AtScale(n, x.y - primary.bottom) - AtScale(n, Height(primary))
    PROVE  /\ rise \in Int /\ AtScale(n, Height(m)) \in Nat
           /\ rise <= -AtScale(n, Height(m)) \/ AtScale(n, Height(m)) <= rise - 2 * Envelope * d
<1> DEFINE above == 2 * x.y - primary.bottom - primary.top
           up == x.y - primary.bottom
           hp == Height(primary)
           h == Height(m)
<1>1. above \in Int /\ up \in Nat /\ hp \in Nat /\ h \in Nat /\ above = 2 * up - hp
  BY DEF Height
<1>2. above <= -h \/ 7 * h <= 7 * above - 20 * Envelope
  BY <1>1 DEF MeetsCallout, Envelope
<1>3. rise = 2 * AtScale(n, up) - AtScale(n, hp)
  OBVIOUS
<1> HIDE DEF above, up, hp, h
<1>4. rise = above * n /\ rise \in Int
  <2>1. (2 * up - hp) * n = 2 * (n * up) - n * hp /\ n * up \in Int /\ n * hp \in Int
    BY <1>1
  <2>2. rise = 2 * (n * up) - n * hp
    BY <1>3 DEF AtScale
  <2>3. above * n = (2 * up - hp) * n
    BY <1>1, Zenon
  <2>4. QED BY <2>1, <2>2, <2>3
<1>5. AtScale(n, h) = h * n /\ AtScale(n, h) \in Nat
  BY <1>1 DEF AtScale
<1>6. CASE above <= -h
  <2>1. above * n <= (-h) * n
    BY <1>1, <1>6, Scaled
  <2>2. (-h) * n = -(h * n)
    BY <1>1
  <2>3. QED BY <1>4, <1>5, <2>1, <2>2 DEF h
<1>7. CASE 7 * h <= 7 * above - 20 * Envelope
  <2>1. 7 * h + 1800 <= 7 * above
    BY <1>1, <1>7 DEF Envelope
  <2>2. (7 * h + 1800) * n <= (7 * above) * n
    BY <1>1, <2>1, Scaled
  <2>3. (7 * h + 1800) * n = 7 * (h * n) + 1800 * n /\ (7 * above) * n = 7 * (above * n)
    BY <1>1
  <2>4. h * n \in Int /\ above * n \in Int
    BY <1>1
  <2>5. 7 * (h * n) + 1260 * d <= 7 * (above * n)
    BY <2>2, <2>3, <2>4
  <2>6. h * n + 180 * d <= above * n
    BY <2>4, <2>5
  <2>7. 2 * Envelope * d = 180 * d
    BY DEF Envelope
  <2>8. AtScale(n, h) <= rise - 2 * Envelope * d
    BY <1>4, <1>5, <2>4, <2>6, <2>7
  <2>9. QED BY <1>4, <1>5, <2>8 DEF h
<1>8. QED BY <1>2, <1>6, <1>7

\* A row takes a gap at least.
LEMMA RowsTakeAGap ==
    ASSUME NEW V, Sized(V), NEW items \in Seq(V), items # <<>>, NEW n \in Nat
    PROVE  /\ AtScale(n, Gap) <= AtScale(n, Reach(Heights(items)))
           /\ AtScale(n, Gap) \in Nat /\ AtScale(n, Reach(Heights(items))) \in Nat
<1> DEFINE l == Heights(items)
<1>1. l \in Seq(Nat) /\ Len(l) = Len(items) /\ Len(items) \in Nat
  BY StackSizes
<1>2. Len(l) > 0
  BY <1>1
<1> HIDE DEF l
<1>3. 1 \in 1..Len(l)
  BY <1>1, <1>2
<1>4. /\ AtScale(n, Before(l)[1]) \in Nat /\ AtScale(n, l[1]) \in Nat
      /\ AtScale(n, Before(l)[1]) + AtScale(n, l[1]) + AtScale(n, Gap) <= AtScale(n, Reach(l))
      /\ AtScale(n, Reach(l)) \in Nat /\ AtScale(n, Gap) \in Nat
  BY <1>1, <1>3, ScaledCursor
<1>5. QED BY <1>4 DEF l

\* The callouts of the primary: their height is above the bottom of the frame,
\* and above the first row.
LEMMA BelowPrimary ==
    ASSUME NEW v, NEW c, NEW a, NEW s, NEW g, Laid(v, c, a, s, g),
           NEW b, Slot(v, c, a, s, g, b, "primary", a.primary),
           NEW x \in OnPrimary(c, a.primary), x.y \in a.primary.bottom..a.primary.top,
           NEW at, at = HungAt(x.y, a.primary, b, s[1]),
           NEW far, far = Envelope * s[2]
    PROVE  /\ at \in Int /\ far \in Nat
           /\ at - 2 * far >= g.floor
           /\ a.below # <<>> => at - 2 * far >= g.rows
<1> DEFINE pad == CalloutPad(CalloutRoom(a, c), s)
           gap == AtScale(s[1], Gap)
           down == AtScale(s[1], Reach(Heights(a.below)))
           up == AtScale(s[1], x.y - a.primary.bottom)
           between == IF a.below = <<>> THEN 0 ELSE gap
<1>1. /\ Drawing(Range(v), a, c, s, g) /\ s \in Rationals /\ s[1] \in Nat /\ s[2] \in Nat
      /\ Arranged(Range(v), a) /\ a.primary \in Range(v)
      /\ \A o \in OnPrimary(c, a.primary) : o.y \in a.primary.bottom..a.primary.top
  <2>1. /\ Drawing(Range(v), a, c, s, g)
        /\ \A o \in OnPrimary(c, a.primary) : o.y \in a.primary.bottom..a.primary.top
    BY LaidFacts
  <2>2. s \in Rationals /\ s[1] \in Nat /\ s[2] \in Nat
    BY <2>1, DrawingFacts
  <2>3. Arranged(Range(v), a)
    BY <2>1 DEF Drawing
  <2>4. QED BY <2>1, <2>2, <2>3 DEF Arranged
<1>2. a.primary.bottom \in Int /\ a.primary.top \in Int
  BY <1>1 DEF Arranged, Sized
<1>3. \A o \in OnPrimary(c, a.primary) : o.y \in Int /\ o.y >= a.primary.bottom
  BY <1>1, <1>2
<1>4. pad + up + between >= far /\ pad \in Nat /\ up \in Nat /\ gap \in Nat
  BY <1>1, <1>2, <1>3, RoomAndPad
<1>5. at \in Int /\ at = b.bottom + 2 * up
  BY HungWithin
<1>6. b.bottom >= g.bandBottom /\ b.bottom \in Int
  BY SlotBox DEF Region, InBand
<1>7. /\ g.bandBottom \in Int /\ down \in Nat
      /\ g.rows = g.bandBottom - 2 * gap - 2 * pad
      /\ g.floor = g.bandBottom - 2 * pad - 2 * down
  BY <1>1, Column DEF Drawing
<1>8. between <= down /\ between \in Nat
  <2>1. CASE a.below = <<>>
    BY <1>7, <2>1
  <2>2. CASE a.below # <<>>
    BY <1>1, <1>4, <2>2, RowsTakeAGap DEF Arranged
  <2>3. QED BY <2>1, <2>2
<1>9. far \in Nat
  BY <1>1 DEF Envelope
<1>10. a.below # <<>> => between = gap
  OBVIOUS
<1> HIDE DEF pad, gap, down, up, between
<1>11. at - 2 * far >= g.bandBottom - 2 * pad - 2 * between
  BY <1>4, <1>5, <1>6, <1>7, <1>8, <1>9
<1>12. at - 2 * far >= g.floor
  BY <1>4, <1>5, <1>7, <1>8, <1>9, <1>11
<1>13. ASSUME a.below # <<>> PROVE at - 2 * far >= g.rows
  BY <1>4, <1>5, <1>7, <1>9, <1>10, <1>11, <1>13
<1>14. QED BY <1>5, <1>9, <1>12, <1>13

\* A callout under the primary keeps inside the frame and clear of the others.
LEMMA PrimaryCallouts ==
    ASSUME NEW v, NEW c, NEW a, NEW s, NEW g, Laid(v, c, a, s, g), 7 * s[2] <= 10 * s[1],
           NEW b, NEW stack, Slot(v, c, a, s, g, b, stack, a.primary),
           NEW x \in Range(c), x.anchor = "bottom", x.visual = a.primary.ref, x.y # None,
           NEW at, at = HungAt(x.y, a.primary, b, s[1])
    PROVE  /\ at - 2 * Envelope * s[2] >= -FrameHeight * s[2]
           /\ \A d, side, m : Slot(v, c, a, s, g, d, side, m) /\ side # "primary" =>
                 d.bottom >= at \/ d.top <= at - 2 * Envelope * s[2]
<1> DEFINE far == Envelope * s[2]
<1>1. x \in OnPrimary(c, a.primary)
  BY DEF OnPrimary
<1>2. /\ Drawing(Range(v), a, c, s, g) /\ Ordered(g) /\ s[1] \in Nat /\ s[2] \in Nat
      /\ x.y \in a.primary.bottom..a.primary.top
      /\ MiddleOfBand(a, c, s) \in Int
  BY <1>1, LaidFacts, DrawingFacts
<1>3. stack = "primary" /\ Slot(v, c, a, s, g, b, "primary", a.primary)
  BY DEF Slot
<1>4. /\ at \in Int /\ far \in Nat /\ at - 2 * far >= g.floor
      /\ a.below # <<>> => at - 2 * far >= g.rows
  BY <1>1, <1>2, <1>3, BelowPrimary
<1>5. 2 * Envelope * s[2] = 2 * far
  BY <1>2 DEF Envelope
<1>6. g.tall = FrameHeight * s[2] /\ -FrameHeight * s[2] = -g.tall
  BY <1>2 DEF Drawing, Lines, FrameHeight
<1>7. /\ b.bottom = MiddleOfBand(a, c, s) - AtScale(s[1], Height(a.primary))
      /\ b.top <= g.bandTop /\ b.top \in Int
  <2>1. Region(g, "primary", b) /\ b.top \in Int
    BY <1>3, SlotBox
  <2>2. b.bottom = MiddleOfBand(a, c, s) - AtScale(s[1], Height(a.primary))
    BY <1>3 DEF Slot
  <2>3. QED BY <2>1, <2>2 DEF Region, InBand
<1>8. /\ at <= b.top /\ at = b.bottom + 2 * AtScale(s[1], x.y - a.primary.bottom)
      /\ AtScale(s[1], x.y - a.primary.bottom) \in Nat
  BY <1>2, <1>3, HungWithin
<1> HIDE DEF far
<1>9. at - 2 * far >= -g.tall
  <2>1. g.floor \in Int /\ g.tall \in Nat /\ -g.tall <= g.floor
    BY <1>2 DEF Ordered
  <2>2. QED BY <1>4, <2>1
<1>10. ASSUME NEW d, NEW side, NEW m, Slot(v, c, a, s, g, d, side, m), side # "primary"
       PROVE  d.bottom >= at \/ d.top <= at - 2 * far
  <2>1. /\ d.bottom \in Int /\ d.top \in Int /\ side \in Stacks \cup {"primary"} /\ Region(g, side, d)
        /\ m \in Range(v)
    BY <1>10, SlotBox
  <2>2. CASE side = "above"
    <3>1. d.bottom >= g.bandTop
      BY <2>1, <2>2 DEF Region
    <3>2. g.bandTop \in Int
      BY <1>2 DEF Ordered
    <3>3. at <= g.bandTop
      BY <1>4, <1>7, <1>8, <3>2
    <3>4. QED BY <1>4, <2>1, <3>1, <3>2, <3>3
  <2>3. CASE side = "below"
    <3>1. d.top <= g.rows /\ a.below # <<>>
      BY <1>10, <2>1, <2>3 DEF Region, Slot
    <3>2. at - 2 * far >= g.rows /\ g.rows \in Int
      BY <1>2, <1>4, <3>1 DEF Ordered
    <3>3. QED BY <1>4, <2>1, <3>1, <3>2
  <2>4. CASE side \in {"left", "right"}
    <3> DEFINE middle == MiddleOfBand(a, c, s)
               hp == AtScale(s[1], Height(a.primary))
               h == AtScale(s[1], Height(m))
               up == AtScale(s[1], x.y - a.primary.bottom)
               rise == 2 * up - hp
    <3>1. /\ a.primary.bottom \in Int /\ a.primary.top \in Int /\ a.primary.bottom < a.primary.top
          /\ Height(m) \in Nat
      <4>1. Sized(Range(v)) /\ a.primary \in Range(v)
        BY <1>2 DEF Drawing, Arranged
      <4>2. QED BY <2>1, <4>1, Sizes DEF Sized
    <3>2. ~MeetsCallout(a.primary, m, x)
      BY <1>1, <1>10, <2>4 DEF Slot, FitsBeside
    <3>3. rise \in Int /\ h \in Nat /\ (rise <= -h \/ h <= rise - 2 * Envelope * s[2])
      BY <1>2, <3>1, <3>2, BesideKeepsClear
    <3>4. d.bottom = middle - h /\ d.top = d.bottom + 2 * h
      BY <1>10, <2>4, SlotBox DEF Slot
    <3>5. at = (middle - hp) + 2 * up /\ up \in Nat
      BY <1>7, <1>8
    <3>6. hp \in Nat
      BY <1>2, <3>1 DEF AtScale, Height
    <3>7. at = middle + rise
      BY <1>2, <3>5, <3>6
    <3>8. middle \in Int
      BY <1>2
    <3> HIDE DEF middle, hp, h, up, rise
    <3>9. rise <= -h \/ h <= rise - 2 * far
      BY <1>5, <3>3
    <3>10. QED BY <1>4, <3>3, <3>4, <3>7, <3>8, <3>9
  <2>5. QED BY <1>10, <2>1, <2>2, <2>3, <2>4 DEF Stacks
<1>11. QED BY <1>5, <1>6, <1>9, <1>10

-----------------------------------------------------------------------------
(* The pass.                                                                *)

\* Each step goes on from what the one before it found: the inductive invariant.
OnCourse ==
    /\ HandedIn(visuals, callouts)
    /\ progress \in {"measured", "arranged", "scaled", "placed", "refused"}
    /\ progress \in {"arranged", "scaled", "placed"} => arrangement = Arrangement(visuals, callouts)
    /\ progress \in {"scaled", "placed"} =>
          scale = Scale(arrangement, callouts) /\ AtMost(MinTextScale, scale)
    /\ progress = "placed" => boxes = Places(arrangement, callouts, scale)

\* No step of the pass leaves what the invariant says of its progress.
LEMMA StaysOnCourse == LayoutSpec => []OnCourse
<1>1. LayoutInit => OnCourse
  <2> SUFFICES ASSUME LayoutInit PROVE OnCourse
    OBVIOUS
  <2>1. PICK l \in Lessons : visuals = l.visuals /\ callouts = l.callouts
    BY DEF LayoutInit
  <2>2. HandedIn(visuals, callouts)
    BY <2>1, LessonsAssumption DEF HandedIn
  <2>3. QED BY <2>2 DEF LayoutInit, OnCourse
<1>2. OnCourse /\ [LayoutNext]_layoutVars => OnCourse'
  <2> SUFFICES ASSUME OnCourse, [LayoutNext]_layoutVars PROVE OnCourse'
    OBVIOUS
  <2>1. CASE Arrange
    BY <2>1 DEF OnCourse, Arrange, HandedIn, Lesson
  <2>2. CASE FindScale
    <3>1. progress' \in {"scaled", "refused"} /\ (progress' = "scaled" => AtMost(MinTextScale, scale'))
      BY <2>2 DEF FindScale
    <3>2. visuals' = visuals /\ callouts' = callouts /\ arrangement' = arrangement
      BY <2>2 DEF FindScale
    <3>3. arrangement = Arrangement(visuals, callouts) /\ scale' = Scale(arrangement, callouts)
      BY <2>2 DEF OnCourse, FindScale
    <3>4. HandedIn(visuals, callouts)'
      BY <3>2 DEF OnCourse, HandedIn, Lesson
    <3>5. QED BY <3>1, <3>2, <3>3, <3>4 DEF OnCourse
  <2>3. CASE Place
    BY <2>3 DEF OnCourse, Place, HandedIn, Lesson
  <2>4. CASE UNCHANGED layoutVars
    BY <2>4 DEF OnCourse, layoutVars, HandedIn, Lesson
  <2>5. QED BY <2>1, <2>2, <2>3, <2>4 DEF LayoutNext
<1>3. QED BY <1>1, <1>2, PTL DEF LayoutSpec

\* What is placed is laid out as the lemmas say.
LEMMA PlacedIsLaid ==
    ASSUME OnCourse, progress = "placed"
    PROVE  /\ Laid(visuals, callouts, arrangement, scale, Lines(arrangement, callouts, scale))
           /\ boxes = Places(arrangement, callouts, scale)
           /\ scale \in Rationals /\ scale[1] \in Nat /\ scale[2] \in Nat /\ 7 * scale[2] <= 10 * scale[1]
<1>1. /\ Laid(visuals, callouts, arrangement, scale, Lines(arrangement, callouts, scale))
      /\ boxes = Places(arrangement, callouts, scale) /\ AtMost(MinTextScale, scale)
  BY DEF OnCourse, Laid
<1>2. scale \in Rationals /\ scale[1] \in Nat /\ scale[2] \in Nat
  BY <1>1, LaidFacts, DrawingFacts
<1>3. 7 * scale[2] <= scale[1] * 10
  <2>1. MinTextScale \in Rationals /\ MinTextScale[1] = 7 /\ MinTextScale[2] = 10
    BY DEF MinTextScale, Rationals
  <2>2. QED BY <1>1, <1>2, <2>1, AtMostIs
<1>4. QED BY <1>1, <1>2, <1>3

\* place_vertical_lesson never loses a visual, never puts one outside the safe
\* frame and never draws one over another: of whatever lesson it is given, however
\* many visuals that has, each has one box of its size at the scale that was found,
\* every box is inside the frame, and no two boxes overlap.
THEOREM LessonsAreWellPlaced == LayoutSpec => []WellPlaced
<1>1. OnCourse => WellPlaced
  <2> SUFFICES ASSUME OnCourse, progress = "placed"
               PROVE  /\ \A m \in Range(visuals) : \E b \in boxes : Drawn(m, b)
                      /\ \A b \in boxes : \E m \in Range(visuals) : Drawn(m, b)
                      /\ \A b \in boxes : InsideFrame(b)
                      /\ \A b, c \in boxes : b # c => b.ref # c.ref /\ Apart(b, c)
    BY DEF WellPlaced
  <2> DEFINE g == Lines(arrangement, callouts, scale)
             Slots(b, stack, m) == Slot(visuals, callouts, arrangement, scale, g, b, stack, m)
  <2>1. /\ Laid(visuals, callouts, arrangement, scale, g)
        /\ boxes = Places(arrangement, callouts, scale) /\ scale[1] \in Nat /\ scale[2] \in Nat
    BY PlacedIsLaid
  <2>2. Ordered(g) /\ g.wide = FrameWidth * scale[2] /\ g.tall = FrameHeight * scale[2]
    BY <2>1, LaidFacts, DrawingFacts DEF Lines
  <2> HIDE DEF g
  <2>3. ASSUME NEW b, NEW stack, NEW m, Slots(b, stack, m)
        PROVE  m \in Range(visuals) /\ Drawn(m, b) /\ InsideFrame(b)
    <3>1. /\ b.left \in Int /\ b.right \in Int /\ b.bottom \in Int /\ b.top \in Int
          /\ b.bottom <= b.top /\ b.ref = m.ref
          /\ b.right = b.left + 2 * AtScale(scale[1], Width(m)) /\ AtScale(scale[1], Width(m)) \in Nat
          /\ b.top = b.bottom + 2 * AtScale(scale[1], Height(m)) /\ AtScale(scale[1], Height(m)) \in Nat
          /\ stack \in Stacks \cup {"primary"} /\ Region(g, stack, b) /\ m \in Range(visuals)
      BY <2>3, SlotBox
    <3>2. Width(m) \in Nat /\ Height(m) \in Nat
      BY <2>1, <3>1, LaidFacts, Sizes DEF Drawing, Arranged
    <3>3. /\ 2 * Width(m) * scale[1] = 2 * AtScale(scale[1], Width(m))
          /\ 2 * Height(m) * scale[1] = 2 * AtScale(scale[1], Height(m))
      BY <2>1, <3>2 DEF AtScale
    <3>4. Drawn(m, b)
      BY <3>1, <3>3 DEF Drawn
    <3>5. -g.wide <= b.left /\ b.right <= g.wide /\ -g.tall <= b.bottom /\ b.top <= g.tall
      BY <2>2, <3>1, RegionsInside
    <3>6. InsideFrame(b)
      <4>1. -FrameWidth * scale[2] = -(FrameWidth * scale[2]) /\ -FrameHeight * scale[2] = -(FrameHeight * scale[2])
        BY <2>1 DEF FrameWidth, FrameHeight
      <4>2. QED BY <2>2, <3>5, <4>1 DEF InsideFrame
    <3>7. QED BY <3>1, <3>4, <3>6
  <2>4. ASSUME NEW m \in Range(visuals) PROVE \E b \in boxes : Drawn(m, b)
    BY <2>1, <2>3, EachVisualHasABox
  <2>5. ASSUME NEW b \in boxes PROVE InsideFrame(b) /\ \E m \in Range(visuals) : Drawn(m, b)
    BY <2>1, <2>3, EachBoxHasASlot
  <2>6. \A b, c \in boxes : b # c => b.ref # c.ref /\ Apart(b, c)
    BY <2>1, BoxesApart
  <2>7. QED BY <2>4, <2>5, <2>6
<1>2. QED BY <1>1, StaysOnCourse, PTL

\* The room for a callout is kept whichever scale is found: a callout at the top or
\* the bottom of any visual has its whole height inside the frame, and the strip of
\* one that hangs from the primary meets no other visual.
THEOREM CalloutsStayClear == LayoutSpec => []CalloutsClear
<1>1. OnCourse => CalloutsClear
  <2> SUFFICES ASSUME OnCourse, progress = "placed",
                      NEW c \in Range(callouts), NEW m \in Range(visuals), NEW b \in boxes,
                      c.y # None, m.ref = c.visual, b.ref = c.visual
               PROVE  LET at == AnchorAt(c, m, b)
                          far == 2 * Envelope * scale[2]
                      IN  /\ c.anchor = "bottom" => at - far >= -FrameHeight * scale[2]
                          /\ c.anchor = "top" => at + far <= FrameHeight * scale[2]
                          /\ (c.anchor = "bottom" /\ c.visual = arrangement.primary.ref) =>
                                \A other \in boxes \ {b} : other.bottom >= at \/ other.top <= at - far
    BY DEF CalloutsClear
  <2> DEFINE g == Lines(arrangement, callouts, scale)
             Slots(box, stack, of) == Slot(visuals, callouts, arrangement, scale, g, box, stack, of)
             at == AnchorAt(c, m, b)
             far == 2 * Envelope * scale[2]
  <2>1. /\ Laid(visuals, callouts, arrangement, scale, g) /\ HandedIn(visuals, callouts)
        /\ boxes = Places(arrangement, callouts, scale) /\ 7 * scale[2] <= 10 * scale[1]
    BY PlacedIsLaid DEF Laid
  <2> HIDE DEF g
  <2>2. PICK stack, of : Slots(b, stack, of)
    BY <2>1, EachBoxHasASlot
  <2>3. of = m
    <3>1. of \in Range(visuals) /\ b.ref = of.ref
      BY <2>2, SlotBox
    <3>2. QED BY <2>1, <3>1, Names
  <2>4. Slots(b, stack, m) /\ at = HungAt(c.y, m, b, scale[1])
    BY <2>2, <2>3 DEF AnchorAt, HungAt
  <2>5. c.y \in m.bottom..m.top
    <3>1. PICK o \in Range(visuals) : o.ref = c.visual /\ c.y \in o.bottom..o.top
      BY <2>1 DEF HandedIn, Lesson
    <3>2. o = m
      BY <2>1, <3>1, Names
    <3>3. QED BY <3>1, <3>2
  <2> HIDE DEF at, far
  <2>6. ASSUME c.anchor = "top" PROVE at + far <= FrameHeight * scale[2]
    BY <2>1, <2>4, <2>5, <2>6, TopCallouts DEF far
  <2>7. CASE c.visual # arrangement.primary.ref
    <3>1. c.anchor = "bottom" => at - far >= -FrameHeight * scale[2]
      BY <2>1, <2>4, <2>5, <2>7, OuterCallouts DEF far
    <3>2. QED BY <2>6, <2>7, <3>1 DEF at, far
  <2>8. CASE c.visual = arrangement.primary.ref
    <3>1. arrangement.primary \in Range(visuals)
      BY <2>1, LaidFacts DEF EachPlaced
    <3>2. m = arrangement.primary
      BY <2>1, <2>8, <3>1, Names
    <3>3. ASSUME c.anchor = "bottom"
          PROVE  /\ at - far >= -FrameHeight * scale[2]
                 /\ \A d, side, o : Slots(d, side, o) /\ side # "primary" =>
                       d.bottom >= at \/ d.top <= at - far
      BY <2>1, <2>4, <2>8, <3>2, <3>3, PrimaryCallouts DEF far
    <3>4. ASSUME c.anchor = "bottom", NEW other \in boxes \ {b}
          PROVE  other.bottom >= at \/ other.top <= at - far
      <4>1. PICK side, o : Slots(other, side, o)
        BY <2>1, EachBoxHasASlot
      <4>2. side # "primary"
        <5>1. other.ref # b.ref
          BY <2>1, BoxesApart
        <5>2. other.ref = o.ref /\ (side = "primary" => o = arrangement.primary)
          <6>1. other.ref = o.ref
            BY <4>1, SlotBox
          <6>2. side = "primary" => o = arrangement.primary
            BY <4>1 DEF Slot
          <6>3. QED BY <6>1, <6>2
        <5>3. QED BY <2>8, <5>1, <5>2
      <4>3. QED BY <3>3, <3>4, <4>1, <4>2
    <3>5. QED BY <2>6, <3>3, <3>4 DEF at, far
  <2>9. QED BY <2>7, <2>8
<1>2. QED BY <1>1, StaysOnCourse, PTL
=============================================================================
