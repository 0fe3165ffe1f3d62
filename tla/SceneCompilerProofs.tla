-------------------------- MODULE SceneCompilerProofs --------------------------
(***************************************************************************)
(* What is proved of SceneCompiler, for every plan, contract and fixture.  *)
(* The argument follows the expander: a list of facts about lists, the     *)
(* agreement of the expander's books with the actions emitted so far, one  *)
(* lemma for each thing a beat does that it keeps this agreement and which *)
(* moves it stages, and the invariant of the specification made of them.   *)
(***************************************************************************)
EXTENDS SceneCompiler, FiniteSetTheorems, SequenceTheorems, WellFoundedInduction, TLAPS

-----------------------------------------------------------------------------
(* Induction on the naturals, by their least elements.                      *)

\* The order of the naturals is well founded.
LEMMA NatLess == IsWellFoundedOn({p \in Nat \X Nat : p[1] < p[2]}, Nat)
BY NatLessThanWellFounded DEF OpToRel

\* A set of naturals has a least element.
LEMMA LeastNat ==
    ASSUME NEW T, T \subseteq Nat, T # {}
    PROVE  \E x \in T : \A y \in T : x <= y
<1> DEFINE R == {p \in Nat \X Nat : p[1] < p[2]}
<1>1. IsWellFoundedOn(R, Nat)
  BY NatLess
<1> HIDE DEF R
<1>2. PICK x \in T : \A y \in T : <<y, x>> \notin R
  BY <1>1, WFMin
<1> USE DEF R
<1>3. \A y \in T : ~(y < x)
  BY <1>2
<1>4. QED
  BY <1>3

\* What holds of zero and is handed on holds of every natural.
LEMMA NatInd ==
    ASSUME NEW S, 0 \in S, \A n \in Nat : n \in S => n + 1 \in S
    PROVE  Nat \subseteq S
<1> SUFFICES ASSUME NEW k \in Nat, k \notin S PROVE FALSE
  OBVIOUS
<1> DEFINE T == {n \in Nat : n \notin S}
<1>1. PICK x \in T : \A y \in T : x <= y
  <2> HIDE DEF T
  <2>1. T \subseteq Nat /\ T # {}
    BY DEF T
  <2>2. QED BY <2>1, LeastNat
<1>2. x # 0
  OBVIOUS
<1>3. x - 1 \in Nat /\ x - 1 \notin T
  BY <1>1, <1>2
<1>4. QED
  BY <1>3

-----------------------------------------------------------------------------
(* Lists.                                                                   *)

\* The places of a list.
LEMMA ListPlaces ==
    ASSUME NEW s, Listed(s)
    PROVE  /\ Len(s) \in Nat
           /\ DOMAIN s = 1..Len(s)
           /\ \A x : x \in Range(s) <=> \E k \in 1..Len(s) : s[k] = x
<1>1. Len(s) \in Nat /\ DOMAIN s = 1..Len(s)
  BY LenProperties DEF Listed
<1>2. Range(s) = {s[k] : k \in DOMAIN s}
  BY DEF Range
<1>3. QED BY <1>1, <1>2

\* A sequence over any set is a list.
LEMMA SeqIsListed ==
    ASSUME NEW S, NEW s \in Seq(S)
    PROVE  Listed(s)
BY SeqOfRange DEF Listed

\* One more element at the end of a list.
LEMMA AppendToList ==
    ASSUME NEW s, Listed(s), NEW x
    PROVE  /\ Listed(Append(s, x))
           /\ Len(Append(s, x)) = Len(s) + 1
           /\ Append(s, x)[Len(s) + 1] = x
           /\ \A k \in 1..Len(s) : Append(s, x)[k] = s[k]
<1> DEFINE S == Range(s) \cup {x}
<1>1. s \in Seq(S)
  <2>1. s \in Seq(Range(s)) /\ Range(s) \subseteq S
    BY DEF Listed
  <2> HIDE DEF S
  <2>2. QED BY <2>1, SeqMonotonic
<1>2. x \in S
  OBVIOUS
<1> HIDE DEF S
<1>3. /\ Append(s, x) \in Seq(S) /\ Len(Append(s, x)) = Len(s) + 1
      /\ Append(s, x)[Len(s) + 1] = x
      /\ \A k \in 1..Len(s) : Append(s, x)[k] = s[k]
  BY <1>1, <1>2, AppendProperties
<1>4. QED BY <1>3, SeqIsListed

-----------------------------------------------------------------------------
(* What is kept of a list.                                                  *)

\* One place is looked at.
KeptOnce(s, places, k, t) == IF k \in places THEN Append(t, s[k]) ELSE t

\* The first n places have been looked at.
Keeping(s, places, f, n) ==
    f = [k \in 0..n |-> IF k = 0 THEN <<>> ELSE KeptOnce(s, places, k, f[k - 1])]

\* Every number of places can be looked at: induction on it.
LEMMA KeepingExists ==
    ASSUME NEW s, NEW places
    PROVE  \A n \in Nat : \E f : Keeping(s, places, f, n)
<1> DEFINE S == {n \in Nat : \E f : Keeping(s, places, f, n)}
<1>1. 0 \in S
  <2> DEFINE g == [k \in 0..0 |-> <<>>]
  <2>1. ASSUME NEW k \in 0..0
        PROVE g[k] = IF k = 0 THEN <<>> ELSE KeptOnce(s, places, k, g[k - 1])
    OBVIOUS
  <2>2. Keeping(s, places, g, 0)
    BY <2>1 DEF Keeping
  <2>3. QED BY <2>2
<1>2. ASSUME NEW n \in Nat, n \in S PROVE n + 1 \in S
  <2>1. PICK f : Keeping(s, places, f, n)
    BY <1>2
  <2> DEFINE x == KeptOnce(s, places, n + 1, f[n])
             g == [k \in 0..(n + 1) |-> IF k = n + 1 THEN x ELSE f[k]]
  <2> HIDE DEF x
  <2>2. ASSUME NEW k \in 0..(n + 1)
        PROVE g[k] = IF k = 0 THEN <<>> ELSE KeptOnce(s, places, k, g[k - 1])
    <3>1. CASE k = n + 1
      <4>1. k # 0 /\ k - 1 = n /\ n \in 0..(n + 1) /\ n # n + 1
        BY <3>1
      <4>2. g[k] = x /\ g[k - 1] = f[n]
        BY <4>1, <3>1
      <4>3. QED BY <3>1, <4>1, <4>2 DEF x
    <3>2. CASE k # n + 1
      <4>1. k \in 0..n /\ (k # 0 => k - 1 \in 0..n)
        BY <3>2
      <4>2. f[k] = IF k = 0 THEN <<>> ELSE KeptOnce(s, places, k, f[k - 1])
        BY <4>1, <2>1 DEF Keeping
      <4>3. g[k] = f[k] /\ (k # 0 => g[k - 1] = f[k - 1])
        BY <4>1
      <4>4. QED BY <4>2, <4>3
    <3>3. QED BY <3>1, <3>2
  <2>3. Keeping(s, places, g, n + 1)
    BY <2>2 DEF Keeping
  <2>4. QED BY <2>3
<1>3. QED
  <2> HIDE DEF S
  <2>1. Nat \subseteq S BY <1>1, <1>2, NatInd
  <2>2. QED BY <2>1 DEF S

\* Each element of t stands at a place of its own of the first n of s, in order,
\* which e tells, and none of the places to be kept is missing.
Embeds(s, places, n, t, e) ==
    /\ e \in [1..Len(t) -> 1..n]
    /\ \A i \in 1..Len(t) : e[i] \in places /\ t[i] = s[e[i]]
    /\ \A i, j \in 1..Len(t) : i < j => e[i] < e[j]
    /\ \A k \in 1..n : k \in places => \E i \in 1..Len(t) : e[i] = k

Selects(s, places, n, t) == Listed(t) /\ \E e : Embeds(s, places, n, t, e)

\* Looking at one more place keeps what was kept, in order.
LEMMA SelectsStep ==
    ASSUME NEW s, NEW places, NEW n \in Nat, NEW t, Selects(s, places, n, t)
    PROVE  Selects(s, places, n + 1, KeptOnce(s, places, n + 1, t))
<1>1. PICK e : Embeds(s, places, n, t, e)
  BY DEF Selects
<1>2. Listed(t) /\ Len(t) \in Nat
  BY ListPlaces DEF Selects
<1>3. CASE n + 1 \notin places
  <2>1. KeptOnce(s, places, n + 1, t) = t
    BY <1>3 DEF KeptOnce
  <2>2. Embeds(s, places, n + 1, t, e)
    BY <1>1, <1>3 DEF Embeds
  <2>3. QED BY <1>2, <2>1, <2>2 DEF Selects
<1>4. CASE n + 1 \in places
  <2> DEFINE u == Append(t, s[n + 1])
             g == [i \in 1..Len(u) |-> IF i = Len(u) THEN n + 1 ELSE e[i]]
  <2>1. /\ Listed(u) /\ Len(u) = Len(t) + 1 /\ u[Len(t) + 1] = s[n + 1]
        /\ \A k \in 1..Len(t) : u[k] = t[k]
    BY <1>2, AppendToList
  <2> HIDE DEF u
  <2>2. \A i \in 1..Len(u) : i # Len(u) => i \in 1..Len(t)
    BY <1>2, <2>1
  <2>3. g \in [1..Len(u) -> 1..(n + 1)]
    BY <1>1, <2>2 DEF Embeds
  <2>4. \A i \in 1..Len(u) : g[i] \in places /\ u[i] = s[g[i]]
    BY <1>1, <1>2, <1>4, <2>1, <2>2 DEF Embeds
  <2>5. ASSUME NEW i \in 1..Len(u), NEW j \in 1..Len(u), i < j PROVE g[i] < g[j]
    <3>1. i # Len(u) /\ i \in 1..Len(t) /\ e[i] \in 1..n /\ g[i] = e[i]
      BY <1>1, <1>2, <2>1, <2>2, <2>5 DEF Embeds
    <3>2. CASE j = Len(u)
      BY <3>1, <3>2
    <3>3. CASE j # Len(u)
      <4>1. j \in 1..Len(t) /\ g[j] = e[j]
        BY <2>2, <3>3
      <4>2. QED BY <1>1, <2>5, <3>1, <4>1 DEF Embeds
    <3>4. QED BY <3>2, <3>3
  <2>6. ASSUME NEW k \in 1..(n + 1), k \in places PROVE \E i \in 1..Len(u) : g[i] = k
    <3>1. CASE k = n + 1
      <4>1. Len(u) \in 1..Len(u)
        BY <1>2, <2>1
      <4>2. QED BY <3>1, <4>1
    <3>2. CASE k # n + 1
      <4>1. k \in 1..n
        BY <3>2
      <4>2. PICK i \in 1..Len(t) : e[i] = k
        BY <1>1, <2>6, <4>1 DEF Embeds
      <4>3. i \in 1..Len(u) /\ i # Len(u)
        BY <1>2, <2>1
      <4>4. QED BY <4>2, <4>3
    <3>3. QED BY <3>1, <3>2
  <2>7. Embeds(s, places, n + 1, u, g)
    <3> HIDE DEF g
    <3>1. QED BY <2>3, <2>4, <2>5, <2>6 DEF Embeds
  <2>8. KeptOnce(s, places, n + 1, t) = u
    BY <1>4 DEF KeptOnce, u
  <2>9. QED BY <2>1, <2>7, <2>8 DEF Selects
<1>5. QED BY <1>3, <1>4

\* What is kept of a list is what stands at the places to be kept, in order.
LEMMA KeptSelects ==
    ASSUME NEW s, Listed(s), NEW places
    PROVE  Selects(s, places, Len(s), Kept(s, places))
<1>1. Len(s) \in Nat
  BY ListPlaces
<1> DEFINE f == CHOOSE f : Keeping(s, places, f, Len(s))
<1>2. Keeping(s, places, f, Len(s))
  BY <1>1, KeepingExists
<1>3. Kept(s, places) = f[Len(s)]
  BY DEF Kept, Keeping, KeptOnce
<1> HIDE DEF f
<1>4. \A k \in 0..Len(s) : f[k] = IF k = 0 THEN <<>> ELSE KeptOnce(s, places, k, f[k - 1])
  BY <1>2 DEF Keeping
<1>5. f[0] = <<>> /\ \A n \in Nat : n + 1 <= Len(s) => f[n + 1] = KeptOnce(s, places, n + 1, f[n])
  <2>1. 0 \in 0..Len(s)
    BY <1>1
  <2>2. ASSUME NEW n \in Nat, n + 1 <= Len(s)
        PROVE  f[n + 1] = KeptOnce(s, places, n + 1, f[n])
    <3>1. n + 1 \in 0..Len(s) /\ n + 1 # 0 /\ (n + 1) - 1 = n
      BY <1>1, <2>2
    <3>2. QED BY <1>4, <3>1
  <2>3. QED BY <1>4, <2>1, <2>2
<1> DEFINE S == {n \in Nat : n <= Len(s) => Selects(s, places, n, f[n])}
<1>6. 0 \in S
  <2>1. Listed(<<>>) /\ Len(<<>>) = 0 /\ 1..0 = {}
    <3>1. <<>> \in Seq({}) /\ Len(<<>>) = 0
      BY EmptySeq
    <3>2. Listed(<<>>)
      BY <3>1, SeqIsListed
    <3>3. QED BY <3>1, <3>2
  <2>2. Embeds(s, places, 0, <<>>, [i \in 1..0 |-> 0])
    BY <2>1 DEF Embeds
  <2>3. QED BY <1>5, <2>1, <2>2 DEF Selects
<1>7. ASSUME NEW n \in Nat, n \in S PROVE n + 1 \in S
  <2>1. SUFFICES ASSUME n + 1 <= Len(s) PROVE Selects(s, places, n + 1, f[n + 1])
    OBVIOUS
  <2>2. Selects(s, places, n, f[n])
    BY <1>1, <1>7, <2>1
  <2> HIDE DEF S
  <2>3. Selects(s, places, n + 1, KeptOnce(s, places, n + 1, f[n]))
    BY <2>2, SelectsStep
  <2>4. f[n + 1] = KeptOnce(s, places, n + 1, f[n])
    BY <1>5, <2>1
  <2>5. QED BY <2>3, <2>4
<1>8. Len(s) \in S
  <2> HIDE DEF S
  <2>1. QED BY <1>1, <1>6, <1>7, NatInd
<1>9. Selects(s, places, Len(s), f[Len(s)])
  BY <1>1, <1>8
<1>10. QED BY <1>3, <1>9

\* The elements of what is kept.
LEMMA KeptElements ==
    ASSUME NEW s, Listed(s), NEW places
    PROVE  /\ Listed(Kept(s, places))
           /\ \A x : x \in Range(Kept(s, places)) <=> \E k \in 1..Len(s) : k \in places /\ s[k] = x
<1> DEFINE t == Kept(s, places)
<1>1. Selects(s, places, Len(s), t)
  BY KeptSelects
<1> HIDE DEF t
<1>2. PICK e : Embeds(s, places, Len(s), t, e)
  BY <1>1 DEF Selects
<1>3. Listed(t)
  BY <1>1 DEF Selects
<1>4. \A x : x \in Range(t) <=> \E i \in 1..Len(t) : t[i] = x
  BY <1>3, ListPlaces
<1>5. ASSUME NEW x, x \in Range(t) PROVE \E k \in 1..Len(s) : k \in places /\ s[k] = x
  <2>1. PICK i \in 1..Len(t) : t[i] = x
    BY <1>4, <1>5
  <2>2. e[i] \in 1..Len(s) /\ e[i] \in places /\ s[e[i]] = x
    BY <1>2, <2>1 DEF Embeds
  <2>3. QED BY <2>2
<1>6. ASSUME NEW k \in 1..Len(s), k \in places PROVE s[k] \in Range(t)
  <2>1. PICK i \in 1..Len(t) : e[i] = k
    BY <1>2, <1>6 DEF Embeds
  <2>2. t[i] = s[k]
    BY <1>2, <2>1 DEF Embeds
  <2>3. QED BY <1>4, <2>2
<1>7. QED BY <1>3, <1>5, <1>6 DEF t

\* The order of what is kept.
LEMMA KeptOrder ==
    ASSUME NEW s, Listed(s), NEW places,
           NEW i \in DOMAIN Kept(s, places), NEW j \in DOMAIN Kept(s, places), i < j
    PROVE  \E k, l \in DOMAIN s :
               k < l /\ k \in places /\ l \in places
                 /\ Kept(s, places)[i] = s[k] /\ Kept(s, places)[j] = s[l]
<1> DEFINE t == Kept(s, places)
<1>1. Selects(s, places, Len(s), t)
  BY KeptSelects
<1> HIDE DEF t
<1>2. PICK e : Embeds(s, places, Len(s), t, e)
  BY <1>1 DEF Selects
<1>3. i \in 1..Len(t) /\ j \in 1..Len(t) /\ DOMAIN s = 1..Len(s)
  BY <1>1, ListPlaces DEF Selects, t
<1>4. e[i] < e[j] /\ e[i] \in DOMAIN s /\ e[j] \in DOMAIN s
  BY <1>2, <1>3 DEF Embeds
<1>5. e[i] \in places /\ e[j] \in places /\ t[i] = s[e[i]] /\ t[j] = s[e[j]]
  BY <1>2, <1>3 DEF Embeds
<1>6. QED BY <1>4, <1>5 DEF t

-----------------------------------------------------------------------------
(* Lists joined.                                                            *)

\* The empty list.
LEMMA EmptyList == Listed(<<>>) /\ Len(<<>>) = 0 /\ DOMAIN <<>> = {} /\ Range(<<>>) = {}
<1>1. <<>> \in Seq({}) /\ Len(<<>>) = 0
  BY EmptySeq
<1>2. Listed(<<>>)
  BY <1>1, SeqIsListed
<1>3. DOMAIN <<>> = 1..0
  BY <1>1, <1>2, ListPlaces
<1>4. DOMAIN <<>> = {}
  BY <1>3
<1>5. QED BY <1>1, <1>2, <1>4 DEF Range

\* A list of one.
LEMMA ListOfOne ==
    ASSUME NEW x
    PROVE  Listed(<<x>>) /\ Len(<<x>>) = 1 /\ DOMAIN <<x>> = {1} /\ <<x>>[1] = x /\ Range(<<x>>) = {x}
<1>1. <<x>> \in Seq({x}) /\ Len(<<x>>) = 1
  OBVIOUS
<1>2. Listed(<<x>>)
  BY <1>1, SeqIsListed
<1>3. DOMAIN <<x>> = 1..1
  BY <1>1, <1>2, ListPlaces
<1>4. DOMAIN <<x>> = {1} /\ <<x>>[1] = x
  BY <1>3
<1>5. Range(<<x>>) = {x}
  BY <1>4 DEF Range
<1>6. QED BY <1>1, <1>2, <1>4, <1>5

\* A function on 1..n is a list.
LEMMA FunctionIsListed ==
    ASSUME NEW n \in Nat, NEW s, s = [k \in 1..n |-> s[k]]
    PROVE  Listed(s) /\ Len(s) = n /\ DOMAIN s = 1..n
<1> DEFINE S == {s[k] : k \in 1..n}
<1>1. s \in [1..n -> S]
  OBVIOUS
<1> HIDE DEF S
<1>2. s \in Seq(S)
  BY <1>1, IsASeq
<1>3. Listed(s)
  BY <1>2, SeqIsListed
<1>4. DOMAIN s = 1..n
  OBVIOUS
<1>5. Len(s) = n
  <2>1. Len(s) \in Nat /\ DOMAIN s = 1..Len(s)
    BY <1>3, ListPlaces
  <2>2. QED BY <1>4, <2>1
<1>6. QED BY <1>3, <1>4, <1>5

\* Two lists, one after the other.
LEMMA JoinedLists ==
    ASSUME NEW s, NEW t, Listed(s), Listed(t)
    PROVE  /\ Listed(s \o t)
           /\ Len(s \o t) = Len(s) + Len(t)
           /\ Len(s) \in Nat /\ Len(t) \in Nat
           /\ \A i \in 1..Len(s) : (s \o t)[i] = s[i]
           /\ \A i \in 1..Len(t) : (s \o t)[Len(s) + i] = t[i]
           /\ DOMAIN (s \o t) = 1..(Len(s) + Len(t))
<1> DEFINE S == Range(s) \cup Range(t)
<1>1. s \in Seq(S) /\ t \in Seq(S)
  <2>1. Range(s) \subseteq S /\ Range(t) \subseteq S
    OBVIOUS
  <2> HIDE DEF S
  <2>2. QED BY <2>1, SeqMonotonic DEF Listed
<1> HIDE DEF S
<1>2. /\ s \o t \in Seq(S)
      /\ Len(s \o t) = Len(s) + Len(t)
      /\ \A i \in 1 .. Len(s) + Len(t) : (s \o t)[i] = IF i <= Len(s) THEN s[i] ELSE t[i - Len(s)]
  BY <1>1, ConcatProperties
<1>3. Len(s) \in Nat /\ Len(t) \in Nat
  BY ListPlaces
<1>4. Listed(s \o t)
  BY <1>2, SeqIsListed
<1>5. \A i \in 1..Len(s) : (s \o t)[i] = s[i]
  BY <1>2, <1>3
<1>6. \A i \in 1..Len(t) : (s \o t)[Len(s) + i] = t[i]
  <2> SUFFICES ASSUME NEW i \in 1..Len(t) PROVE (s \o t)[Len(s) + i] = t[i]
    OBVIOUS
  <2>1. Len(s) + i \in 1..(Len(s) + Len(t)) /\ ~(Len(s) + i <= Len(s)) /\ (Len(s) + i) - Len(s) = i
    BY <1>3
  <2>2. QED BY <1>2, <2>1
<1>7. DOMAIN (s \o t) = 1..(Len(s) + Len(t))
  BY <1>2, <1>4, ListPlaces
<1>8. /\ Listed(s \o t) /\ Len(s \o t) = Len(s) + Len(t)
  BY <1>2, <1>4
<1>9. QED BY <1>8, <1>3, <1>5, <1>6, <1>7

\* What stands in two lists, one after the other.
LEMMA JoinedRange ==
    ASSUME NEW s, NEW t, Listed(s), Listed(t)
    PROVE  Range(s \o t) = Range(s) \cup Range(t)
<1> DEFINE S == Range(s) \cup Range(t)
<1>1. s \in Seq(S) /\ t \in Seq(S)
  <2>1. Range(s) \subseteq S /\ Range(t) \subseteq S
    OBVIOUS
  <2> HIDE DEF S
  <2>2. QED BY <2>1, SeqMonotonic DEF Listed
<1> HIDE DEF S
<1>2. QED BY <1>1, RangeConcatenation

\* Joining is associative.
LEMMA JoinedTwice ==
    ASSUME NEW s, NEW t, NEW u, Listed(s), Listed(t), Listed(u)
    PROVE  (s \o t) \o u = s \o (t \o u)
<1> DEFINE S == Range(s) \cup Range(t) \cup Range(u)
<1>1. s \in Seq(S) /\ t \in Seq(S) /\ u \in Seq(S)
  <2>1. Range(s) \subseteq S /\ Range(t) \subseteq S /\ Range(u) \subseteq S
    OBVIOUS
  <2> HIDE DEF S
  <2>2. QED BY <2>1, SeqMonotonic DEF Listed
<1> HIDE DEF S
<1>2. QED BY <1>1, ConcatAssociative

\* Joining nothing changes nothing.
LEMMA JoinedWithNone ==
    ASSUME NEW s, Listed(s)
    PROVE  s \o <<>> = s /\ <<>> \o s = s
BY ConcatEmptySeq DEF Listed

-----------------------------------------------------------------------------
(* Lists of lists.                                                          *)

ListOfLists(ss) == Listed(ss) /\ \A b \in 1..Len(ss) : Listed(ss[b])

\* Where each list begins in all of them joined.
Offsets(ss, off) ==
    /\ off \in [0..Len(ss) -> Nat]
    /\ off[0] = 0
    /\ \A b \in 1..Len(ss) : off[b] = off[b - 1] + Len(ss[b])

OffsetsTo(ss, off, n) ==
    /\ off \in [0..n -> Nat]
    /\ off[0] = 0
    /\ \A b \in 1..n : off[b] = off[b - 1] + Len(ss[b])

\* The beginnings can be counted: induction on the number of lists.
LEMMA OffsetsExist ==
    ASSUME NEW ss, ListOfLists(ss)
    PROVE  \E off : Offsets(ss, off)
<1> DEFINE S == {n \in Nat : n <= Len(ss) => \E off : OffsetsTo(ss, off, n)}
<1>0. Len(ss) \in Nat /\ \A b \in 1..Len(ss) : Len(ss[b]) \in Nat
  BY ListPlaces DEF ListOfLists
<1>1. 0 \in S
  <2>1. OffsetsTo(ss, [k \in 0..0 |-> 0], 0)
    BY DEF OffsetsTo
  <2>2. QED BY <2>1
<1>2. ASSUME NEW n \in Nat, n \in S PROVE n + 1 \in S
  <2>1. SUFFICES ASSUME n + 1 <= Len(ss) PROVE \E off : OffsetsTo(ss, off, n + 1)
    OBVIOUS
  <2>2. PICK off : OffsetsTo(ss, off, n)
    BY <1>0, <1>2, <2>1
  <2>3. n + 1 \in 1..Len(ss) /\ Len(ss[n + 1]) \in Nat
    BY <1>0, <2>1
  <2> DEFINE g == [k \in 0..(n + 1) |-> IF k = n + 1 THEN off[n] + Len(ss[n + 1]) ELSE off[k]]
  <2>4. off[n] \in Nat /\ \A k \in 0..n : off[k] \in Nat
    BY <2>2 DEF OffsetsTo
  <2>5. g \in [0..(n + 1) -> Nat]
    BY <2>3, <2>4
  <2>6. g[0] = 0
    <3>1. 0 \in 0..(n + 1) /\ 0 # n + 1
      OBVIOUS
    <3>2. QED BY <2>2, <3>1 DEF OffsetsTo
  <2>7. ASSUME NEW b \in 1..(n + 1) PROVE g[b] = g[b - 1] + Len(ss[b])
    <3>1. b - 1 \in 0..(n + 1) /\ b - 1 # n + 1 /\ g[b - 1] = off[b - 1] /\ b \in 0..(n + 1)
      OBVIOUS
    <3>2. CASE b = n + 1
      <4>1. g[b] = off[n] + Len(ss[n + 1]) /\ b - 1 = n
        BY <3>2
      <4>2. QED BY <3>1, <3>2, <4>1
    <3>3. CASE b # n + 1
      <4>1. b \in 1..n /\ g[b] = off[b]
        BY <3>3
      <4>2. off[b] = off[b - 1] + Len(ss[b])
        BY <4>1, <2>2 DEF OffsetsTo
      <4>3. QED BY <3>1, <4>1, <4>2
    <3>4. QED BY <3>2, <3>3
  <2> HIDE DEF g
  <2>8. OffsetsTo(ss, g, n + 1)
    BY <2>5, <2>6, <2>7 DEF OffsetsTo
  <2>9. QED BY <2>8
<1>3. Len(ss) \in S
  <2> HIDE DEF S
  <2>1. QED BY <1>0, <1>1, <1>2, NatInd
<1>4. PICK off : OffsetsTo(ss, off, Len(ss))
  BY <1>0, <1>3
<1>5. Offsets(ss, off)
  BY <1>4 DEF Offsets, OffsetsTo
<1>6. QED BY <1>5

\* A list that begins later begins no earlier.
LEMMA OffsetsGrow ==
    ASSUME NEW ss, ListOfLists(ss), NEW off, Offsets(ss, off)
    PROVE  \A c \in 0..Len(ss) : \A b \in 0..c : off[b] <= off[c]
<1> DEFINE S == {n \in Nat : n <= Len(ss) => \A b \in 0..n : off[b] <= off[n]}
<1>0. /\ Len(ss) \in Nat /\ \A b \in 1..Len(ss) : Len(ss[b]) \in Nat
      /\ \A b \in 0..Len(ss) : off[b] \in Nat
  BY ListPlaces DEF ListOfLists, Offsets
<1>1. 0 \in S
  <2>1. ASSUME 0 <= Len(ss), NEW b \in 0..0 PROVE off[b] <= off[0]
    <3>1. b = 0 /\ off[0] \in Nat
      BY <1>0
    <3>2. QED BY <3>1
  <2>2. QED BY <2>1
<1>2. ASSUME NEW n \in Nat, n \in S PROVE n + 1 \in S
  <2>1. SUFFICES ASSUME n + 1 <= Len(ss), NEW b \in 0..(n + 1) PROVE off[b] <= off[n + 1]
    OBVIOUS
  <2>2. \A k \in 0..n : off[k] <= off[n]
    BY <1>0, <1>2, <2>1
  <2>3. n + 1 \in 1..Len(ss) /\ (n + 1) - 1 = n /\ n \in 0..Len(ss) /\ n + 1 \in 0..Len(ss)
    BY <1>0, <2>1
  <2>4. off[n + 1] = off[n] + Len(ss[n + 1])
    BY <2>3 DEF Offsets
  <2>5. off[n] <= off[n + 1] /\ off[n + 1] <= off[n + 1]
    BY <1>0, <2>3, <2>4
  <2>6. CASE b = n + 1
    BY <2>5, <2>6
  <2>7. CASE b # n + 1
    <3>1. b \in 0..n /\ b \in 0..Len(ss)
      BY <2>7, <2>1, <1>0
    <3>2. off[b] <= off[n] /\ off[b] \in Nat /\ off[n] \in Nat /\ off[n + 1] \in Nat
      BY <2>2, <2>3, <3>1, <1>0
    <3>3. QED BY <2>5, <3>2
  <2>8. QED BY <2>6, <2>7
<1>3. \A n \in Nat : n \in S
  <2> HIDE DEF S
  <2>1. QED BY <1>1, <1>2, NatInd
<1>4. QED BY <1>0, <1>3

\* Every place of the lists joined is a place of one of them.
LEMMA OffsetsCover ==
    ASSUME NEW ss, ListOfLists(ss), NEW off, Offsets(ss, off)
    PROVE  \A k \in 1..off[Len(ss)] :
               \E b \in 1..Len(ss) : \E a \in 1..Len(ss[b]) : k = off[b - 1] + a
<1> DEFINE S == {n \in Nat : n <= Len(ss) => \A k \in 1..off[n] :
                    \E b \in 1..n : \E a \in 1..Len(ss[b]) : k = off[b - 1] + a}
<1>0. /\ Len(ss) \in Nat /\ \A b \in 1..Len(ss) : Len(ss[b]) \in Nat
      /\ \A b \in 0..Len(ss) : off[b] \in Nat
  BY ListPlaces DEF ListOfLists, Offsets
<1>1. 0 \in S
  BY DEF Offsets
<1>2. ASSUME NEW n \in Nat, n \in S PROVE n + 1 \in S
  <2>1. SUFFICES ASSUME n + 1 <= Len(ss), NEW k \in 1..off[n + 1]
                 PROVE  \E b \in 1..(n + 1) : \E a \in 1..Len(ss[b]) : k = off[b - 1] + a
    OBVIOUS
  <2>2. n + 1 \in 1..Len(ss) /\ (n + 1) - 1 = n /\ n \in 0..Len(ss) /\ n + 1 \in 0..Len(ss)
    BY <1>0, <2>1
  <2>3. off[n + 1] = off[n] + Len(ss[n + 1]) /\ off[n] \in Nat /\ Len(ss[n + 1]) \in Nat
    BY <1>0, <2>2 DEF Offsets
  <2>4. CASE k <= off[n]
    <3>1. k \in 1..off[n]
      BY <2>3, <2>4
    <3>0. \A i \in 1..off[n] : \E b \in 1..n : \E a \in 1..Len(ss[b]) : i = off[b - 1] + a
      <4>1. n <= Len(ss)
        BY <1>0, <2>1
      <4>2. QED BY <1>2, <4>1
    <3> HIDE DEF S
    <3>2. PICK b \in 1..n : \E a \in 1..Len(ss[b]) : k = off[b - 1] + a
      BY <3>0, <3>1
    <3>3. b \in 1..(n + 1)
      OBVIOUS
    <3>4. QED BY <3>2, <3>3, SMTT(20)
  <2>5. CASE ~(k <= off[n])
    <3>1. k - off[n] \in 1..Len(ss[n + 1]) /\ k = off[n] + (k - off[n])
      BY <2>3, <2>5
    <3>2. n + 1 \in 1..(n + 1)
      OBVIOUS
    <3> DEFINE a == k - off[n]
    <3>3. a \in 1..Len(ss[n + 1]) /\ k = off[(n + 1) - 1] + a
      BY <2>2, <3>1
    <3> HIDE DEF a, S
    <3>4. QED BY <3>2, <3>3
  <2>6. QED BY <2>4, <2>5
<1>3. \A n \in Nat : n \in S
  <2> HIDE DEF S
  <2>1. QED BY <1>1, <1>2, NatInd
<1>4. Len(ss) \in S
  <2> HIDE DEF S
  <2>1. QED BY <1>0, <1>3
<1>5. Len(ss) <= Len(ss)
  BY <1>0
<1>6. QED BY <1>4, <1>5

\* A place of a list lies before the list's end.
LEMMA PlaceBefore ==
    ASSUME NEW u \in Nat, NEW v \in Nat, NEW n \in Nat, v = u + n, NEW i \in 1..n,
           NEW w \in Nat, v <= w, NEW j \in Nat \ {0}
    PROVE  u + i < w + j /\ u + i <= w /\ 1 <= u + i /\ u + i \in Nat
OBVIOUS

\* The places of an earlier list come before those of a later one.
LEMMA OffsetsOrder ==
    ASSUME NEW ss, ListOfLists(ss), NEW off, Offsets(ss, off),
           NEW b \in 1..Len(ss), NEW c \in 1..Len(ss),
           NEW i \in 1..Len(ss[b]), NEW j \in 1..Len(ss[c])
    PROVE  /\ b < c => off[b - 1] + i < off[c - 1] + j
           /\ off[b - 1] + i \in 1..off[Len(ss)]
           /\ off[b - 1] + i = off[c - 1] + j => b = c /\ i = j
<1>0. /\ Len(ss) \in Nat /\ Len(ss[b]) \in Nat /\ Len(ss[c]) \in Nat
      /\ \A x \in 0..Len(ss) : off[x] \in Nat
  BY ListPlaces DEF ListOfLists, Offsets
<1>1. /\ off[b] = off[b - 1] + Len(ss[b]) /\ off[c] = off[c - 1] + Len(ss[c])
  BY DEF Offsets
<1>2. b - 1 \in 0..Len(ss) /\ c - 1 \in 0..Len(ss) /\ b \in 0..Len(ss) /\ c \in 0..Len(ss)
      /\ Len(ss) \in 0..Len(ss)
  BY <1>0
<1>3. \A x \in 0..Len(ss) : \A y \in 0..x : off[y] <= off[x]
  BY OffsetsGrow
<1>4. /\ off[b] \in Nat /\ off[c] \in Nat /\ off[b - 1] \in Nat /\ off[c - 1] \in Nat
      /\ off[Len(ss)] \in Nat
  BY <1>0, <1>2
<1>5. b < c => off[b - 1] + i < off[c - 1] + j
  <2>1. SUFFICES ASSUME b < c PROVE off[b - 1] + i < off[c - 1] + j
    OBVIOUS
  <2>2. b \in 0..(c - 1)
    BY <2>1
  <2>3. off[b] <= off[c - 1]
    BY <1>2, <1>3, <2>2
  <2>4. j \in Nat \ {0}
    BY <1>0
  <2>5. QED BY <1>0, <1>1, <1>4, <2>3, <2>4, PlaceBefore
<1>6. c < b => off[c - 1] + j < off[b - 1] + i
  <2>1. SUFFICES ASSUME c < b PROVE off[c - 1] + j < off[b - 1] + i
    OBVIOUS
  <2>2. c \in 0..(b - 1)
    BY <2>1
  <2>3. off[c] <= off[b - 1]
    BY <1>2, <1>3, <2>2
  <2>4. i \in Nat \ {0}
    BY <1>0
  <2>5. QED BY <1>0, <1>1, <1>4, <2>3, <2>4, PlaceBefore
<1>7. off[b - 1] + i \in 1..off[Len(ss)]
  <2>1. b \in 0..Len(ss)
    BY <1>2
  <2>2. off[b] <= off[Len(ss)]
    BY <1>2, <1>3, <2>1
  <2>3. off[b - 1] + i <= off[Len(ss)] /\ 1 <= off[b - 1] + i /\ off[b - 1] + i \in Nat
    <3>1. 1 \in Nat \ {0}
      OBVIOUS
    <3>2. QED BY <1>0, <1>1, <1>4, <2>2, <3>1, PlaceBefore
  <2>4. QED BY <2>3, <1>4
<1>8. off[b - 1] + i = off[c - 1] + j => b = c /\ i = j
  <2>1. SUFFICES ASSUME off[b - 1] + i = off[c - 1] + j PROVE b = c /\ i = j
    OBVIOUS
  <2>2. off[b - 1] + i \in Int /\ off[c - 1] + j \in Int
    <3>1. i \in Int /\ j \in Int
      OBVIOUS
    <3>2. \A x, y \in Int : x + y \in Int
      OBVIOUS
    <3>3. off[b - 1] \in Int /\ off[c - 1] \in Int
      BY <1>4
    <3>4. QED BY <3>1, <3>2, <3>3
  <2>3. ~(b < c) /\ ~(c < b)
    BY <1>5, <1>6, <2>1, <2>2
  <2>4. b = c
    BY <2>3
  <2>5. i = j
    BY <2>1, <2>4, <1>4, <1>0
  <2>6. QED BY <2>4, <2>5
<1>9. QED BY <1>5, <1>7, <1>8

\* Lists with the same elements at the same places are the same list.
LEMMA SameList ==
    ASSUME NEW s, NEW t, Listed(s), Listed(t), Len(s) = Len(t),
           \A k \in 1..Len(s) : s[k] = t[k]
    PROVE  s = t
<1> DEFINE S == Range(s) \cup Range(t)
<1>1. s \in Seq(S) /\ t \in Seq(S)
  <2>1. Range(s) \subseteq S /\ Range(t) \subseteq S
    OBVIOUS
  <2> HIDE DEF S
  <2>2. QED BY <2>1, SeqMonotonic DEF Listed
<1> HIDE DEF S
<1>2. QED BY <1>1, SeqEqual

\* The first i lists joined, for every i up to n.
Flattening(ss, f, n) == f = [i \in 1..n |-> IF i = 1 THEN ss[i] ELSE f[i - 1] \o ss[i]]

\* Every number of lists can be joined: induction on it.
LEMMA FlatteningExists ==
    ASSUME NEW ss
    PROVE  \A n \in Nat : \E f : Flattening(ss, f, n)
<1> DEFINE S == {n \in Nat : \E f : Flattening(ss, f, n)}
<1>1. 0 \in S
  <2> DEFINE g == [k \in 1..0 |-> <<>>]
  <2>1. ASSUME NEW k \in 1..0
        PROVE g[k] = IF k = 1 THEN ss[k] ELSE g[k - 1] \o ss[k]
    OBVIOUS
  <2>2. Flattening(ss, g, 0)
    BY <2>1 DEF Flattening
  <2>3. QED BY <2>2
<1>2. ASSUME NEW n \in Nat, n \in S PROVE n + 1 \in S
  <2>1. PICK f : Flattening(ss, f, n)
    BY <1>2
  <2> DEFINE x == IF n + 1 = 1 THEN ss[n + 1] ELSE f[n] \o ss[n + 1]
             g == [k \in 1..(n + 1) |-> IF k = n + 1 THEN x ELSE f[k]]
  <2> HIDE DEF x
  <2>2. ASSUME NEW k \in 1..(n + 1)
        PROVE g[k] = IF k = 1 THEN ss[k] ELSE g[k - 1] \o ss[k]
    <3>1. CASE k = n + 1
      <4>1. g[k] = x /\ (k # 1 => g[k - 1] = f[n] /\ k - 1 = n)
        BY <3>1
      <4>2. QED BY <3>1, <4>1 DEF x
    <3>2. CASE k # n + 1
      <4>1. k \in 1..n /\ (k # 1 => k - 1 \in 1..n)
        BY <3>2
      <4>2. f[k] = IF k = 1 THEN ss[k] ELSE f[k - 1] \o ss[k]
        BY <4>1, <2>1 DEF Flattening
      <4>3. g[k] = f[k] /\ (k # 1 => g[k - 1] = f[k - 1])
        BY <4>1
      <4>4. QED BY <4>2, <4>3
    <3>3. QED BY <3>1, <3>2
  <2>3. Flattening(ss, g, n + 1)
    <3>1. g = [k \in 1..(n + 1) |-> g[k]]
      OBVIOUS
    <3> HIDE DEF g
    <3>2. QED BY <2>2, <3>1 DEF Flattening
  <2>4. QED BY <2>3
<1>3. QED
  <2> HIDE DEF S
  <2>1. Nat \subseteq S BY <1>1, <1>2, NatInd
  <2>2. QED BY <2>1 DEF S

\* Joining no list gives the empty one; joining n lists gives the last flattening.
LEMMA FlattenByParts ==
    ASSUME NEW ss, Listed(ss)
    PROVE  /\ Len(ss) = 0 => FlattenSeq(ss) = <<>>
           /\ Len(ss) # 0 =>
                 \E f : Flattening(ss, f, Len(ss)) /\ FlattenSeq(ss) = f[Len(ss)]
<1>1. Len(ss) = 0 => FlattenSeq(ss) = <<>>
  <2>1. Len(ss) = 0 => ss = <<>>
    BY EmptySeq DEF Listed
  <2>2. QED BY <2>1 DEF FlattenSeq
<1>2. ASSUME Len(ss) # 0
      PROVE  \E f : Flattening(ss, f, Len(ss)) /\ FlattenSeq(ss) = f[Len(ss)]
  <2> DEFINE f == CHOOSE f : Flattening(ss, f, Len(ss))
  <2>1. Flattening(ss, f, Len(ss))
    BY ListPlaces, FlatteningExists
  <2>2. FlattenSeq(ss) = f[Len(ss)]
    BY <1>2 DEF FlattenSeq, Flattening
  <2>3. QED BY <2>1, <2>2
<1>3. QED BY <1>1, <1>2

\* The first n lists have been joined into t.
RunsTo(ss, off, n, t) ==
    /\ Listed(t) /\ Len(t) = off[n]
    /\ \A b \in 1..n : \A a \in 1..Len(ss[b]) : t[off[b - 1] + a] = ss[b][a]

\* One more list joined.
LEMMA RunsStep ==
    ASSUME NEW ss, ListOfLists(ss), NEW off, Offsets(ss, off), NEW n \in Nat, n + 1 <= Len(ss),
           NEW t, RunsTo(ss, off, n, t)
    PROVE  RunsTo(ss, off, n + 1, t \o ss[n + 1])
<1>0. Len(ss) \in Nat /\ \A b \in 1..Len(ss) : Len(ss[b]) \in Nat
  BY ListPlaces DEF ListOfLists
<1>1. n + 1 \in 1..Len(ss) /\ (n + 1) - 1 = n /\ n \in 0..Len(ss)
  BY <1>0
<1>2. Listed(ss[n + 1]) /\ Listed(t) /\ Len(t) = off[n]
  BY <1>1 DEF ListOfLists, RunsTo
<1>3. off[n + 1] = off[n] + Len(ss[n + 1])
  BY <1>1 DEF Offsets
<1> DEFINE u == t \o ss[n + 1]
<1>4. /\ Listed(u) /\ Len(u) = Len(t) + Len(ss[n + 1])
      /\ \A i \in 1..Len(t) : u[i] = t[i]
      /\ \A i \in 1..Len(ss[n + 1]) : u[Len(t) + i] = ss[n + 1][i]
  <2>1. Listed(ss[n + 1]) /\ Listed(t)
    BY <1>2
  <2>2. \A v : Listed(v) =>
           /\ Listed(t \o v) /\ Len(t \o v) = Len(t) + Len(v)
           /\ \A i \in 1..Len(t) : (t \o v)[i] = t[i]
           /\ \A i \in 1..Len(v) : (t \o v)[Len(t) + i] = v[i]
    BY <2>1, JoinedLists
  <2>3. QED BY <2>1, <2>2, Zenon
<1> HIDE DEF u
<1>5. ASSUME NEW b \in 1..(n + 1), NEW a \in 1..Len(ss[b]) PROVE u[off[b - 1] + a] = ss[b][a]
  <2>1. CASE b = n + 1
    <3>1. b - 1 = n /\ a \in 1..Len(ss[n + 1])
      BY <2>1
    <3>2. u[Len(t) + a] = ss[n + 1][a]
      BY <1>4, <3>1
    <3>3. QED BY <1>2, <2>1, <3>1, <3>2
  <2>2. CASE b # n + 1
    <3>1. b \in 1..n /\ b \in 0..n /\ b \in 1..Len(ss) /\ b - 1 \in 0..Len(ss) /\ b \in 0..Len(ss)
      BY <1>0, <2>2
    <3>2. t[off[b - 1] + a] = ss[b][a]
      BY <3>1 DEF RunsTo
    <3>3. off[b] <= off[n] /\ off[b] = off[b - 1] + Len(ss[b])
      BY <1>1, <3>1, OffsetsGrow DEF Offsets
    <3>4. off[b] \in Nat /\ off[n] \in Nat /\ off[b - 1] \in Nat /\ Len(ss[b]) \in Nat
      BY <1>0, <1>1, <3>1 DEF Offsets
    <3>5. off[b - 1] + a <= off[n] /\ 1 <= off[b - 1] + a /\ off[b - 1] + a \in Nat
      <4>1. 1 \in Nat \ {0}
        OBVIOUS
      <4>2. QED BY <3>3, <3>4, <4>1, PlaceBefore
    <3>6. off[b - 1] + a \in 1..Len(t)
      BY <1>2, <3>4, <3>5
    <3>7. QED BY <1>4, <3>2, <3>6
  <2>3. QED BY <2>1, <2>2
<1>6. RunsTo(ss, off, n + 1, u)
  BY <1>2, <1>3, <1>4, <1>5 DEF RunsTo
<1>7. QED BY <1>6 DEF u

\* Each list stands whole, at its own place, in all of them joined.
LEMMA FlattenRuns ==
    ASSUME NEW ss, ListOfLists(ss), NEW off, Offsets(ss, off)
    PROVE  /\ Listed(FlattenSeq(ss)) /\ Len(FlattenSeq(ss)) = off[Len(ss)]
           /\ \A b \in 1..Len(ss) : \A a \in 1..Len(ss[b]) :
                 FlattenSeq(ss)[off[b - 1] + a] = ss[b][a]
<1>0. Len(ss) \in Nat /\ Listed(ss)
  BY ListPlaces DEF ListOfLists
<1>1. RunsTo(ss, off, 0, <<>>)
  BY EmptyList DEF RunsTo, Offsets
<1>2. CASE Len(ss) = 0
  <2>1. FlattenSeq(ss) = <<>>
    BY <1>0, <1>2, FlattenByParts
  <2>2. QED BY <1>1, <1>2, <2>1 DEF RunsTo
<1>3. CASE Len(ss) # 0
  <2>1. PICK f : Flattening(ss, f, Len(ss)) /\ FlattenSeq(ss) = f[Len(ss)]
    BY <1>0, <1>3, FlattenByParts
  <2>2. \A i \in 1..Len(ss) : f[i] = IF i = 1 THEN ss[i] ELSE f[i - 1] \o ss[i]
    BY <2>1 DEF Flattening
  <2> DEFINE S == {n \in Nat : n + 1 <= Len(ss) => RunsTo(ss, off, n + 1, f[n + 1])}
  <2>3. 0 \in S
    <3>1. 1 \in 1..Len(ss) /\ 0 + 1 = 1 /\ 1 <= Len(ss)
      BY <1>0, <1>3
    <3>2. f[1] = ss[1] /\ Listed(ss[1])
      BY <2>2, <3>1 DEF ListOfLists
    <3>3. <<>> \o ss[1] = ss[1]
      BY <3>2, JoinedWithNone
    <3>4. RunsTo(ss, off, 0 + 1, <<>> \o ss[0 + 1])
      BY <1>1, <3>1, RunsStep
    <3>5. RunsTo(ss, off, 1, f[1])
      BY <3>1, <3>2, <3>3, <3>4
    <3>6. QED BY <3>1, <3>5
  <2>4. ASSUME NEW n \in Nat, n \in S PROVE n + 1 \in S
    <3>1. SUFFICES ASSUME (n + 1) + 1 <= Len(ss) PROVE RunsTo(ss, off, (n + 1) + 1, f[(n + 1) + 1])
      OBVIOUS
    <3>2. RunsTo(ss, off, n + 1, f[n + 1])
      BY <1>0, <2>4, <3>1
    <3> HIDE DEF S
    <3>3. (n + 1) + 1 \in 1..Len(ss) /\ (n + 1) + 1 # 1 /\ ((n + 1) + 1) - 1 = n + 1 /\ n + 1 \in Nat
      BY <1>0, <3>1
    <3>4. f[(n + 1) + 1] = f[n + 1] \o ss[(n + 1) + 1]
      BY <2>2, <3>3
    <3>5. RunsTo(ss, off, (n + 1) + 1, f[n + 1] \o ss[(n + 1) + 1])
      BY <3>1, <3>2, <3>3, RunsStep
    <3>6. QED BY <3>4, <3>5
  <2>5. Len(ss) - 1 \in S
    <3> HIDE DEF S
    <3>1. Nat \subseteq S
      BY <2>3, <2>4, NatInd
    <3>2. QED BY <1>0, <1>3, <3>1
  <2>6. (Len(ss) - 1) + 1 = Len(ss)
    BY <1>0
  <2>7. RunsTo(ss, off, Len(ss), f[Len(ss)])
    BY <1>0, <2>5, <2>6
  <2>8. QED BY <2>1, <2>7 DEF RunsTo
<1>4. QED BY <1>2, <1>3

\* One more list joined at the end.
LEMMA FlattenAppend ==
    ASSUME NEW ss, ListOfLists(ss), NEW x, Listed(x)
    PROVE  ListOfLists(Append(ss, x)) /\ FlattenSeq(Append(ss, x)) = FlattenSeq(ss) \o x
<1> DEFINE tt == Append(ss, x)
<1>0. Len(ss) \in Nat /\ Listed(ss)
  BY ListPlaces DEF ListOfLists
<1>1. /\ Listed(tt) /\ Len(tt) = Len(ss) + 1 /\ tt[Len(ss) + 1] = x
      /\ \A k \in 1..Len(ss) : tt[k] = ss[k]
  BY <1>0, AppendToList
<1> HIDE DEF tt
<1>2. ListOfLists(tt)
  <2>1. ASSUME NEW b \in 1..Len(tt) PROVE Listed(tt[b])
    <3>1. b = Len(ss) + 1 \/ b \in 1..Len(ss)
      BY <1>0, <1>1
    <3>2. QED BY <1>1, <3>1 DEF ListOfLists
  <2>2. QED BY <1>1, <2>1 DEF ListOfLists
<1>3. PICK off : Offsets(tt, off)
  BY <1>2, OffsetsExist
<1> DEFINE o == [b \in 0..Len(ss) |-> off[b]]
<1>4. \A b \in 0..Len(ss) : o[b] = off[b] /\ off[b] \in Nat /\ b \in 0..Len(tt)
  BY <1>0, <1>1, <1>3 DEF Offsets
<1>5. Offsets(ss, o)
  <2>1. o \in [0..Len(ss) -> Nat]
    BY <1>4
  <2> HIDE DEF o
  <2>2. o[0] = 0
    BY <1>0, <1>3, <1>4 DEF Offsets
  <2>3. ASSUME NEW b \in 1..Len(ss) PROVE o[b] = o[b - 1] + Len(ss[b])
    <3>1. b \in 1..Len(tt) /\ b \in 0..Len(ss) /\ b - 1 \in 0..Len(ss)
      BY <1>0, <1>1
    <3>2. off[b] = off[b - 1] + Len(tt[b])
      BY <1>3, <3>1 DEF Offsets
    <3>3. QED BY <1>1, <1>4, <3>1, <3>2
  <2>4. QED BY <2>1, <2>2, <2>3 DEF Offsets
<1> HIDE DEF o
<1>6. /\ Listed(FlattenSeq(ss)) /\ Len(FlattenSeq(ss)) = o[Len(ss)]
      /\ \A b \in 1..Len(ss) : \A a \in 1..Len(ss[b]) : FlattenSeq(ss)[o[b - 1] + a] = ss[b][a]
  BY <1>5, FlattenRuns
<1>7. RunsTo(tt, off, Len(ss), FlattenSeq(ss))
  <2>1. Len(ss) \in 0..Len(ss)
    BY <1>0
  <2>2. ASSUME NEW b \in 1..Len(ss), NEW a \in 1..Len(tt[b])
        PROVE FlattenSeq(ss)[off[b - 1] + a] = tt[b][a]
    <3>1. b - 1 \in 0..Len(ss) /\ tt[b] = ss[b]
      BY <1>0, <1>1
    <3>2. QED BY <1>4, <1>6, <3>1
  <2>3. QED BY <1>4, <1>6, <2>1, <2>2 DEF RunsTo
<1>8. RunsTo(tt, off, Len(tt), FlattenSeq(ss) \o x)
  <2>1. Len(ss) + 1 <= Len(tt)
    BY <1>0, <1>1
  <2>2. RunsTo(tt, off, Len(ss) + 1, FlattenSeq(ss) \o tt[Len(ss) + 1])
    BY <1>0, <1>2, <1>3, <1>7, <2>1, RunsStep
  <2>3. QED BY <1>1, <2>2
<1>9. /\ Listed(FlattenSeq(tt)) /\ Len(FlattenSeq(tt)) = off[Len(tt)]
      /\ \A b \in 1..Len(tt) : \A a \in 1..Len(tt[b]) : FlattenSeq(tt)[off[b - 1] + a] = tt[b][a]
  BY <1>2, <1>3, FlattenRuns
<1>10. ASSUME NEW k \in 1..off[Len(tt)] PROVE FlattenSeq(tt)[k] = (FlattenSeq(ss) \o x)[k]
  <2>1. \A i \in 1..off[Len(tt)] : \E b \in 1..Len(tt) : \E a \in 1..Len(tt[b]) : i = off[b - 1] + a
    BY <1>2, <1>3, OffsetsCover
  <2>2. PICK b \in 1..Len(tt) : \E a \in 1..Len(tt[b]) : k = off[b - 1] + a
    BY <2>1
  <2>3. PICK a \in 1..Len(tt[b]) : k = off[b - 1] + a
    BY <2>2
  <2>4. QED BY <1>8, <1>9, <2>3 DEF RunsTo
<1>11. FlattenSeq(tt) = FlattenSeq(ss) \o x
  BY <1>8, <1>9, <1>10, SameList DEF RunsTo
<1>12. QED BY <1>2, <1>11 DEF tt

-----------------------------------------------------------------------------
(* The greatest and the least of some places.                               *)

\* Places of a list have a last one and a first one.
LEMMA MaxOfPlaces ==
    ASSUME NEW n \in Nat, NEW T, T \subseteq 1..n, T # {}
    PROVE  Max(T) \in T /\ \A y \in T : y <= Max(T)
<1> DEFINE U == {k \in 0..n : n - k \in T}
<1>1. U # {}
  <2>1. PICK x : x \in T
    OBVIOUS
  <2>2. n - x \in 0..n /\ n - (n - x) = x
    BY <2>1
  <2>3. QED BY <2>1, <2>2
<1>2. U \subseteq Nat
  OBVIOUS
<1>3. PICK u \in U : \A y \in U : u <= y
  <2> HIDE DEF U
  <2>1. QED BY <1>1, <1>2, LeastNat
<1>4. n - u \in T /\ \A y \in T : n - u >= y
  <2>1. ASSUME NEW y \in T PROVE n - u >= y
    <3>1. n - y \in 0..n /\ n - (n - y) = y
      OBVIOUS
    <3>2. n - y \in U
      BY <3>1
    <3>3. u <= n - y
      BY <1>3, <3>2
    <3>4. QED BY <3>3
  <2>2. QED BY <2>1
<1>5. Max(T) \in T /\ \A y \in T : Max(T) >= y
  BY <1>4 DEF Max
<1>6. QED BY <1>5

LEMMA MinOfPlaces ==
    ASSUME NEW T, T \subseteq Nat, T # {}
    PROVE  Min(T) \in T /\ \A y \in T : Min(T) <= y
<1>1. \E x \in T : \A y \in T : x <= y
  BY LeastNat
<1>2. QED BY <1>1 DEF Min

\* A number above all others of a set is its greatest.
LEMMA MaxIs ==
    ASSUME NEW T, T \subseteq Nat, NEW m \in T, \A y \in T : y <= m
    PROVE  Max(T) = m
<1>0. m \in Nat /\ \A y \in T : m >= y
  OBVIOUS
<1>1. Max(T) \in T /\ \A y \in T : Max(T) >= y
  BY <1>0 DEF Max
<1>2. Max(T) >= m /\ Max(T) <= m /\ Max(T) \in Nat
  BY <1>1
<1>3. QED BY <1>0, <1>2

-----------------------------------------------------------------------------
(* What a target shows after one more action.                               *)

Reaching(p, s, t) == {k \in DOMAIN s : Reaches(p, s[k], t)}

\* What a target would show if it were built in its whole's role.
RoleAfter(p, s, t) ==
    IF Reaching(p, s, t) = {} THEN InitialRoles(p)[Whole(t.visual)]
    ELSE s[Max(Reaching(p, s, t))].role

\* An action that reaches a target decides what it shows; any other leaves it.
LEMMA ShownNext ==
    ASSUME NEW p, NEW s, Listed(s), NEW a, NEW t
    PROVE  RoleAfter(p, s \o <<a>>, t) =
               IF Reaches(p, a, t) THEN a.role ELSE RoleAfter(p, s, t)
<1> DEFINE u == s \o <<a>>
<1>1. /\ Len(s) \in Nat /\ Listed(u)
      /\ DOMAIN s = 1..Len(s) /\ DOMAIN u = 1..(Len(s) + 1)
      /\ \A k \in 1..Len(s) : u[k] = s[k]
      /\ u[Len(s) + 1] = a
  <2>1. Listed(<<a>>) /\ Len(<<a>>) = 1 /\ <<a>>[1] = a
    BY ListOfOne
  <2>2. /\ Listed(u) /\ Len(s) \in Nat
        /\ \A i \in 1..Len(s) : u[i] = s[i]
        /\ \A i \in 1..Len(<<a>>) : u[Len(s) + i] = <<a>>[i]
        /\ DOMAIN u = 1..(Len(s) + Len(<<a>>))
    BY <2>1, JoinedLists
  <2>3. 1 \in 1..Len(<<a>>)
    BY <2>1
  <2>4. QED BY <2>1, <2>2, <2>3, ListPlaces
<1> HIDE DEF u
<1>2. CASE Reaches(p, a, t)
  <2>1. Len(s) + 1 \in Reaching(p, u, t)
    BY <1>1, <1>2 DEF Reaching
  <2>2. Reaching(p, u, t) \subseteq Nat /\ \A y \in Reaching(p, u, t) : y <= Len(s) + 1
    BY <1>1 DEF Reaching
  <2>3. Max(Reaching(p, u, t)) = Len(s) + 1
    BY <2>1, <2>2, MaxIs
  <2>4. RoleAfter(p, u, t) = u[Max(Reaching(p, u, t))].role
    BY <2>1 DEF RoleAfter, Reaching
  <2>5. QED BY <1>1, <1>2, <2>3, <2>4 DEF u
<1>3. CASE ~Reaches(p, a, t)
  <2>1. Reaching(p, u, t) = Reaching(p, s, t)
    <3>1. ASSUME NEW k PROVE k \in Reaching(p, u, t) <=> k \in Reaching(p, s, t)
      <4>1. k \in 1..(Len(s) + 1) <=> k \in 1..Len(s) \/ k = Len(s) + 1
        BY <1>1
      <4>2. QED BY <1>1, <1>3, <4>1 DEF Reaching
    <3>2. QED BY <3>1
  <2>2. CASE Reaching(p, s, t) = {}
    BY <1>3, <2>1, <2>2 DEF RoleAfter, Reaching, u
  <2>3. CASE Reaching(p, s, t) # {}
    <3>1. Reaching(p, s, t) \subseteq 1..Len(s)
      BY <1>1 DEF Reaching
    <3>2. Max(Reaching(p, s, t)) \in 1..Len(s)
      BY <1>1, <2>3, <3>1, MaxOfPlaces
    <3>3. u[Max(Reaching(p, s, t))] = s[Max(Reaching(p, s, t))]
      BY <1>1, <3>2
    <3>4. RoleAfter(p, s, t) = s[Max(Reaching(p, s, t))].role
      BY <2>3 DEF RoleAfter, Reaching
    <3>5. RoleAfter(p, u, t) = u[Max(Reaching(p, u, t))].role
      BY <2>1, <2>3 DEF RoleAfter, Reaching
    <3>6. QED BY <1>3, <2>1, <3>3, <3>4, <3>5 DEF u
  <2>4. QED BY <2>2, <2>3
<1>4. QED BY <1>2, <1>3

-----------------------------------------------------------------------------
(* What fits the books.                                                     *)

UnitStrategy(p) == p.strategy \in {"unit_substitution", "unit_rate"}

KnownRefs(p) == IF Declared(p) THEN Refs(p) \cup {Answer} ELSE Refs(p)

\* A target that may take a role, one that may come on screen by its name, and one
\* that a plan may name.
Colourable(p, t) == IsTarget(t) /\ t.visual \in KnownRefs(p)

Showable(p, t) == Colourable(p, t) /\ (UnitStrategy(p) => t.part # "target_label")

Nameable(p, t) ==
    IsTarget(t) /\ t.visual \in Refs(p) /\ (UnitStrategy(p) => t.part # "target_label")

\* The roles on the books are what the actions show, of the targets that have an entry
\* and of the ones that show what their whole shows.
RolesKept(p, roles, s) ==
    /\ \A t \in DOMAIN roles : IsTarget(t) /\ roles[t] = RoleAfter(p, s, t)
    /\ \A t : (Colourable(p, t) /\ t \notin DOMAIN roles /\ ~Deferred(p, t)) =>
           RoleAfter(p, s, t) = roles[Whole(t.visual)]
    /\ \A k \in DOMAIN s : s[k].kind = "set_role" =>
           /\ Colourable(p, s[k].targets[1])
           /\ s[k].targets[1] \in DOMAIN roles \/ ~Deferred(p, s[k].targets[1])
    /\ \A ref \in KnownRefs(p) : Whole(ref) \in DOMAIN roles

\* Beats have names of their own, and no list of targets asks for one twice.
Clean(p) ==
    /\ \A b, c \in DOMAIN p.beats : b # c => p.beats[b].id # p.beats[c].id
    /\ \A beat \in Range(p.beats) :
          /\ NamesOnce(p, beat.targets)
          /\ \A a \in Range(beat.custom) : a.kind = "reveal" => NamesOnce(p, a.targets)

\* No target of the k-th action comes on screen with one that the actions up to it show.
ShownOnceAt(p, s, j, k) ==
    \A h \in DOMAIN s[j].targets : \A i \in DOMAIN s[k].targets :
        (j < k \/ (j = k /\ h < i)) => ~ShownWith(p, s[j].targets[h], s[k].targets[i])

ShownOnce(p, s) ==
    \A j, k \in DOMAIN s :
        (s[j].kind = "reveal" /\ s[k].kind = "reveal") => ShownOnceAt(p, s, j, k)

\* What the books have revealed is what the actions reveal, but for the names of the
\* target unit.
RevealsKept(p, revealed, s) ==
    /\ \A t \in revealed :
          /\ Showable(p, t)
          /\ \E k \in DOMAIN s : s[k].kind = "reveal" /\ t \in Range(s[k].targets)
    /\ \A k \in DOMAIN s : s[k].kind = "reveal" =>
          /\ Listed(s[k].targets)
          /\ \A t \in Range(s[k].targets) : t \in revealed \/ (t = Labels(p) /\ UnitStrategy(p))
    /\ Clean(p) => ShownOnce(p, s)

\* The books are a record of the right fields.
Booked(b) ==
    b = [roles |-> b.roles, saved |-> b.saved, revealed |-> b.revealed,
         relations |-> b.relations, actions |-> b.actions]

\* The books fit the actions of the earlier beats and of the one at hand.
Agree(p, h, b) ==
    /\ Booked(b) /\ Listed(h) /\ Listed(b.actions)
    /\ RolesKept(p, b.roles, h \o b.actions)
    /\ RevealsKept(p, b.revealed, h \o b.actions)

-----------------------------------------------------------------------------
(* The moves that a lesson stages once.                                     *)

Classes == {"hop", "distance", "turn", "label", "outline", "posed", "work", "value"}

InClass(p, c, a) ==
    \/ c = "hop" /\ a.kind = "signed_hop_arrow"
    \/ c = "distance" /\ a.kind = "distance_annotation"
    \/ c = "turn" /\ a.kind = "rotate"
    \/ /\ c = "label" /\ UnitStrategy(p) /\ a.kind = "reveal"
       /\ \E t \in Range(a.targets) : t.part = "target_label"
    \/ c = "outline" /\ TraceBeat(p) # None /\ a.kind = "trace" /\ a.path = OwnPath(p)
    \/ /\ c = "posed" /\ Answer \notin Refs(p) /\ a.kind = "reveal"
       /\ \E t \in Range(a.targets) : t.visual = Answer
    \/ c = "work" /\ a = ShowStage("work")
    \/ c = "value" /\ a = ShowStage("value")

PosedMode(p) == IF p.strategy = "short_stagger" THEN "stagger" ELSE "together"

Moves(p, c) ==
    IF c = "hop" THEN Hops(p)
    ELSE IF c = "distance" THEN Distances(p)
    ELSE IF c = "turn" THEN Turns(p)
    ELSE IF c = "label" THEN <<Reveal(<<Labels(p)>>, "stagger")>>
    ELSE IF c = "outline" THEN <<Trace(OwnPath(p))>>
    ELSE IF c = "posed" THEN <<Reveal(<<Whole(Answer)>>, PosedMode(p))>>
    ELSE IF c = "work" THEN <<ShowStage("work")>> ELSE <<ShowStage("value")>>

\* The actions of a class are these moves, one right after another.
Run(p, c, x, moves, i) ==
    /\ i + Len(moves) <= Len(x)
    /\ \A j \in DOMAIN moves : x[i + j] = moves[j]
    /\ \A k \in DOMAIN x : InClass(p, c, x[k]) => k \in (i + 1)..(i + Len(moves))

Staged(p, c, x, moves) == Listed(moves) /\ \E i \in 0..Len(x) : Run(p, c, x, moves, i)

\* There are no actions of a class.
Absent(p, c, x) == \A k \in DOMAIN x : ~InClass(p, c, x[k])

StagedOrAbsent(p, c, x, C) == IF c \in C THEN Staged(p, c, x, Moves(p, c)) ELSE Absent(p, c, x)

PlaysOut(p, x, C) == \A c \in Classes : StagedOrAbsent(p, c, x, C)

\* From one state of the books to a later one: the moves of the classes C are played.
Plays(p, b, d, C) ==
    /\ b.revealed \subseteq d.revealed
    /\ \E x : Listed(x) /\ d.actions = b.actions \o x /\ PlaysOut(p, x, C)

Goes(p, h, b, d, C) == Agree(p, h, d) /\ Plays(p, b, d, C)

-----------------------------------------------------------------------------
(* One list of actions after another.                                       *)

\* What holds at every place of two lists holds at every place of them joined.
LEMMA PlacesJoined ==
    ASSUME NEW s, NEW x, Listed(s), Listed(x)
    PROVE  /\ \A k \in DOMAIN s : k \in DOMAIN (s \o x) /\ (s \o x)[k] = s[k]
           /\ \A k \in DOMAIN x : Len(s) + k \in DOMAIN (s \o x) /\ (s \o x)[Len(s) + k] = x[k]
           /\ \A k \in DOMAIN (s \o x) :
                 k \in DOMAIN s \/ \E i \in DOMAIN x : k = Len(s) + i
           /\ DOMAIN s = 1..Len(s) /\ DOMAIN x = 1..Len(x)
           /\ DOMAIN (s \o x) = 1..(Len(s) + Len(x))
           /\ Len(s) \in Nat /\ Len(x) \in Nat /\ Len(s \o x) = Len(s) + Len(x)
           /\ Listed(s \o x)
<1>1. /\ Len(s) \in Nat /\ Len(x) \in Nat /\ DOMAIN s = 1..Len(s) /\ DOMAIN x = 1..Len(x)
  BY ListPlaces
<1>2. /\ DOMAIN (s \o x) = 1..(Len(s) + Len(x))
      /\ \A i \in 1..Len(s) : (s \o x)[i] = s[i]
      /\ \A i \in 1..Len(x) : (s \o x)[Len(s) + i] = x[i]
      /\ Listed(s \o x) /\ Len(s \o x) = Len(s) + Len(x)
  BY JoinedLists
<1>3. ASSUME NEW k \in DOMAIN (s \o x), k \notin DOMAIN s PROVE \E i \in DOMAIN x : k = Len(s) + i
  <2>1. k - Len(s) \in DOMAIN x /\ k = Len(s) + (k - Len(s))
    BY <1>1, <1>2, <1>3
  <2>2. QED BY <2>1
<1>4. \A k \in DOMAIN s : k \in DOMAIN (s \o x) /\ (s \o x)[k] = s[k]
  BY <1>1, <1>2
<1>5. \A k \in DOMAIN x : Len(s) + k \in DOMAIN (s \o x) /\ (s \o x)[Len(s) + k] = x[k]
  BY <1>1, <1>2
<1>6. QED BY <1>1, <1>2, <1>3, <1>4, <1>5

\* A place of two lists joined that is not one of the first is one of the second.
LEMMA SecondList ==
    ASSUME NEW s, NEW x, Listed(s), Listed(x), NEW k, k \in DOMAIN (s \o x), k \notin DOMAIN s
    PROVE  \E i \in DOMAIN x : k = Len(s) + i /\ (s \o x)[k] = x[i]
<1>1. /\ Len(s) \in Nat /\ Len(x) \in Nat /\ DOMAIN s = 1..Len(s) /\ DOMAIN x = 1..Len(x)
  BY ListPlaces
<1>2. DOMAIN (s \o x) = 1..(Len(s) + Len(x))
  BY JoinedLists
<1>3. \A i \in 1..Len(x) : (s \o x)[Len(s) + i] = x[i]
  BY JoinedLists
<1>4. k - Len(s) \in DOMAIN x /\ k = Len(s) + (k - Len(s))
  BY <1>1, <1>2
<1>5. (s \o x)[Len(s) + (k - Len(s))] = x[k - Len(s)]
  BY <1>1, <1>3, <1>4
<1>6. QED BY <1>4, <1>5

LEMMA AbsentJoined ==
    ASSUME NEW p, NEW c, NEW x, NEW y, Listed(x), Listed(y), Absent(p, c, x), Absent(p, c, y)
    PROVE  Absent(p, c, x \o y)
<1>1. ASSUME NEW k \in DOMAIN (x \o y) PROVE ~InClass(p, c, (x \o y)[k])
  <2>1. CASE k \in DOMAIN x
    BY <2>1, PlacesJoined DEF Absent
  <2>2. CASE k \notin DOMAIN x
    <3>1. PICK i \in DOMAIN y : k = Len(x) + i /\ (x \o y)[k] = y[i]
      BY <2>2, SecondList
    <3>2. (x \o y)[k] = y[i]
      BY <3>1
    <3>3. QED BY <3>2 DEF Absent
  <2>3. QED BY <2>1, <2>2
<1>2. QED BY <1>1 DEF Absent

LEMMA StagedThenAbsent ==
    ASSUME NEW p, NEW c, NEW x, NEW y, NEW moves, Listed(x), Listed(y),
           Staged(p, c, x, moves), Absent(p, c, y)
    PROVE  Staged(p, c, x \o y, moves)
<1>1. Listed(moves) /\ Len(moves) \in Nat /\ DOMAIN moves = 1..Len(moves)
  BY ListPlaces DEF Staged
<1>2. PICK i \in 0..Len(x) : Run(p, c, x, moves, i)
  BY DEF Staged
<1>3. /\ Len(x) \in Nat /\ Len(y) \in Nat /\ Len(x \o y) = Len(x) + Len(y)
      /\ DOMAIN x = 1..Len(x) /\ DOMAIN y = 1..Len(y)
  BY PlacesJoined
<1>4. i \in 0..Len(x \o y) /\ i + Len(moves) <= Len(x \o y)
  BY <1>1, <1>2, <1>3 DEF Run
<1>5. ASSUME NEW j \in DOMAIN moves PROVE (x \o y)[i + j] = moves[j]
  <2>1. i + j \in DOMAIN x
    BY <1>1, <1>2, <1>3 DEF Run
  <2>2. QED BY <1>2, <2>1, PlacesJoined DEF Run
<1>6. ASSUME NEW k \in DOMAIN (x \o y), InClass(p, c, (x \o y)[k])
      PROVE  k \in (i + 1)..(i + Len(moves))
  <2>1. CASE k \in DOMAIN x
    BY <1>2, <1>6, <2>1, PlacesJoined DEF Run
  <2>2. CASE k \notin DOMAIN x
    <3>1. PICK n \in DOMAIN y : k = Len(x) + n /\ (x \o y)[k] = y[n]
      BY <2>2, SecondList
    <3>2. (x \o y)[k] = y[n]
      BY <3>1
    <3>3. QED BY <1>6, <3>2 DEF Absent
  <2>3. QED BY <2>1, <2>2
<1>7. Run(p, c, x \o y, moves, i)
  BY <1>4, <1>5, <1>6 DEF Run
<1>8. QED BY <1>1, <1>4, <1>7 DEF Staged

LEMMA AbsentThenStaged ==
    ASSUME NEW p, NEW c, NEW x, NEW y, NEW moves, Listed(x), Listed(y),
           Absent(p, c, x), Staged(p, c, y, moves)
    PROVE  Staged(p, c, x \o y, moves)
<1>1. Listed(moves) /\ Len(moves) \in Nat /\ DOMAIN moves = 1..Len(moves)
  BY ListPlaces DEF Staged
<1>2. PICK i \in 0..Len(y) : Run(p, c, y, moves, i)
  BY DEF Staged
<1>3. /\ Len(x) \in Nat /\ Len(y) \in Nat /\ Len(x \o y) = Len(x) + Len(y)
      /\ DOMAIN x = 1..Len(x) /\ DOMAIN y = 1..Len(y)
  BY PlacesJoined
<1> DEFINE n == Len(x) + i
<1>4. n \in 0..Len(x \o y) /\ n + Len(moves) <= Len(x \o y)
  BY <1>1, <1>2, <1>3 DEF Run
<1>5. ASSUME NEW j \in DOMAIN moves PROVE (x \o y)[n + j] = moves[j]
  <2>1. i + j \in DOMAIN y /\ n + j = Len(x) + (i + j)
    BY <1>1, <1>2, <1>3 DEF Run
  <2>2. y[i + j] = moves[j]
    BY <1>2 DEF Run
  <2>3. (x \o y)[Len(x) + (i + j)] = y[i + j]
    BY <2>1, PlacesJoined
  <2>4. QED BY <2>1, <2>2, <2>3
<1>6. ASSUME NEW k \in DOMAIN (x \o y), InClass(p, c, (x \o y)[k])
      PROVE  k \in (n + 1)..(n + Len(moves))
  <2>1. CASE k \in DOMAIN x
    BY <1>6, <2>1, PlacesJoined DEF Absent
  <2>2. CASE k \notin DOMAIN x
    <3>1. PICK m \in DOMAIN y : k = Len(x) + m /\ (x \o y)[k] = y[m]
      BY <2>2, SecondList
    <3>2. (x \o y)[k] = y[m]
      BY <3>1
    <3>3. m \in (i + 1)..(i + Len(moves))
      BY <1>2, <1>6, <3>2 DEF Run
    <3>4. QED BY <1>1, <1>3, <3>1, <3>3
  <2>3. QED BY <2>1, <2>2
<1> HIDE DEF n
<1>7. Run(p, c, x \o y, moves, n)
  BY <1>4, <1>5, <1>6 DEF Run
<1>8. QED BY <1>1, <1>4, <1>7 DEF Staged

\* Different classes play out in different lists: all of them in the lists joined.
LEMMA PlaysOutJoined ==
    ASSUME NEW p, NEW x, NEW y, Listed(x), Listed(y), NEW C, NEW D, C \cap D = {},
           PlaysOut(p, x, C), PlaysOut(p, y, D)
    PROVE  PlaysOut(p, x \o y, C \cup D)
<1>1. ASSUME NEW c \in Classes PROVE StagedOrAbsent(p, c, x \o y, C \cup D)
  <2>1. StagedOrAbsent(p, c, x, C) /\ StagedOrAbsent(p, c, y, D)
    BY DEF PlaysOut
  <2>2. CASE c \in C
    <3>1. Staged(p, c, x, Moves(p, c)) /\ Absent(p, c, y)
      BY <2>1, <2>2 DEF StagedOrAbsent
    <3>2. Staged(p, c, x \o y, Moves(p, c))
      BY <3>1, StagedThenAbsent
    <3>3. QED BY <2>2, <3>2 DEF StagedOrAbsent
  <2>3. CASE c \in D
    <3>1. Absent(p, c, x) /\ Staged(p, c, y, Moves(p, c))
      BY <2>1, <2>3 DEF StagedOrAbsent
    <3>2. Staged(p, c, x \o y, Moves(p, c))
      BY <3>1, AbsentThenStaged
    <3>3. QED BY <2>3, <3>2 DEF StagedOrAbsent
  <2>4. CASE c \notin C \cup D
    <3>1. Absent(p, c, x) /\ Absent(p, c, y)
      BY <2>1, <2>4 DEF StagedOrAbsent
    <3>2. Absent(p, c, x \o y)
      BY <3>1, AbsentJoined
    <3>3. QED BY <2>4, <3>2 DEF StagedOrAbsent
  <2>5. QED BY <2>2, <2>3, <2>4
<1>2. QED BY <1>1 DEF PlaysOut

\* Nothing plays out in no actions.
LEMMA PlaysOutNothing ==
    ASSUME NEW p
    PROVE  PlaysOut(p, <<>>, {})
BY EmptyList DEF PlaysOut, StagedOrAbsent, Absent

\* A class with no moves plays out where it is absent.
LEMMA NoMovesPlayOut ==
    ASSUME NEW p, NEW x, Listed(x), NEW C, PlaysOut(p, x, C), NEW D,
           \A c \in D : Moves(p, c) = <<>>
    PROVE  PlaysOut(p, x, C \cup D)
<1>1. ASSUME NEW c \in Classes PROVE StagedOrAbsent(p, c, x, C \cup D)
  <2>1. StagedOrAbsent(p, c, x, C)
    BY DEF PlaysOut
  <2>2. CASE c \in C
    BY <2>1, <2>2 DEF StagedOrAbsent
  <2>3. CASE c \notin C /\ c \in D
    <3>1. Absent(p, c, x) /\ Moves(p, c) = <<>>
      BY <2>1, <2>3 DEF StagedOrAbsent
    <3>2. Run(p, c, x, <<>>, 0)
      <4>1. Len(x) \in Nat
        BY ListPlaces
      <4>2. QED BY <3>1, <4>1, EmptyList DEF Run, Absent
    <3>3. 0 \in 0..Len(x)
      BY ListPlaces
    <3>4. QED BY <2>3, <3>1, <3>2, <3>3, EmptyList DEF StagedOrAbsent, Staged
  <2>4. CASE c \notin C /\ c \notin D
    BY <2>1, <2>4 DEF StagedOrAbsent
  <2>5. QED BY <2>2, <2>3, <2>4
<1>2. QED BY <1>1 DEF PlaysOut

\* A list of moves is staged by itself.
LEMMA StagedAlone ==
    ASSUME NEW p, NEW c, NEW x, Listed(x)
    PROVE  Staged(p, c, x, x)
<1>1. Len(x) \in Nat /\ DOMAIN x = 1..Len(x)
  BY ListPlaces
<1>2. Run(p, c, x, x, 0)
  BY <1>1 DEF Run
<1>3. 0 \in 0..Len(x)
  BY <1>1
<1>4. QED BY <1>2, <1>3 DEF Staged

-----------------------------------------------------------------------------
(* One step after another.                                                  *)

\* What writing a field of the books does.
LEMMA RolesWritten ==
    ASSUME NEW b, Booked(b), NEW x, NEW d, d = [b EXCEPT !.roles = x]
    PROVE  /\ Booked(d) /\ d.roles = x
           /\ d.saved = b.saved /\ d.revealed = b.revealed /\ d.relations = b.relations /\ d.actions = b.actions
<1>1. PICK ro, sa, re, rl, ac :
        b = [roles |-> ro, saved |-> sa, revealed |-> re,
            relations |-> rl, actions |-> ac]
  BY DEF Booked
<1>2. d = [roles |-> x, saved |-> sa, revealed |-> re,
            relations |-> rl, actions |-> ac]
  BY <1>1
<1>3. QED BY <1>1, <1>2 DEF Booked

LEMMA SavedWritten ==
    ASSUME NEW b, Booked(b), NEW x, NEW d, d = [b EXCEPT !.saved = x]
    PROVE  /\ Booked(d) /\ d.saved = x
           /\ d.roles = b.roles /\ d.revealed = b.revealed /\ d.relations = b.relations /\ d.actions = b.actions
<1>1. PICK ro, sa, re, rl, ac :
        b = [roles |-> ro, saved |-> sa, revealed |-> re,
            relations |-> rl, actions |-> ac]
  BY DEF Booked
<1>2. d = [roles |-> ro, saved |-> x, revealed |-> re,
            relations |-> rl, actions |-> ac]
  BY <1>1
<1>3. QED BY <1>1, <1>2 DEF Booked

LEMMA RevealedWritten ==
    ASSUME NEW b, Booked(b), NEW x, NEW d, d = [b EXCEPT !.revealed = x]
    PROVE  /\ Booked(d) /\ d.revealed = x
           /\ d.roles = b.roles /\ d.saved = b.saved /\ d.relations = b.relations /\ d.actions = b.actions
<1>1. PICK ro, sa, re, rl, ac :
        b = [roles |-> ro, saved |-> sa, revealed |-> re,
            relations |-> rl, actions |-> ac]
  BY DEF Booked
<1>2. d = [roles |-> ro, saved |-> sa, revealed |-> x,
            relations |-> rl, actions |-> ac]
  BY <1>1
<1>3. QED BY <1>1, <1>2 DEF Booked

LEMMA RelationsWritten ==
    ASSUME NEW b, Booked(b), NEW x, NEW d, d = [b EXCEPT !.relations = x]
    PROVE  /\ Booked(d) /\ d.relations = x
           /\ d.roles = b.roles /\ d.saved = b.saved /\ d.revealed = b.revealed /\ d.actions = b.actions
<1>1. PICK ro, sa, re, rl, ac :
        b = [roles |-> ro, saved |-> sa, revealed |-> re,
            relations |-> rl, actions |-> ac]
  BY DEF Booked
<1>2. d = [roles |-> ro, saved |-> sa, revealed |-> re,
            relations |-> x, actions |-> ac]
  BY <1>1
<1>3. QED BY <1>1, <1>2 DEF Booked

LEMMA ActionsWritten ==
    ASSUME NEW b, Booked(b), NEW x, NEW d, d = [b EXCEPT !.actions = x]
    PROVE  /\ Booked(d) /\ d.actions = x
           /\ d.roles = b.roles /\ d.saved = b.saved /\ d.revealed = b.revealed /\ d.relations = b.relations
<1>1. PICK ro, sa, re, rl, ac :
        b = [roles |-> ro, saved |-> sa, revealed |-> re,
            relations |-> rl, actions |-> ac]
  BY DEF Booked
<1>2. d = [roles |-> ro, saved |-> sa, revealed |-> re,
            relations |-> rl, actions |-> x]
  BY <1>1
<1>3. QED BY <1>1, <1>2 DEF Booked

\* Steps follow each other, when no class is played by both.
LEMMA GoesThen ==
    ASSUME NEW p, NEW h, NEW b, NEW d, NEW e, NEW C, NEW D, C \cap D = {},
           Agree(p, h, b), Goes(p, h, b, d, C), Goes(p, h, d, e, D)
    PROVE  Goes(p, h, b, e, C \cup D)
<1>1. PICK x : Listed(x) /\ d.actions = b.actions \o x /\ PlaysOut(p, x, C)
  BY DEF Goes, Plays
<1>2. PICK y : Listed(y) /\ e.actions = d.actions \o y /\ PlaysOut(p, y, D)
  BY DEF Goes, Plays
<1>3. Listed(b.actions)
  BY DEF Agree
<1>4. e.actions = b.actions \o (x \o y)
  <2> DEFINE c == b.actions
  <2>1. Listed(c) /\ e.actions = (c \o x) \o y
    BY <1>1, <1>2, <1>3
  <2> HIDE DEF c
  <2>2. (c \o x) \o y = c \o (x \o y)
    BY <1>1, <1>2, <2>1, JoinedTwice
  <2>3. e.actions = c \o (x \o y)
    BY <2>1, <2>2
  <2>4. QED BY <2>3 DEF c
<1>5. Listed(x \o y)
  BY <1>1, <1>2, JoinedLists
<1>6. PlaysOut(p, x \o y, C \cup D)
  BY <1>1, <1>2, PlaysOutJoined
<1>7. b.revealed \subseteq e.revealed
  BY DEF Goes, Plays
<1>8. Plays(p, b, e, C \cup D)
  BY <1>4, <1>5, <1>6, <1>7 DEF Plays
<1>9. QED BY <1>8 DEF Goes

\* A step that plays nothing follows any.
LEMMA GoesOn ==
    ASSUME NEW p, NEW h, NEW b, NEW d, NEW e, NEW C,
           Agree(p, h, b), Goes(p, h, b, d, C), Goes(p, h, d, e, {})
    PROVE  Goes(p, h, b, e, C)
<1>1. Goes(p, h, b, e, C \cup {})
  BY GoesThen
<1>2. QED BY <1>1

LEMMA GoesAgree ==
    ASSUME NEW p, NEW h, NEW b, NEW d, NEW C, Goes(p, h, b, d, C)
    PROVE  Agree(p, h, d)
BY DEF Goes

\* The books stay as they are, but for what is set aside and the callouts.
LEMMA GoesSame ==
    ASSUME NEW p, NEW h, NEW b, NEW d, Agree(p, h, b), Booked(d),
           d.roles = b.roles, d.revealed = b.revealed, d.actions = b.actions
    PROVE  Goes(p, h, b, d, {})
<1>1. Agree(p, h, d)
  BY DEF Agree
<1>2. Listed(<<>>) /\ d.actions = b.actions \o <<>>
  BY EmptyList, JoinedWithNone DEF Agree
<1>3. Plays(p, b, d, {})
  BY <1>2, PlaysOutNothing DEF Plays
<1>4. QED BY <1>1, <1>3 DEF Goes

LEMMA GoesNowhere ==
    ASSUME NEW p, NEW h, NEW b, Agree(p, h, b)
    PROVE  Goes(p, h, b, b, {})
BY GoesSame DEF Agree

\* A step is what it does to the roles, to what is revealed and to the actions.
LEMMA GoesBy ==
    ASSUME NEW p, NEW h, NEW b, NEW d, NEW C, NEW x, Agree(p, h, b), Booked(d), Listed(x),
           d.actions = b.actions \o x, b.revealed \subseteq d.revealed, PlaysOut(p, x, C),
           RolesKept(p, d.roles, (h \o b.actions) \o x),
           RevealsKept(p, d.revealed, (h \o b.actions) \o x)
    PROVE  Goes(p, h, b, d, C)
<1>1. Listed(h) /\ Listed(b.actions)
  BY DEF Agree
<1>2. (h \o b.actions) \o x = h \o d.actions
  <2> DEFINE c == b.actions
  <2>1. Listed(c)
    BY <1>1
  <2> HIDE DEF c
  <2>2. (h \o c) \o x = h \o (c \o x)
    BY <1>1, <2>1, JoinedTwice, SMTT(20)
  <2>3. QED BY <2>2 DEF c
<1>3. Listed(d.actions)
  BY <1>1, JoinedLists
<1>4. Agree(p, h, d)
  BY <1>1, <1>2, <1>3 DEF Agree
<1>5. Plays(p, b, d, C)
  BY DEF Plays
<1>6. QED BY <1>4, <1>5 DEF Goes

-----------------------------------------------------------------------------
(* Actions that change no role and reveal nothing.                          *)

LEMMA ShownUndisturbed ==
    ASSUME NEW p, NEW s, NEW x, Listed(s), Listed(x), \A k \in DOMAIN x : x[k].kind # "set_role",
           NEW t
    PROVE  RoleAfter(p, s \o x, t) = RoleAfter(p, s, t)
<1> DEFINE u == s \o x
<1>0. /\ Len(s) \in Nat /\ DOMAIN s = 1..Len(s)
      /\ \A k \in DOMAIN s : k \in DOMAIN u /\ u[k] = s[k]
  BY PlacesJoined
<1>1. ASSUME NEW k PROVE k \in Reaching(p, u, t) <=> k \in Reaching(p, s, t)
  <2>1. CASE k \in DOMAIN s
    BY <1>0, <2>1 DEF Reaching
  <2>2. CASE k \notin DOMAIN s
    <3>1. ASSUME k \in DOMAIN u PROVE ~Reaches(p, u[k], t)
      <4>1. PICK i \in DOMAIN x : k = Len(s) + i /\ u[k] = x[i]
        BY <2>2, <3>1, SecondList
      <4>2. QED BY <4>1 DEF Reaches
    <3>2. QED BY <2>2, <3>1 DEF Reaching
  <2>3. QED BY <2>1, <2>2
<1>2. Reaching(p, u, t) = Reaching(p, s, t)
  BY <1>1
<1> HIDE DEF u
<1>3. CASE Reaching(p, s, t) = {}
  BY <1>2, <1>3 DEF RoleAfter, Reaching, u
<1>4. CASE Reaching(p, s, t) # {}
  <2>1. Reaching(p, s, t) \subseteq 1..Len(s)
    BY <1>0 DEF Reaching
  <2>2. Max(Reaching(p, s, t)) \in DOMAIN s
    BY <1>0, <1>4, <2>1, MaxOfPlaces
  <2>3. u[Max(Reaching(p, s, t))] = s[Max(Reaching(p, s, t))]
    BY <1>0, <2>2
  <2>4. RoleAfter(p, s, t) = s[Max(Reaching(p, s, t))].role
    BY <1>4 DEF RoleAfter, Reaching
  <2>5. RoleAfter(p, u, t) = u[Max(Reaching(p, u, t))].role
    BY <1>2, <1>4 DEF RoleAfter, Reaching
  <2>6. QED BY <1>2, <2>3, <2>4, <2>5 DEF u
<1>5. QED BY <1>3, <1>4

LEMMA RolesUndisturbed ==
    ASSUME NEW p, NEW roles, NEW s, NEW x, Listed(s), Listed(x), RolesKept(p, roles, s),
           \A k \in DOMAIN x : x[k].kind # "set_role"
    PROVE  RolesKept(p, roles, s \o x)
<1>1. \A t : RoleAfter(p, s \o x, t) = RoleAfter(p, s, t)
  BY ShownUndisturbed
<1>2. ASSUME NEW k \in DOMAIN (s \o x), (s \o x)[k].kind = "set_role"
      PROVE  k \in DOMAIN s /\ (s \o x)[k] = s[k]
  <2>1. CASE k \in DOMAIN s
    BY <2>1, PlacesJoined
  <2>2. CASE k \notin DOMAIN s
    <3>1. PICK i \in DOMAIN x : (s \o x)[k] = x[i]
      BY <2>2, SecondList
    <3>2. QED BY <1>2, <3>1
  <2>3. QED BY <2>1, <2>2
<1>3. ASSUME NEW k \in DOMAIN (s \o x), (s \o x)[k].kind = "set_role"
      PROVE  /\ Colourable(p, (s \o x)[k].targets[1])
             /\ (s \o x)[k].targets[1] \in DOMAIN roles \/ ~Deferred(p, (s \o x)[k].targets[1])
  BY <1>2, <1>3 DEF RolesKept
<1>4. QED BY <1>1, <1>3 DEF RolesKept

LEMMA RevealsUndisturbed ==
    ASSUME NEW p, NEW revealed, NEW s, NEW x, Listed(s), Listed(x), RevealsKept(p, revealed, s),
           \A k \in DOMAIN x : x[k].kind # "reveal"
    PROVE  RevealsKept(p, revealed, s \o x)
<1> DEFINE u == s \o x
<1>0. \A k \in DOMAIN s : k \in DOMAIN u /\ u[k] = s[k]
  BY PlacesJoined
<1>1. ASSUME NEW k \in DOMAIN u, u[k].kind = "reveal" PROVE k \in DOMAIN s /\ u[k] = s[k]
  <2>1. CASE k \in DOMAIN s
    BY <1>0, <2>1
  <2>2. CASE k \notin DOMAIN s
    <3>1. PICK i \in DOMAIN x : u[k] = x[i]
      BY <2>2, SecondList
    <3>2. QED BY <1>1, <3>1
  <2>3. QED BY <2>1, <2>2
<1> HIDE DEF u
<1>2. ASSUME NEW t \in revealed
      PROVE  Showable(p, t) /\ \E k \in DOMAIN u : u[k].kind = "reveal" /\ t \in Range(u[k].targets)
  <2>1. PICK k \in DOMAIN s : s[k].kind = "reveal" /\ t \in Range(s[k].targets)
    BY DEF RevealsKept
  <2>2. QED BY <1>0, <2>1 DEF RevealsKept
<1>3. ASSUME NEW k \in DOMAIN u, u[k].kind = "reveal"
      PROVE  /\ Listed(u[k].targets)
             /\ \A t \in Range(u[k].targets) : t \in revealed \/ (t = Labels(p) /\ UnitStrategy(p))
  BY <1>1, <1>3 DEF RevealsKept
<1>4. ASSUME Clean(p), NEW j \in DOMAIN u, NEW k \in DOMAIN u,
             u[j].kind = "reveal", u[k].kind = "reveal"
      PROVE  ShownOnceAt(p, u, j, k)
  <2>1. j \in DOMAIN s /\ u[j] = s[j] /\ k \in DOMAIN s /\ u[k] = s[k]
    BY <1>1, <1>4
  <2>2. ShownOnceAt(p, s, j, k)
    BY <1>4, <2>1 DEF RevealsKept, ShownOnce
  <2>3. QED BY <2>1, <2>2 DEF ShownOnceAt
<1>5. Clean(p) => ShownOnce(p, u)
  BY <1>4 DEF ShownOnce
<1>6. RevealsKept(p, revealed, u)
  BY <1>2, <1>3, <1>5 DEF RevealsKept
<1>7. QED BY <1>6 DEF u

\* Actions of other kinds leave the books in agreement.
LEMMA EmittedOthers ==
    ASSUME NEW p, NEW h, NEW b, Agree(p, h, b), NEW x, Listed(x), NEW C, PlaysOut(p, x, C),
           \A k \in DOMAIN x : x[k].kind \notin {"reveal", "set_role"}
    PROVE  Goes(p, h, b, Emit(b, x), C)
<1> DEFINE d == Emit(b, x)
<1>1. Booked(b)
  BY DEF Agree
<1>2. /\ Booked(d) /\ d.roles = b.roles /\ d.revealed = b.revealed
      /\ d.actions = b.actions \o x
  <2> DEFINE y == b.actions \o x
  <2>1. d = [b EXCEPT !.actions = y]
    BY DEF Emit
  <2> HIDE DEF d, y
  <2>2. /\ Booked(d) /\ d.roles = b.roles /\ d.revealed = b.revealed /\ d.actions = y
    BY <1>1, <2>1, ActionsWritten
  <2>3. QED BY <2>2 DEF y
<1> HIDE DEF d
<1>3. Listed(h \o b.actions)
  BY JoinedLists DEF Agree
<1>4. RolesKept(p, d.roles, (h \o b.actions) \o x)
  BY <1>2, <1>3, RolesUndisturbed DEF Agree
<1>5. RevealsKept(p, d.revealed, (h \o b.actions) \o x)
  BY <1>2, <1>3, RevealsUndisturbed DEF Agree
<1>6. Goes(p, h, b, d, C)
  BY <1>2, <1>4, <1>5, GoesBy
<1>7. QED BY <1>6 DEF d

-----------------------------------------------------------------------------
(* Targets take roles.                                                      *)

LEMMA WholeParts ==
    ASSUME NEW ref
    PROVE  /\ Whole(ref).visual = ref /\ Whole(ref).part = None /\ Whole(ref).index = None
           /\ IsTarget(Whole(ref))
BY DEF Whole, IsTarget, Part

LEMMA WholeTarget ==
    ASSUME NEW t, IsTarget(t), t.part = None
    PROVE  t = Whole(t.visual)
BY DEF IsTarget, Part, Whole

LEMMA PartTarget ==
    ASSUME NEW ref, NEW part, NEW index, part # None
    PROVE  /\ IsTarget(Part(ref, part, index))
           /\ Part(ref, part, index).visual = ref /\ Part(ref, part, index).part = part
BY DEF IsTarget, Part

LEMMA ReachedBySetRole ==
    ASSUME NEW p, NEW t, NEW role, NEW u
    PROVE  /\ SetRole(t, role).kind = "set_role" /\ SetRole(t, role).role = role
           /\ SetRole(t, role).targets[1] = t
           /\ Reaches(p, SetRole(t, role), u) <=> (u = t \/ (t = Whole(u.visual) /\ ~Deferred(p, u)))
BY DEF SetRole, Reaches

\* The roles on the books after a change to a target.
Changed(p, b, t, role) ==
    Entered(Restrict(b.roles, DOMAIN b.roles \ Forgotten(p, b, t)), t, role)

\* A change to a target, with what it makes the books forget, keeps the roles true.
LEMMA RolesChanged ==
    ASSUME NEW p, NEW b, NEW s, Listed(s), NEW t, Colourable(p, t), NEW role,
           RolesKept(p, b.roles, s)
    PROVE  RolesKept(p, Changed(p, b, t, role), s \o <<SetRole(t, role)>>)
<1> DEFINE R == Changed(p, b, t, role)
           F == Forgotten(p, b, t)
           a == SetRole(t, role)
           z == s \o <<a>>
<1>1. /\ DOMAIN R = (DOMAIN b.roles \ F) \cup {t} /\ R[t] = role
      /\ \A u \in DOMAIN b.roles : (u # t /\ u \notin F) => R[u] = b.roles[u]
  BY DEF Changed, Entered, Restrict
<1>2. /\ a.kind = "set_role" /\ a.role = role /\ a.targets[1] = t
      /\ \A u : Reaches(p, a, u) <=> (u = t \/ (t = Whole(u.visual) /\ ~Deferred(p, u)))
  BY ReachedBySetRole
<1>3. \A u : RoleAfter(p, z, u) = IF Reaches(p, a, u) THEN a.role ELSE RoleAfter(p, s, u)
  BY ShownNext
<1>4. \A u : u \in F <=> /\ t.part = None /\ u \in DOMAIN b.roles /\ u.visual = t.visual /\ u # t
                         /\ ~Deferred(p, u)
  BY DEF Forgotten
<1>5. IsTarget(t) /\ t.visual \in KnownRefs(p)
  BY DEF Colourable
<1>6. /\ DOMAIN z = 1..(Len(s) + 1) /\ DOMAIN s = 1..Len(s) /\ Len(s) \in Nat
      /\ z[Len(s) + 1] = a /\ \A k \in DOMAIN s : z[k] = s[k]
  <2>1. Listed(<<a>>) /\ Len(<<a>>) = 1 /\ DOMAIN <<a>> = {1} /\ <<a>>[1] = a
    BY ListOfOne
  <2>2. /\ DOMAIN s = 1..Len(s) /\ Len(s) \in Nat /\ DOMAIN z = 1..(Len(s) + Len(<<a>>))
        /\ \A k \in DOMAIN s : z[k] = s[k]
        /\ \A k \in DOMAIN <<a>> : z[Len(s) + k] = <<a>>[k]
    BY <2>1, PlacesJoined
  <2>3. 1 \in DOMAIN <<a>>
    BY <2>1
  <2>4. z[Len(s) + 1] = a
    BY <2>1, <2>2, <2>3
  <2>5. QED BY <2>1, <2>2, <2>4
<1> HIDE DEF R, F, a, z
<1>7. ASSUME NEW u \in DOMAIN R PROVE IsTarget(u) /\ R[u] = RoleAfter(p, z, u)
  <2>1. CASE u = t
    BY <1>1, <1>2, <1>3, <1>5, <2>1
  <2>2. CASE u # t
    <3>1. u \in DOMAIN b.roles /\ u \notin F /\ R[u] = b.roles[u]
      BY <1>1, <2>2
    <3>2. IsTarget(u) /\ b.roles[u] = RoleAfter(p, s, u)
      BY <3>1 DEF RolesKept
    <3>3. ~Reaches(p, a, u)
      <4>1. SUFFICES ASSUME t = Whole(u.visual), ~Deferred(p, u) PROVE FALSE
        BY <1>2, <2>2
      <4>2. t.part = None /\ t.visual = u.visual
        BY <4>1, WholeParts
      <4>3. QED BY <1>4, <2>2, <3>1, <4>1, <4>2
    <3>4. QED BY <1>3, <3>1, <3>2, <3>3
  <2>3. QED BY <2>1, <2>2
<1>8. ASSUME NEW ref \in KnownRefs(p) PROVE Whole(ref) \in DOMAIN R
  <2>1. Whole(ref) \in DOMAIN b.roles
    BY DEF RolesKept
  <2>2. Whole(ref) \in F => Whole(ref) = t
    <3>1. SUFFICES ASSUME Whole(ref) \in F PROVE Whole(ref) = t
      OBVIOUS
    <3>2. t.part = None /\ t.visual = ref
      BY <1>4, <3>1, WholeParts
    <3>3. QED BY <1>5, <3>2, WholeTarget
  <2>3. QED BY <1>1, <2>1, <2>2
<1>9. ASSUME NEW u, Colourable(p, u), u \notin DOMAIN R, ~Deferred(p, u)
      PROVE  RoleAfter(p, z, u) = R[Whole(u.visual)]
  <2>1. u # t /\ Whole(u.visual) \in DOMAIN b.roles /\ Whole(u.visual) \in DOMAIN R
    BY <1>1, <1>8, <1>9 DEF RolesKept, Colourable
  <2>2. CASE t = Whole(u.visual)
    BY <1>1, <1>2, <1>3, <1>9, <2>2
  <2>3. CASE t # Whole(u.visual)
    <3>1. ~Reaches(p, a, u)
      BY <1>2, <2>1, <2>3
    <3>2. u \notin DOMAIN b.roles
      <4>1. SUFFICES ASSUME u \in F PROVE FALSE
        BY <1>1, <1>9
      <4>2. t = Whole(u.visual)
        BY <1>4, <1>5, <4>1, WholeTarget
      <4>3. QED BY <2>3, <4>2
    <3>3. RoleAfter(p, s, u) = b.roles[Whole(u.visual)]
      BY <1>9, <3>2 DEF RolesKept
    <3>4. R[Whole(u.visual)] = b.roles[Whole(u.visual)]
      BY <1>1, <2>1, <2>3
    <3>5. QED BY <1>3, <3>1, <3>3, <3>4
  <2>4. QED BY <2>2, <2>3
<1>10. ASSUME NEW k \in DOMAIN z, z[k].kind = "set_role"
       PROVE  /\ Colourable(p, z[k].targets[1])
              /\ z[k].targets[1] \in DOMAIN R \/ ~Deferred(p, z[k].targets[1])
  <2>1. CASE k = Len(s) + 1
    <3>1. z[k].targets[1] = t
      BY <1>2, <1>6, <2>1
    <3>2. QED BY <1>1, <3>1
  <2>2. CASE k # Len(s) + 1
    <3>1. k \in DOMAIN s /\ z[k] = s[k]
      BY <1>6, <2>2
    <3>2. /\ Colourable(p, s[k].targets[1])
          /\ s[k].targets[1] \in DOMAIN b.roles \/ ~Deferred(p, s[k].targets[1])
      BY <1>10, <3>1 DEF RolesKept
    <3>3. s[k].targets[1] \in F => ~Deferred(p, s[k].targets[1])
      BY <1>4
    <3>4. QED BY <1>1, <3>1, <3>2, <3>3
  <2>3. QED BY <2>1, <2>2
<1>11. RolesKept(p, R, z)
  BY <1>7, <1>8, <1>9, <1>10 DEF RolesKept
<1>12. QED BY <1>11 DEF R, z, a

\* One action of no class plays nothing.
LEMMA OneOfNoClass ==
    ASSUME NEW p, NEW a, \A c \in Classes : ~InClass(p, c, a)
    PROVE  PlaysOut(p, <<a>>, {})
BY ListOfOne DEF PlaysOut, StagedOrAbsent, Absent

LEMMA SetRoleOfNoClass ==
    ASSUME NEW p, NEW t, NEW role
    PROVE  \A c \in Classes : ~InClass(p, c, SetRole(t, role))
<1>1. SetRole(t, role).kind = "set_role"
  BY DEF SetRole
<1>2. ShowStage("work").kind = "show_answer_stage" /\ ShowStage("value").kind = "show_answer_stage"
  BY DEF ShowStage
<1>3. SetRole(t, role) # ShowStage("work") /\ SetRole(t, role) # ShowStage("value")
  BY <1>1, <1>2
<1>4. QED BY <1>1, <1>3 DEF InClass

LEMMA Restyled ==
    ASSUME NEW p, NEW h, NEW b, Agree(p, h, b), NEW t, Colourable(p, t), NEW role
    PROVE  Goes(p, h, b, Restyle(p, b, t, role), {})
<1> DEFINE x == <<SetRole(t, role)>>
           e == Emit(b, x)
           d == Restyle(p, b, t, role)
           R == Changed(p, b, t, role)
           y == b.actions \o x
<1>1. Booked(b) /\ Listed(h) /\ Listed(b.actions) /\ Listed(x)
  BY ListOfOne DEF Agree
<1>2. /\ Booked(e) /\ e.roles = b.roles /\ e.revealed = b.revealed /\ e.actions = y
  <2>1. e = [b EXCEPT !.actions = y]
    BY DEF Emit
  <2> HIDE DEF e, y
  <2>2. QED BY <1>1, <2>1, ActionsWritten
<1>3. /\ Booked(d) /\ d.roles = R /\ d.revealed = b.revealed /\ d.actions = y
  <2>1. d = [e EXCEPT !.roles = R]
    BY DEF Restyle, Changed
  <2> HIDE DEF d, e, R, y
  <2>2. QED BY <1>2, <2>1, RolesWritten
<1>4. RolesKept(p, R, (h \o b.actions) \o x)
  <2>1. Listed(h \o b.actions)
    BY <1>1, JoinedLists
  <2>2. QED BY <2>1, RolesChanged DEF Agree
<1>5. RevealsKept(p, b.revealed, (h \o b.actions) \o x)
  <2>1. Listed(h \o b.actions)
    BY <1>1, JoinedLists
  <2>2. \A k \in DOMAIN x : x[k].kind # "reveal"
    BY ListOfOne, ReachedBySetRole
  <2>3. QED BY <1>1, <2>1, <2>2, RevealsUndisturbed DEF Agree
<1>6. PlaysOut(p, x, {})
  BY OneOfNoClass, SetRoleOfNoClass
<1> HIDE DEF d, R, x
<1>7. Goes(p, h, b, d, {})
  <2>1. d.actions = b.actions \o x /\ b.revealed \subseteq d.revealed
    BY <1>3
  <2>2. QED BY <1>1, <1>3, <1>4, <1>5, <1>6, <2>1, GoesBy
<1>8. QED BY <1>7 DEF d

-----------------------------------------------------------------------------
(* Targets come on screen.                                                  *)

\* One more action at the end of a list.
LEMMA OneMore ==
    ASSUME NEW s, Listed(s), NEW a
    PROVE  /\ DOMAIN (s \o <<a>>) = 1..(Len(s) + 1) /\ DOMAIN s = 1..Len(s) /\ Len(s) \in Nat
           /\ (s \o <<a>>)[Len(s) + 1] = a
           /\ \A k \in DOMAIN s : (s \o <<a>>)[k] = s[k]
           /\ Listed(s \o <<a>>) /\ Listed(<<a>>)
<1>1. Listed(<<a>>) /\ Len(<<a>>) = 1 /\ DOMAIN <<a>> = {1} /\ <<a>>[1] = a
  BY ListOfOne
<1>2. /\ DOMAIN s = 1..Len(s) /\ Len(s) \in Nat /\ DOMAIN (s \o <<a>>) = 1..(Len(s) + Len(<<a>>))
      /\ \A k \in DOMAIN s : (s \o <<a>>)[k] = s[k]
      /\ \A k \in DOMAIN <<a>> : (s \o <<a>>)[Len(s) + k] = <<a>>[k]
      /\ Listed(s \o <<a>>)
  BY <1>1, PlacesJoined
<1>3. 1 \in DOMAIN <<a>>
  BY <1>1
<1>4. (s \o <<a>>)[Len(s) + 1] = a
  BY <1>1, <1>2, <1>3
<1>5. QED BY <1>1, <1>2, <1>4

\* A reveal is kept in the books, when nothing it names is shown with what came before.
LEMMA RevealsMore ==
    ASSUME NEW p, NEW revealed, NEW more, NEW s, Listed(s), RevealsKept(p, revealed, s),
           NEW a, a.kind = "reveal", Listed(a.targets),
           \A t \in Range(a.targets) : t \in more \/ (t = Labels(p) /\ UnitStrategy(p)),
           \A t \in more : Showable(p, t) /\ t \in Range(a.targets),
           Clean(p) =>
              /\ \A k \in DOMAIN s : s[k].kind = "reveal" =>
                    \A g \in DOMAIN s[k].targets : \A i \in DOMAIN a.targets :
                        ~ShownWith(p, s[k].targets[g], a.targets[i])
              /\ NamesOnce(p, a.targets)
    PROVE  RevealsKept(p, revealed \cup more, s \o <<a>>)
<1> DEFINE z == s \o <<a>>
           R == revealed \cup more
<1>1. /\ DOMAIN z = 1..(Len(s) + 1) /\ DOMAIN s = 1..Len(s) /\ Len(s) \in Nat
      /\ z[Len(s) + 1] = a /\ \A k \in DOMAIN s : z[k] = s[k]
  BY OneMore
<1> HIDE DEF z
<1>2. Len(s) + 1 \in DOMAIN z /\ \A k \in DOMAIN s : k \in DOMAIN z /\ k < Len(s) + 1
  BY <1>1
<1>3. \A k \in DOMAIN z : k = Len(s) + 1 \/ k \in DOMAIN s
  BY <1>1
<1>4. ASSUME NEW t \in R
      PROVE  Showable(p, t) /\ \E k \in DOMAIN z : z[k].kind = "reveal" /\ t \in Range(z[k].targets)
  <2>1. CASE t \in revealed
    <3>1. PICK k \in DOMAIN s : s[k].kind = "reveal" /\ t \in Range(s[k].targets)
      BY <2>1 DEF RevealsKept
    <3>2. QED BY <1>1, <1>2, <2>1, <3>1 DEF RevealsKept
  <2>2. CASE t \in more
    BY <1>1, <1>2, <2>2
  <2>3. QED BY <2>1, <2>2
<1>5. ASSUME NEW k \in DOMAIN z, z[k].kind = "reveal"
      PROVE  /\ Listed(z[k].targets)
             /\ \A t \in Range(z[k].targets) : t \in R \/ (t = Labels(p) /\ UnitStrategy(p))
  <2>1. CASE k = Len(s) + 1
    BY <1>1, <2>1
  <2>2. CASE k \in DOMAIN s
    BY <1>1, <1>5, <2>2 DEF RevealsKept
  <2>3. QED BY <1>3, <2>1, <2>2
<1>6. ASSUME Clean(p), NEW j \in DOMAIN z, NEW k \in DOMAIN z,
             z[j].kind = "reveal", z[k].kind = "reveal"
      PROVE  ShownOnceAt(p, z, j, k)
  <2>1. CASE j \in DOMAIN s /\ k \in DOMAIN s
    <3>1. ShownOnceAt(p, s, j, k)
      BY <1>1, <1>6, <2>1 DEF RevealsKept, ShownOnce
    <3>2. z[j] = s[j] /\ z[k] = s[k]
      BY <1>1, <2>1
    <3>3. QED BY <3>1, <3>2 DEF ShownOnceAt
  <2>2. CASE j \in DOMAIN s /\ k = Len(s) + 1
    <3>1. z[j] = s[j] /\ z[k] = a
      BY <1>1, <2>2
    <3>2. ASSUME NEW g \in DOMAIN s[j].targets, NEW i \in DOMAIN a.targets
          PROVE ~ShownWith(p, s[j].targets[g], a.targets[i])
      BY <1>6, <2>2, <3>1
    <3>3. QED BY <3>1, <3>2 DEF ShownOnceAt
  <2>3. CASE j = Len(s) + 1 /\ k \in DOMAIN s
    <3>1. ~(j < k) /\ j # k
      BY <1>1, <2>3
    <3>2. QED BY <3>1 DEF ShownOnceAt
  <2>4. CASE j = Len(s) + 1 /\ k = Len(s) + 1
    <3>1. z[j] = a /\ z[k] = a /\ ~(j < k)
      BY <1>1, <2>4
    <3>2. ASSUME NEW g \in DOMAIN a.targets, NEW i \in DOMAIN a.targets, g < i
          PROVE ~ShownWith(p, a.targets[g], a.targets[i])
      <4>1. g \in 1..(i - 1)
        <5>1. DOMAIN a.targets = 1..Len(a.targets) /\ Len(a.targets) \in Nat
          BY ListPlaces
        <5>2. QED BY <3>2, <5>1
      <4>2. NamesOnce(p, a.targets)
        BY <1>6
      <4>3. QED BY <4>1, <4>2 DEF NamesOnce
    <3>3. QED BY <3>1, <3>2 DEF ShownOnceAt
  <2>5. QED BY <1>3, <2>1, <2>2, <2>3, <2>4
<1>7. Clean(p) => ShownOnce(p, z)
  BY <1>6 DEF ShownOnce
<1>8. RevealsKept(p, R, z)
  BY <1>4, <1>5, <1>7 DEF RevealsKept
<1>9. QED BY <1>8 DEF z

\* The labels of the target unit are not among what a plan names.
LEMMA LabelParts ==
    ASSUME NEW p
    PROVE  /\ Labels(p).part = "target_label" /\ Labels(p).visual = p.primary.ref
           /\ \A ref : Labels(p) # Whole(ref)
<1>1. Labels(p).part = "target_label" /\ Labels(p).visual = p.primary.ref
  BY DEF Labels
<1>2. QED BY <1>1, WholeParts, PartsAssumption DEF PartClasses

\* What is kept of a list without repetitions has none.
LEMMA NamesOnceKept ==
    ASSUME NEW p, NEW targets, Listed(targets), NamesOnce(p, targets), NEW places
    PROVE  NamesOnce(p, Kept(targets, places))
<1> DEFINE t == Kept(targets, places)
<1>1. ASSUME NEW i \in DOMAIN t, NEW g \in 1..(i - 1)
      PROVE  ~ShownWith(p, t[g], t[i])
  <2>1. Listed(t)
    BY KeptElements
  <2> HIDE DEF t
  <2>2. g \in DOMAIN t /\ g < i
    BY <2>1, ListPlaces
  <2> USE DEF t
  <2>3. PICK k, l \in DOMAIN targets :
           k < l /\ t[g] = targets[k] /\ t[i] = targets[l]
    BY <2>2, KeptOrder
  <2> HIDE DEF t
  <2>4. k \in 1..(l - 1)
    BY <2>3, ListPlaces
  <2>5. QED BY <2>3, <2>4 DEF NamesOnce
<1> HIDE DEF t
<1>2. NamesOnce(p, t)
  BY <1>1 DEF NamesOnce
<1>3. QED BY <1>2 DEF t

\* A reveal of targets that the plan names plays nothing.
LEMMA RevealOfNoClass ==
    ASSUME NEW p, NEW a, a.kind = "reveal", \A t \in Range(a.targets) : Nameable(p, t)
    PROVE  \A c \in Classes : ~InClass(p, c, a)
<1>1. ShowStage("work").kind = "show_answer_stage" /\ ShowStage("value").kind = "show_answer_stage"
  BY DEF ShowStage
<1>2. a # ShowStage("work") /\ a # ShowStage("value")
  BY <1>1
<1>3. \A t \in Range(a.targets) : t.visual \in Refs(p) /\ (UnitStrategy(p) => t.part # "target_label")
  BY DEF Nameable
<1>4. QED BY <1>2, <1>3 DEF InClass

\* The targets of a list that are not on screen.
Pending(p, b, targets) ==
    Kept(targets, {k \in DOMAIN targets : ~IsRevealed(p, b, targets[k])})

LEMMA PendingElements ==
    ASSUME NEW p, NEW b, NEW targets, Listed(targets)
    PROVE  /\ Listed(Pending(p, b, targets))
           /\ \A t : t \in Range(Pending(p, b, targets)) <=>
                        t \in Range(targets) /\ ~IsRevealed(p, b, t)
<1> DEFINE P == {k \in DOMAIN targets : ~IsRevealed(p, b, targets[k])}
<1>1. /\ Listed(Kept(targets, P))
      /\ \A x : x \in Range(Kept(targets, P)) <=>
                   \E k \in 1..Len(targets) : k \in P /\ targets[k] = x
  BY KeptElements
<1>2. /\ DOMAIN targets = 1..Len(targets)
      /\ \A x : x \in Range(targets) <=> \E k \in 1..Len(targets) : targets[k] = x
  BY ListPlaces
<1>3. Pending(p, b, targets) = Kept(targets, P)
  BY DEF Pending
<1>4. \A x : (\E k \in 1..Len(targets) : k \in P /\ targets[k] = x) <=>
                x \in Range(targets) /\ ~IsRevealed(p, b, x)
  BY <1>2
<1>5. QED BY <1>1, <1>3, <1>4

\* What is not on screen does not come with anything that is.
LEMMA PendingIsNew ==
    ASSUME NEW p, NEW b, NEW s, RevealsKept(p, b.revealed, s), NEW targets, Listed(targets),
           \A t \in Range(targets) : Showable(p, t),
           NEW k \in DOMAIN s, s[k].kind = "reveal", NEW g \in DOMAIN s[k].targets,
           NEW i \in DOMAIN Pending(p, b, targets)
    PROVE  ~ShownWith(p, s[k].targets[g], Pending(p, b, targets)[i])
<1> DEFINE e == s[k].targets[g]
           t == Pending(p, b, targets)[i]
<1>1. e \in b.revealed \/ (e = Labels(p) /\ UnitStrategy(p))
  <2>1. e \in Range(s[k].targets)
    BY DEF Range
  <2>2. QED BY <2>1 DEF RevealsKept
<1>2. Showable(p, t) /\ ~IsRevealed(p, b, t)
  <2>1. t \in Range(Pending(p, b, targets))
    BY DEF Range
  <2>2. QED BY <2>1, PendingElements
<1> HIDE DEF e, t
<1>3. ASSUME e \in b.revealed PROVE ~ShownWith(p, e, t)
  BY <1>2, <1>3 DEF IsRevealed, ShownWith
<1>4. ASSUME e = Labels(p) /\ UnitStrategy(p) PROVE ~ShownWith(p, e, t)
  <2>1. t.part # "target_label" /\ e.part = "target_label"
    BY <1>2, <1>4, LabelParts DEF Showable
  <2>2. e # t /\ e # Whole(t.visual)
    BY <1>4, <2>1, LabelParts
  <2>3. QED BY <2>2 DEF ShownWith
<1>5. ~ShownWith(p, e, t)
  BY <1>1, <1>3, <1>4
<1>6. QED BY <1>5 DEF e, t

\* What the books are after targets have come on screen.
RevealStep(b, d) ==
    d.actions = b.actions \/ \E a : a.kind = "reveal" /\ d.actions = b.actions \o <<a>>

LEMMA Revealed ==
    ASSUME NEW p, NEW h, NEW b, Agree(p, h, b), NEW targets, Listed(targets),
           \A t \in Range(targets) : Showable(p, t), Clean(p) => NamesOnce(p, targets),
           NEW mode, NEW C,
           IF Pending(p, b, targets) = <<>> THEN C = {}
           ELSE PlaysOut(p, <<Reveal(Pending(p, b, targets), mode)>>, C)
    PROVE  /\ Goes(p, h, b, RevealUnrevealed(p, b, targets, mode), C)
           /\ \A t \in Range(targets) : IsRevealed(p, RevealUnrevealed(p, b, targets, mode), t)
           /\ RevealStep(b, RevealUnrevealed(p, b, targets, mode))
<1> DEFINE w == Pending(p, b, targets)
           d == RevealUnrevealed(p, b, targets, mode)
           a == Reveal(w, mode)
           x == <<a>>
           y == b.actions \o x
           e == Emit(b, x)
           R == b.revealed \cup Range(w)
<1>0. Booked(b) /\ Listed(h) /\ Listed(b.actions) /\ Listed(x)
  BY ListOfOne DEF Agree
<1>1. /\ Listed(w)
      /\ \A t : t \in Range(w) <=> t \in Range(targets) /\ ~IsRevealed(p, b, t)
  BY PendingElements
<1>2. CASE w = <<>>
  <2>1. d = b
    BY <1>2 DEF RevealUnrevealed, Pending
  <2>2. \A t \in Range(targets) : IsRevealed(p, b, t)
    BY <1>1, <1>2, EmptyList
  <2> HIDE DEF d, w
  <2>3. Goes(p, h, b, b, C)
    BY <1>2, GoesNowhere DEF w
  <2>4. RevealStep(b, d)
    BY <2>1 DEF RevealStep
  <2>5. QED BY <2>1, <2>2, <2>3, <2>4 DEF d
<1>3. CASE w # <<>>
  <2>1. d = [e EXCEPT !.revealed = R]
    BY <1>3 DEF RevealUnrevealed, Pending, Emit
  <2>2. a.kind = "reveal" /\ a.targets = w
    BY DEF Reveal
  <2>3. e = [b EXCEPT !.actions = y]
    BY DEF Emit
  <2>4. PlaysOut(p, x, C)
    BY <1>3
  <2> HIDE DEF d, e, a
  <2>5. /\ Booked(e) /\ e.roles = b.roles /\ e.revealed = b.revealed /\ e.actions = y
    <3> HIDE DEF y
    <3>1. QED BY <1>0, <2>3, ActionsWritten, SMTT(20)
  <2>6. /\ Booked(d) /\ d.roles = b.roles /\ d.revealed = R /\ d.actions = y
    <3> HIDE DEF y, R
    <3>1. QED BY <2>1, <2>5, RevealedWritten, SMTT(20)
  <2> DEFINE s == h \o b.actions
  <2>7. Listed(s)
    BY <1>0, JoinedLists
  <2>8. RolesKept(p, b.roles, s) /\ RevealsKept(p, b.revealed, s)
    BY DEF Agree
  <2> HIDE DEF s
  <2>9. RolesKept(p, b.roles, s \o x)
    <3>1. \A k \in DOMAIN x : x[k].kind # "set_role"
      BY <2>2, ListOfOne
    <3>2. QED BY <1>0, <2>7, <2>8, <3>1, RolesUndisturbed
  <2>10. Clean(p) => NamesOnce(p, w)
    BY NamesOnceKept DEF Pending
  <2>11. ASSUME NEW k \in DOMAIN s, s[k].kind = "reveal",
                NEW g \in DOMAIN s[k].targets, NEW i \in DOMAIN w
         PROVE  ~ShownWith(p, s[k].targets[g], w[i])
    BY <2>8, <2>11, PendingIsNew
  <2> HIDE DEF w
  <2>12. RevealsKept(p, R, s \o <<a>>)
    <3>1. \A t \in Range(a.targets) : t \in Range(w) \/ (t = Labels(p) /\ UnitStrategy(p))
      BY <2>2
    <3>2. \A t \in Range(w) : Showable(p, t) /\ t \in Range(a.targets)
      BY <1>1, <2>2
    <3>3. Clean(p) =>
              /\ \A k \in DOMAIN s : s[k].kind = "reveal" =>
                    \A g \in DOMAIN s[k].targets : \A i \in DOMAIN a.targets :
                        ~ShownWith(p, s[k].targets[g], a.targets[i])
              /\ NamesOnce(p, a.targets)
      BY <2>2, <2>10, <2>11
    <3>4. QED BY <1>1, <2>2, <2>7, <2>8, <3>1, <3>2, <3>3, RevealsMore
  <2>13. Goes(p, h, b, d, C)
    <3>1. d.actions = b.actions \o x /\ b.revealed \subseteq d.revealed
      BY <2>6
    <3>2. RolesKept(p, d.roles, s \o x) /\ RevealsKept(p, d.revealed, s \o x)
      BY <2>6, <2>9, <2>12
    <3>3. QED BY <1>0, <2>4, <2>6, <3>1, <3>2, GoesBy DEF s
  <2>14. ASSUME NEW t \in Range(targets) PROVE IsRevealed(p, d, t)
    <3>1. b.revealed \subseteq d.revealed /\ Range(w) \subseteq d.revealed
      BY <2>6
    <3>2. QED BY <1>1, <3>1 DEF IsRevealed
  <2>15. RevealStep(b, d)
    BY <2>2, <2>6 DEF RevealStep
  <2>16. QED BY <2>13, <2>14, <2>15 DEF d
<1>4. QED BY <1>2, <1>3

LEMMA NameableIsShowable ==
    ASSUME NEW p, NEW t, Nameable(p, t)
    PROVE  Showable(p, t) /\ Colourable(p, t)
BY DEF Nameable, Showable, Colourable, KnownRefs

\* Targets that the plan names come on screen, and no move is played.
LEMMA NamedRevealed ==
    ASSUME NEW p, NEW h, NEW b, Agree(p, h, b), NEW targets, Listed(targets),
           \A t \in Range(targets) : Nameable(p, t), Clean(p) => NamesOnce(p, targets), NEW mode
    PROVE  /\ Goes(p, h, b, RevealUnrevealed(p, b, targets, mode), {})
           /\ \A t \in Range(targets) : IsRevealed(p, RevealUnrevealed(p, b, targets, mode), t)
           /\ RevealStep(b, RevealUnrevealed(p, b, targets, mode))
<1> DEFINE w == Pending(p, b, targets)
           a == Reveal(w, mode)
<1>1. \A t \in Range(w) : Nameable(p, t)
  BY PendingElements
<1>2. a.kind = "reveal" /\ a.targets = w
  BY DEF Reveal
<1> HIDE DEF a, w
<1>3. \A c \in Classes : ~InClass(p, c, a)
  BY <1>1, <1>2, RevealOfNoClass
<1>4. PlaysOut(p, <<a>>, {})
  BY <1>3, OneOfNoClass
<1>5. \A t \in Range(targets) : Showable(p, t)
  BY NameableIsShowable
<1>6. IF Pending(p, b, targets) = <<>> THEN TRUE
      ELSE PlaysOut(p, <<Reveal(Pending(p, b, targets), mode)>>, {})
  BY <1>4 DEF a, w
<1>7. QED BY <1>5, <1>6, Revealed

\* The labels of the target unit come on screen, once.
LEMMA Labelled ==
    ASSUME NEW p, NEW h, NEW b, Agree(p, h, b), UnitStrategy(p), Deferred(p, Labels(p)),
           Clean(p) => Absent(p, "label", h \o b.actions),
           PlaysOut(p, Moves(p, "label"), {"label"})
    PROVE  Goes(p, h, b, Emit(b, <<Reveal(<<Labels(p)>>, "stagger")>>), {"label"})
<1> DEFINE a == Reveal(<<Labels(p)>>, "stagger")
           x == <<a>>
           y == b.actions \o x
           d == Emit(b, x)
           s == h \o b.actions
<1>0. Booked(b) /\ Listed(h) /\ Listed(b.actions) /\ Listed(x)
  BY ListOfOne DEF Agree
<1>1. a.kind = "reveal" /\ a.targets = <<Labels(p)>>
  BY DEF Reveal
<1>2. /\ Listed(a.targets) /\ Range(a.targets) = {Labels(p)} /\ DOMAIN a.targets = {1}
      /\ a.targets[1] = Labels(p)
  BY <1>1, ListOfOne
<1>3. d = [b EXCEPT !.actions = y]
  BY DEF Emit
<1>4. PlaysOut(p, x, {"label"})
  BY DEF Moves
<1> HIDE DEF d, a
<1>5. /\ Booked(d) /\ d.roles = b.roles /\ d.revealed = b.revealed /\ d.actions = y
  <2> HIDE DEF y
  <2>1. QED BY <1>0, <1>3, ActionsWritten
<1>6. Listed(s)
  BY <1>0, JoinedLists
<1>7. RolesKept(p, b.roles, s) /\ RevealsKept(p, b.revealed, s)
  BY DEF Agree
<1>8. Clean(p) => Absent(p, "label", s)
  OBVIOUS
<1> HIDE DEF s
<1>9. RolesKept(p, b.roles, s \o x)
  <2>1. \A k \in DOMAIN x : x[k].kind # "set_role"
    BY <1>1, ListOfOne
  <2>2. QED BY <1>0, <1>6, <1>7, <2>1, RolesUndisturbed
<1>10. ASSUME Clean(p), NEW k \in DOMAIN s, s[k].kind = "reveal", NEW g \in DOMAIN s[k].targets,
              NEW i \in DOMAIN a.targets
       PROVE  ~ShownWith(p, s[k].targets[g], a.targets[i])
  <2> DEFINE e == s[k].targets[g]
  <2>1. e \in Range(s[k].targets)
    BY DEF Range
  <2>2. e \in b.revealed \/ e = Labels(p)
    BY <1>7, <1>10, <2>1 DEF RevealsKept
  <2>3. e # Labels(p)
    <3>1. SUFFICES ASSUME e = Labels(p) PROVE FALSE
      OBVIOUS
    <3>2. e.part = "target_label"
      BY <3>1, LabelParts
    <3>3. InClass(p, "label", s[k])
      BY <1>10, <2>1, <3>2 DEF InClass
    <3>4. QED BY <1>8, <1>10, <3>3 DEF Absent
  <2>4. a.targets[i] = Labels(p)
    BY <1>2
  <2>5. QED BY <2>3, <2>4 DEF ShownWith
<1>11. NamesOnce(p, a.targets)
  <2>1. \A i \in DOMAIN a.targets : 1..(i - 1) = {}
    BY <1>2
  <2>2. QED BY <2>1 DEF NamesOnce
<1>12. RevealsKept(p, b.revealed \cup {}, s \o <<a>>)
  <2>1. \A t \in Range(a.targets) : t \in {} \/ (t = Labels(p) /\ UnitStrategy(p))
    BY <1>2
  <2>2. Clean(p) =>
            /\ \A k \in DOMAIN s : s[k].kind = "reveal" =>
                  \A g \in DOMAIN s[k].targets : \A i \in DOMAIN a.targets :
                      ~ShownWith(p, s[k].targets[g], a.targets[i])
            /\ NamesOnce(p, a.targets)
    BY <1>10, <1>11
  <2>3. \A t \in {} : Showable(p, t) /\ t \in Range(a.targets)
    OBVIOUS
  <2>4. QED BY <1>1, <1>2, <1>6, <1>7, <2>1, <2>2, <2>3, RevealsMore
<1>13. Goes(p, h, b, d, {"label"})
  <2>1. d.actions = b.actions \o x /\ b.revealed \subseteq d.revealed
    BY <1>5
  <2>2. RolesKept(p, d.roles, s \o x) /\ RevealsKept(p, d.revealed, s \o x)
    BY <1>5, <1>9, <1>12
  <2>3. QED BY <1>0, <1>4, <1>5, <2>1, <2>2, GoesBy DEF s
<1>14. QED BY <1>13 DEF d, a

-----------------------------------------------------------------------------
(* Changes of roles, one after another.                                     *)

LEMMA RoleChanged ==
    ASSUME NEW p, NEW h, NEW b, Agree(p, h, b), NEW t, Colourable(p, t), NEW role
    PROVE  Goes(p, h, b, RoleChange(p, b, t, role), {})
BY Restyled, GoesNowhere DEF RoleChange

\* The books after each of the first n changes.
Changing(p, b, targets, role, f, n) ==
    f = [k \in 0..n |-> IF k = 0 THEN b ELSE RoleChange(p, f[k - 1], targets[k], role)]

\* Every number of changes can be made: induction on it.
LEMMA ChangingExists ==
    ASSUME NEW p, NEW b, NEW targets, NEW role
    PROVE  \A n \in Nat : \E f : Changing(p, b, targets, role, f, n)
<1> DEFINE S == {n \in Nat : \E f : Changing(p, b, targets, role, f, n)}
<1>1. 0 \in S
  <2> DEFINE g == [k \in 0..0 |-> b]
  <2>1. ASSUME NEW k \in 0..0
        PROVE g[k] = IF k = 0 THEN b ELSE RoleChange(p, g[k - 1], targets[k], role)
    OBVIOUS
  <2>2. Changing(p, b, targets, role, g, 0)
    BY <2>1 DEF Changing
  <2>3. QED BY <2>2
<1>2. ASSUME NEW n \in Nat, n \in S PROVE n + 1 \in S
  <2>1. PICK f : Changing(p, b, targets, role, f, n)
    BY <1>2
  <2> DEFINE x == RoleChange(p, f[n], targets[n + 1], role)
             g == [k \in 0..(n + 1) |-> IF k = n + 1 THEN x ELSE f[k]]
  <2> HIDE DEF x
  <2>2. ASSUME NEW k \in 0..(n + 1)
        PROVE g[k] = IF k = 0 THEN b ELSE RoleChange(p, g[k - 1], targets[k], role)
    <3>1. CASE k = n + 1
      <4>1. k # 0 /\ k - 1 = n /\ n \in 0..(n + 1) /\ n # n + 1
        BY <3>1
      <4>2. g[k] = x /\ g[k - 1] = f[n]
        BY <4>1, <3>1
      <4>3. QED BY <3>1, <4>1, <4>2 DEF x
    <3>2. CASE k # n + 1
      <4>1. k \in 0..n /\ (k # 0 => k - 1 \in 0..n)
        BY <3>2
      <4>2. f[k] = IF k = 0 THEN b ELSE RoleChange(p, f[k - 1], targets[k], role)
        BY <4>1, <2>1 DEF Changing
      <4>3. g[k] = f[k] /\ (k # 0 => g[k - 1] = f[k - 1])
        BY <4>1
      <4>4. QED BY <4>2, <4>3
    <3>3. QED BY <3>1, <3>2
  <2>3. Changing(p, b, targets, role, g, n + 1)
    <3>1. g = [k \in 0..(n + 1) |-> g[k]]
      OBVIOUS
    <3> HIDE DEF g
    <3>2. QED BY <2>2, <3>1 DEF Changing
  <2>4. QED BY <2>3
<1>3. QED
  <2> HIDE DEF S
  <2>1. Nat \subseteq S BY <1>1, <1>2, NatInd
  <2>2. QED BY <2>1 DEF S

LEMMA RolesChangedInTurn ==
    ASSUME NEW p, NEW h, NEW b, Agree(p, h, b), NEW targets, Listed(targets),
           \A t \in Range(targets) : Colourable(p, t), NEW role
    PROVE  Goes(p, h, b, RoleChanges(p, b, targets, role), {})
<1> DEFINE f == CHOOSE f : Changing(p, b, targets, role, f, Len(targets))
<1>0. Len(targets) \in Nat /\ \A k \in 1..Len(targets) : Colourable(p, targets[k])
  BY ListPlaces
<1>1. Changing(p, b, targets, role, f, Len(targets))
  BY <1>0, ChangingExists
<1>2. RoleChanges(p, b, targets, role) = f[Len(targets)]
  BY DEF RoleChanges, Changing
<1> HIDE DEF f
<1>3. \A k \in 0..Len(targets) :
         f[k] = IF k = 0 THEN b ELSE RoleChange(p, f[k - 1], targets[k], role)
  BY <1>1 DEF Changing
<1> DEFINE S == {n \in Nat : n <= Len(targets) => Goes(p, h, b, f[n], {})}
<1>4. 0 \in S
  <2>1. 0 \in 0..Len(targets)
    BY <1>0
  <2>2. f[0] = b
    BY <1>3, <2>1
  <2>3. Goes(p, h, b, b, {})
    BY GoesNowhere
  <2>4. QED BY <2>2, <2>3
<1>5. ASSUME NEW n \in Nat, n \in S PROVE n + 1 \in S
  <2>1. SUFFICES ASSUME n + 1 <= Len(targets) PROVE Goes(p, h, b, f[n + 1], {})
    OBVIOUS
  <2>2. Goes(p, h, b, f[n], {})
    BY <1>0, <1>5, <2>1
  <2> HIDE DEF S
  <2>3. n + 1 \in 0..Len(targets) /\ n + 1 # 0 /\ (n + 1) - 1 = n /\ n + 1 \in 1..Len(targets)
    BY <1>0, <2>1
  <2>4. f[n + 1] = RoleChange(p, f[n], targets[n + 1], role)
    BY <1>3, <2>3
  <2>5. Agree(p, h, f[n]) /\ Colourable(p, targets[n + 1])
    BY <1>0, <2>2, <2>3, GoesAgree
  <2>6. Goes(p, h, f[n], RoleChange(p, f[n], targets[n + 1], role), {})
    BY <2>5, RoleChanged
  <2>7. QED BY <2>2, <2>4, <2>6, GoesOn
<1>6. Len(targets) \in S
  <2> HIDE DEF S
  <2>1. QED BY <1>0, <1>4, <1>5, NatInd
<1>7. QED BY <1>0, <1>2, <1>6

-----------------------------------------------------------------------------
(* Single actions.                                                          *)

LEMMA KindOfNoClass ==
    ASSUME NEW p, NEW a, a.kind \notin {"signed_hop_arrow", "distance_annotation", "rotate",
                                        "reveal", "trace", "show_answer_stage"}
    PROVE  \A c \in Classes : ~InClass(p, c, a)
<1>1. ShowStage("work").kind = "show_answer_stage" /\ ShowStage("value").kind = "show_answer_stage"
  BY DEF ShowStage
<1>2. a # ShowStage("work") /\ a # ShowStage("value")
  BY <1>1
<1>3. QED BY <1>2 DEF InClass

LEMMA EmittedOne ==
    ASSUME NEW p, NEW h, NEW b, Agree(p, h, b), NEW a, a.kind \notin {"reveal", "set_role"},
           \A c \in Classes : ~InClass(p, c, a)
    PROVE  Goes(p, h, b, Emit(b, <<a>>), {})
<1>1. Listed(<<a>>) /\ DOMAIN <<a>> = {1} /\ <<a>>[1] = a
  BY ListOfOne
<1>2. PlaysOut(p, <<a>>, {})
  BY OneOfNoClass
<1>3. \A k \in DOMAIN <<a>> : <<a>>[k].kind \notin {"reveal", "set_role"}
  BY <1>1
<1>4. QED BY <1>1, <1>2, <1>3, EmittedOthers

LEMMA CalledOut ==
    ASSUME NEW p, NEW h, NEW b, Agree(p, h, b), NEW ref, NEW t, NEW anchor
    PROVE  Goes(p, h, b, Callout(b, ref, t, anchor), {})
<1> DEFINE a == ShowRelation(ref)
           e == Emit(b, <<a>>)
           r == Append(e.relations, [ref |-> ref, target |-> t, anchor |-> anchor])
           d == Callout(b, ref, t, anchor)
<1>1. a.kind = "show_relation"
  BY DEF ShowRelation
<1>2. d = [e EXCEPT !.relations = r]
  BY DEF Callout
<1> HIDE DEF a
<1>3. Goes(p, h, b, e, {})
  BY <1>1, KindOfNoClass, EmittedOne
<1> HIDE DEF d, e, r
<1>4. Booked(e)
  BY <1>3 DEF Goes, Agree
<1>5. Booked(d) /\ d.roles = e.roles /\ d.revealed = e.revealed /\ d.actions = e.actions
  BY <1>2, <1>4, RelationsWritten
<1>6. Goes(p, h, e, d, {})
  BY <1>3, <1>5, GoesAgree, GoesSame
<1>7. Goes(p, h, b, d, {})
  BY <1>3, <1>6, GoesOn
<1>8. QED BY <1>7 DEF d

LEMMA SetAside ==
    ASSUME NEW p, NEW h, NEW b, Agree(p, h, b), NEW saved, NEW t, Colourable(p, t), NEW role
    PROVE  Goes(p, h, b, Restyle(p, [b EXCEPT !.saved = saved], t, role), {})
<1> DEFINE e == [b EXCEPT !.saved = saved]
<1>1. Booked(b)
  BY DEF Agree
<1>2. Booked(e) /\ e.roles = b.roles /\ e.revealed = b.revealed /\ e.actions = b.actions
  BY <1>1, SavedWritten
<1> HIDE DEF e
<1>3. Goes(p, h, b, e, {})
  BY <1>2, GoesSame
<1>4. Goes(p, h, e, Restyle(p, e, t, role), {})
  BY <1>3, GoesAgree, Restyled
<1>5. Goes(p, h, b, Restyle(p, e, t, role), {})
  BY <1>3, <1>4, GoesOn
<1>6. QED BY <1>5 DEF e

-----------------------------------------------------------------------------
(* The author's own actions.                                                *)

\* What an action of the author's may name.
CustomAllowed(p, a) ==
    /\ a.kind \in CustomKinds
    /\ a.kind = "reveal" =>
          /\ Listed(a.targets)
          /\ \A t \in Range(a.targets) : Nameable(p, t)
          /\ Clean(p) => NamesOnce(p, a.targets)
    /\ a.kind \in {"emphasize", "dim", "restore"} => Nameable(p, a.target)
    /\ (a.kind = "trace" /\ a.path = OwnPath(p)) => TraceBeat(p) = None

LEMMA CustomActed ==
    ASSUME NEW p, NEW h, NEW b, Agree(p, h, b), NEW a, CustomAllowed(p, a), NEW ref
    PROVE  Goes(p, h, b, CustomAction(p, b, a, ref), {})
<1>1. CASE a.kind = "reveal"
  <2>1. Goes(p, h, b, RevealUnrevealed(p, b, a.targets, a.mode), {})
    BY <1>1, NamedRevealed DEF CustomAllowed
  <2>2. QED BY <1>1, <2>1 DEF CustomAction
<1>2. CASE a.kind \in {"emphasize", "dim", "restore"}
  <2>1. Colourable(p, a.target)
    BY <1>2, NameableIsShowable DEF CustomAllowed
  <2>2. CASE a.kind = "emphasize"
    <3>1. Goes(p, h, b, Restyle(p, b, a.target, a.role), {})
      BY <2>1, Restyled
    <3>2. QED BY <2>2, <3>1 DEF CustomAction
  <2>3. CASE a.kind = "dim"
    <3>1. Goes(p, h, b, Dimmed(p, b, a.target), {})
      BY <2>1, SetAside DEF Dimmed
    <3>2. QED BY <2>3, <3>1 DEF CustomAction
  <2>4. CASE a.kind = "restore"
    <3> DEFINE sv == Restrict(b.saved, DOMAIN b.saved \ {a.target})
    <3>1. Restored(p, b, a.target) =
             Restyle(p, [b EXCEPT !.saved = sv], a.target,
                     EntryOf(b.saved, a.target, InitialRoles(p)[Whole(a.target.visual)]))
      BY DEF Restored
    <3> HIDE DEF sv
    <3>2. Goes(p, h, b, Restored(p, b, a.target), {})
      BY <2>1, <3>1, SetAside
    <3>3. QED BY <2>4, <3>2 DEF CustomAction
  <2>5. QED BY <1>2, <2>2, <2>3, <2>4
<1>3. CASE a.kind = "callout"
  <2>1. Goes(p, h, b, Callout(b, ref, a.target, a.anchor), {})
    BY CalledOut
  <2>2. QED BY <1>3, <2>1 DEF CustomAction
<1>4. CASE a.kind = "trace"
  <2> DEFINE x == Trace(a.path)
  <2>1. x.kind = "trace" /\ x.path = a.path
    BY DEF Trace
  <2>2. CustomAction(p, b, a, ref) = Emit(b, <<x>>)
    BY <1>4 DEF CustomAction
  <2>3. ShowStage("work").kind = "show_answer_stage" /\ ShowStage("value").kind = "show_answer_stage"
    BY DEF ShowStage
  <2> HIDE DEF x
  <2>4. x # ShowStage("work") /\ x # ShowStage("value")
    BY <2>1, <2>3
  <2>5. \A c \in Classes : ~InClass(p, c, x)
    BY <1>4, <2>1, <2>4 DEF InClass, CustomAllowed
  <2>6. QED BY <2>1, <2>2, <2>5, EmittedOne
<1>5. CASE a.kind \in {"draw", "transform", "move"}
  <2> DEFINE x == Drawing(a)
  <2>1. x.kind \in {"draw", "transform", "move"}
    BY DEF Drawing
  <2>2. CustomAction(p, b, a, ref) = Emit(b, <<x>>)
    BY <1>5 DEF CustomAction
  <2> HIDE DEF x
  <2>3. QED BY <2>1, <2>2, KindOfNoClass, EmittedOne
<1>6. QED BY <1>1, <1>2, <1>3, <1>4, <1>5 DEF CustomAllowed, CustomKinds

\* The books after each of the first n actions of the author's.
Customizing(p, b, custom, n, f, m) ==
    f = [k \in 0..m |-> IF k = 0 THEN b
                        ELSE CustomAction(p, f[k - 1], custom[k], CalloutRef("callout", n, k))]

LEMMA CustomizingExists ==
    ASSUME NEW p, NEW b, NEW custom, NEW n
    PROVE  \A m \in Nat : \E f : Customizing(p, b, custom, n, f, m)
<1> DEFINE S == {m \in Nat : \E f : Customizing(p, b, custom, n, f, m)}
<1>1. 0 \in S
  <2> DEFINE g == [k \in 0..0 |-> b]
  <2>1. ASSUME NEW k \in 0..0
        PROVE g[k] = IF k = 0 THEN b
                     ELSE CustomAction(p, g[k - 1], custom[k], CalloutRef("callout", n, k))
    OBVIOUS
  <2>2. Customizing(p, b, custom, n, g, 0)
    BY <2>1 DEF Customizing
  <2>3. QED BY <2>2
<1>2. ASSUME NEW m \in Nat, m \in S PROVE m + 1 \in S
  <2>1. PICK f : Customizing(p, b, custom, n, f, m)
    BY <1>2
  <2> DEFINE x == CustomAction(p, f[m], custom[m + 1], CalloutRef("callout", n, m + 1))
             g == [k \in 0..(m + 1) |-> IF k = m + 1 THEN x ELSE f[k]]
  <2> HIDE DEF x
  <2>2. ASSUME NEW k \in 0..(m + 1)
        PROVE g[k] = IF k = 0 THEN b
                     ELSE CustomAction(p, g[k - 1], custom[k], CalloutRef("callout", n, k))
    <3>1. CASE k = m + 1
      <4>1. k # 0 /\ k - 1 = m /\ m \in 0..(m + 1) /\ m # m + 1
        BY <3>1
      <4>2. g[k] = x /\ g[k - 1] = f[m]
        BY <4>1, <3>1
      <4>3. QED BY <3>1, <4>1, <4>2 DEF x
    <3>2. CASE k # m + 1
      <4>1. k \in 0..m /\ (k # 0 => k - 1 \in 0..m)
        BY <3>2
      <4>2. f[k] = IF k = 0 THEN b
                   ELSE CustomAction(p, f[k - 1], custom[k], CalloutRef("callout", n, k))
        BY <4>1, <2>1 DEF Customizing
      <4>3. g[k] = f[k] /\ (k # 0 => g[k - 1] = f[k - 1])
        BY <4>1
      <4>4. QED BY <4>2, <4>3
    <3>3. QED BY <3>1, <3>2
  <2>3. Customizing(p, b, custom, n, g, m + 1)
    <3>1. g = [k \in 0..(m + 1) |-> g[k]]
      OBVIOUS
    <3> HIDE DEF g
    <3>2. QED BY <2>2, <3>1 DEF Customizing
  <2>4. QED BY <2>3
<1>3. QED
  <2> HIDE DEF S
  <2>1. Nat \subseteq S BY <1>1, <1>2, NatInd
  <2>2. QED BY <2>1 DEF S

\* What is revealed stays revealed.
LEMMA StaysRevealed ==
    ASSUME NEW p, NEW b, NEW d, b.revealed \subseteq d.revealed, NEW t, IsRevealed(p, b, t)
    PROVE  IsRevealed(p, d, t)
BY DEF IsRevealed

LEMMA GoesReveals ==
    ASSUME NEW p, NEW h, NEW b, NEW d, NEW C, Goes(p, h, b, d, C), NEW t, IsRevealed(p, b, t)
    PROVE  IsRevealed(p, d, t)
BY StaysRevealed DEF Goes, Plays

LEMMA WholeRevealed ==
    ASSUME NEW p, NEW b, NEW ref, IsRevealed(p, b, Whole(ref))
    PROVE  Whole(ref) \in b.revealed
BY WholeParts DEF IsRevealed

\* All that a list of actions asks to reveal is revealed.
AllShown(p, d, custom, n) ==
    \A k \in 1..n : custom[k].kind = "reveal" =>
        \A t \in Range(custom[k].targets) : IsRevealed(p, d, t)

LEMMA CustomReveals ==
    ASSUME NEW p, NEW h, NEW b, Agree(p, h, b), NEW a, CustomAllowed(p, a), a.kind = "reveal", NEW ref
    PROVE  \A t \in Range(a.targets) : IsRevealed(p, CustomAction(p, b, a, ref), t)
<1>1. \A t \in Range(a.targets) : IsRevealed(p, RevealUnrevealed(p, b, a.targets, a.mode), t)
  BY NamedRevealed DEF CustomAllowed
<1>2. QED BY <1>1 DEF CustomAction

LEMMA CustomInTurn ==
    ASSUME NEW p, NEW h, NEW b, Agree(p, h, b), NEW n,
           Listed(p.beats[n].custom), \A a \in Range(p.beats[n].custom) : CustomAllowed(p, a)
    PROVE  /\ Goes(p, h, b, CustomActions(p, b, n), {})
           /\ \A a \in Range(p.beats[n].custom) : a.kind = "reveal" =>
                 \A t \in Range(a.targets) : IsRevealed(p, CustomActions(p, b, n), t)
<1> DEFINE c == p.beats[n].custom
           f == CHOOSE f : Customizing(p, b, c, n, f, Len(c))
<1>0. /\ Len(c) \in Nat /\ \A k \in 1..Len(c) : CustomAllowed(p, c[k])
      /\ \A a \in Range(c) : \E k \in 1..Len(c) : c[k] = a
  BY ListPlaces
<1>1. Customizing(p, b, c, n, f, Len(c))
  BY <1>0, CustomizingExists
<1>2. CustomActions(p, b, n) = f[Len(c)]
  BY DEF CustomActions, Customizing
<1> HIDE DEF f, c
<1>3. \A k \in 0..Len(c) :
         f[k] = IF k = 0 THEN b ELSE CustomAction(p, f[k - 1], c[k], CalloutRef("callout", n, k))
  BY <1>1 DEF Customizing
<1> DEFINE S == {m \in Nat : m <= Len(c) => Goes(p, h, b, f[m], {}) /\ AllShown(p, f[m], c, m)}
<1>4. 0 \in S
  <2>1. 0 \in 0..Len(c)
    BY <1>0
  <2>2. f[0] = b
    BY <1>3, <2>1
  <2>3. Goes(p, h, b, b, {})
    BY GoesNowhere
  <2>4. AllShown(p, b, c, 0)
    BY DEF AllShown
  <2>5. QED BY <2>2, <2>3, <2>4
<1>5. ASSUME NEW m \in Nat, m \in S PROVE m + 1 \in S
  <2>1. SUFFICES ASSUME m + 1 <= Len(c)
                 PROVE Goes(p, h, b, f[m + 1], {}) /\ AllShown(p, f[m + 1], c, m + 1)
    OBVIOUS
  <2>2. Goes(p, h, b, f[m], {}) /\ AllShown(p, f[m], c, m)
    BY <1>0, <1>5, <2>1
  <2> HIDE DEF S
  <2> DEFINE ref == CalloutRef("callout", n, m + 1)
  <2>3. m + 1 \in 0..Len(c) /\ m + 1 # 0 /\ (m + 1) - 1 = m /\ m + 1 \in 1..Len(c)
    BY <1>0, <2>1
  <2>4. f[m + 1] = CustomAction(p, f[m], c[m + 1], ref)
    BY <1>3, <2>3
  <2>5. Agree(p, h, f[m]) /\ CustomAllowed(p, c[m + 1])
    BY <1>0, <2>2, <2>3, GoesAgree
  <2>6. Goes(p, h, f[m], CustomAction(p, f[m], c[m + 1], ref), {})
    BY <2>5, CustomActed
  <2>7. Goes(p, h, b, f[m + 1], {})
    BY <2>2, <2>4, <2>6, GoesOn
  <2>8. c[m + 1].kind = "reveal" =>
           \A t \in Range(c[m + 1].targets) : IsRevealed(p, f[m + 1], t)
    BY <2>4, <2>5, CustomReveals
  <2>9. ASSUME NEW t, IsRevealed(p, f[m], t) PROVE IsRevealed(p, f[m + 1], t)
    BY <2>4, <2>6, <2>9, GoesReveals
  <2>10. ASSUME NEW k \in 1..(m + 1), c[k].kind = "reveal", NEW t \in Range(c[k].targets)
         PROVE  IsRevealed(p, f[m + 1], t)
    <3>1. CASE k = m + 1
      BY <2>8, <2>10, <3>1
    <3>2. CASE k # m + 1
      <4>1. k \in 1..m
        BY <3>2
      <4>2. IsRevealed(p, f[m], t)
        BY <2>2, <2>10, <4>1 DEF AllShown
      <4>3. QED BY <2>9, <4>2
    <3>3. QED BY <3>1, <3>2
  <2>11. QED BY <2>7, <2>10 DEF AllShown
<1>6. Len(c) \in S
  <2> HIDE DEF S
  <2>1. QED BY <1>0, <1>4, <1>5, NatInd
<1>7. Goes(p, h, b, f[Len(c)], {}) /\ AllShown(p, f[Len(c)], c, Len(c))
  BY <1>0, <1>6
<1>8. \A a \in Range(c) : a.kind = "reveal" =>
         \A t \in Range(a.targets) : IsRevealed(p, f[Len(c)], t)
  BY <1>0, <1>7 DEF AllShown
<1>9. QED BY <1>2, <1>7, <1>8 DEF c

-----------------------------------------------------------------------------
(* What an admitted plan gives the expander.                                *)

LEMMA RefsOfVisuals ==
    ASSUME NEW p, Listed(p.supporting)
    PROVE  /\ Listed(Visuals(p))
           /\ Range(Visuals(p)) = {p.primary} \cup Range(p.supporting)
           /\ p.primary.ref \in Refs(p)
           /\ \A v \in Range(p.supporting) : v.ref \in Refs(p)
<1>1. Listed(<<p.primary>>) /\ Range(<<p.primary>>) = {p.primary}
  BY ListOfOne
<1>2. Listed(<<p.primary>> \o p.supporting)
  BY <1>1, JoinedLists
<1>3. Range(<<p.primary>> \o p.supporting) = {p.primary} \cup Range(p.supporting)
  BY <1>1, JoinedRange
<1>4. Visuals(p) = <<p.primary>> \o p.supporting
  BY DEF Visuals
<1>5. Listed(Visuals(p)) /\ Range(Visuals(p)) = {p.primary} \cup Range(p.supporting)
  BY <1>2, <1>3, <1>4
<1>6. QED BY <1>5 DEF Refs

\* The beats of the document, and what the compiler has checked of their targets.
LEMMA BeatsOfPlan ==
    ASSUME NEW p, ValidDocument(p), ValidTargets(p)
    PROVE  /\ Listed(p.beats) /\ Len(p.beats) \in 3..5 /\ DOMAIN p.beats = 1..Len(p.beats)
           /\ \A n \in DOMAIN p.beats :
                 /\ ValidBeat(p.beats[n])
                 /\ p.beats[n] \in Range(p.beats)
                 /\ \A t \in Range(p.beats[n].targets) : ValidTarget(p, t)
                 /\ \A a \in Range(p.beats[n].custom) : ValidAction(p, a)
           /\ UnitStrategy(p) =>
                 \A n \in DOMAIN p.beats : \A t \in AllTargets(p.beats[n]) : t.part # "target_label"
<1>1. Listed(p.beats) /\ Len(p.beats) \in 3..5
  BY DEF ValidDocument
<1>2. DOMAIN p.beats = 1..Len(p.beats) /\ \A n \in DOMAIN p.beats : p.beats[n] \in Range(p.beats)
  BY <1>1, ListPlaces
<1>3. \A beat \in Range(p.beats) : ValidBeat(beat)
  BY DEF ValidDocument
<1>4. \A beat \in Range(p.beats) :
          /\ \A t \in Range(beat.targets) : ValidTarget(p, t)
          /\ \A a \in Range(beat.custom) : ValidAction(p, a)
  BY DEF ValidTargets
<1>5. UnitSubstitutionShape(p)
  BY DEF ValidDocument
<1>6. UnitStrategy(p) =>
         \A beat \in Range(p.beats) : \A t \in AllTargets(beat) : t.part # "target_label"
  BY <1>5 DEF UnitSubstitutionShape, UnitStrategy
<1>7. QED BY <1>1, <1>2, <1>3, <1>4, <1>6

\* A plan of the right shape: what the walks and the author's actions need of it.
Admitted(p, goal) ==
    /\ ValidDocument(p)
    /\ ValidTargets(p)
    /\ Compatible(p, goal)

LEMMA TargetsNameable ==
    ASSUME NEW p, NEW goal, Admitted(p, goal), NEW n \in DOMAIN p.beats
    PROVE  /\ Listed(p.beats[n].targets)
           /\ \A t \in Range(p.beats[n].targets) : Nameable(p, t)
           /\ Clean(p) => NamesOnce(p, p.beats[n].targets)
<1>1. ValidBeat(p.beats[n]) /\ p.beats[n] \in Range(p.beats)
  BY BeatsOfPlan DEF Admitted
<1>2. Listed(p.beats[n].targets)
  BY <1>1 DEF ValidBeat
<1>3. ASSUME NEW t \in Range(p.beats[n].targets) PROVE Nameable(p, t)
  <2>1. t \in AllTargets(p.beats[n])
    BY DEF AllTargets
  <2>2. IsTarget(t)
    BY <1>1, <2>1 DEF ValidBeat
  <2>3. t.visual \in Refs(p)
    <3>1. ValidTarget(p, t)
      BY BeatsOfPlan DEF Admitted
    <3>2. QED BY <3>1 DEF ValidTarget
  <2>4. UnitStrategy(p) => t.part # "target_label"
    BY <2>1, BeatsOfPlan DEF Admitted
  <2>5. QED BY <2>2, <2>3, <2>4 DEF Nameable
<1>4. Clean(p) => NamesOnce(p, p.beats[n].targets)
  BY <1>1 DEF Clean
<1>5. QED BY <1>2, <1>3, <1>4

LEMMA CustomIsAllowed ==
    ASSUME NEW p, NEW goal, Admitted(p, goal), NEW n \in DOMAIN p.beats
    PROVE  /\ Listed(p.beats[n].custom)
           /\ \A a \in Range(p.beats[n].custom) : CustomAllowed(p, a)
<1>1. ValidBeat(p.beats[n]) /\ p.beats[n] \in Range(p.beats)
  BY BeatsOfPlan DEF Admitted
<1>2. Listed(p.beats[n].custom)
  BY <1>1 DEF ValidBeat
<1>3. ASSUME NEW a \in Range(p.beats[n].custom) PROVE CustomAllowed(p, a)
  <2>1. ASSUME NEW t \in TargetsOf(a) PROVE Nameable(p, t)
    <3>1. t \in AllTargets(p.beats[n])
      BY DEF AllTargets
    <3>2. IsTarget(t)
      BY <1>1, <3>1 DEF ValidBeat
    <3>3. t.visual \in Refs(p)
      <4>1. ValidAction(p, a)
        BY BeatsOfPlan DEF Admitted
      <4>2. ValidTarget(p, t)
        BY <4>1 DEF ValidAction
      <4>3. QED BY <4>2 DEF ValidTarget
    <3>4. UnitStrategy(p) => t.part # "target_label"
      BY <3>1, BeatsOfPlan DEF Admitted
    <3>5. QED BY <3>2, <3>3, <3>4 DEF Nameable
  <2>2. a.kind \in CustomKinds /\ (a.kind = "reveal" => Listed(a.targets))
    BY <1>1 DEF ValidBeat
  <2>3. a.kind = "reveal" => \A t \in Range(a.targets) : Nameable(p, t)
    BY <2>1 DEF TargetsOf
  <2>4. Clean(p) => (a.kind = "reveal" => NamesOnce(p, a.targets))
    BY <1>1 DEF Clean
  <2>5. a.kind \in {"emphasize", "dim", "restore"} => Nameable(p, a.target)
    BY <2>1 DEF TargetsOf
  <2>6. (a.kind = "trace" /\ a.path = OwnPath(p)) => TraceBeat(p) = None
    BY <1>1 DEF TraceBeat
  <2>7. QED BY <2>2, <2>3, <2>4, <2>5, <2>6 DEF CustomAllowed
<1>4. QED BY <1>2, <1>3

-----------------------------------------------------------------------------
(* The kinds that carry a strategy, and the numbers on a visual.            *)

LEMMA StrategyKinds ==
    ASSUME NEW p, NEW goal, Admitted(p, goal)
    PROVE  /\ p.strategy = "regroup" => p.primary.kind \in {"grid", "object_set"}
           /\ p.strategy = "magnitude_comparison" => p.primary.kind \in {"bar", "number_line"}
           /\ p.strategy \in {"signed_hop", "distance_from_zero", "ray_shade"} =>
                 p.primary.kind = "number_line"
           /\ p.strategy \in {"inverse_operation", "percent_of_whole", "percent_change"} =>
                 p.primary.kind = "bar"
           /\ p.strategy \in {"equivalence_align", "common_denominator_bridge"} =>
                 p.primary.kind = "partition"
           /\ UnitStrategy(p) => p.primary.kind = "unit_tape"
           /\ p.strategy = "rotation" => p.primary.kind = "coordinate_plane"
           /\ p.strategy = "pair_elimination" => p.primary.kind = "ordered_values"
<1> DEFINE k == p.primary.kind
           s == p.strategy
<1>1. s \in SupportedStrategies[k]
  BY DEF Admitted, Compatible
<1>2. k \in DOMAIN SupportedStrategies
  <2>1. Listed(p.supporting) /\ \A v \in Range(Visuals(p)) : ValidVisual(v)
    BY DEF Admitted, ValidDocument
  <2>2. p.primary \in Range(Visuals(p))
    BY <2>1, RefsOfVisuals
  <2>3. QED BY <2>1, <2>2 DEF ValidVisual
<1> HIDE DEF k, s
<1>3. k \in {"ordered_values", "rectangle_measurement", "number_line", "grid", "object_set",
             "partition", "bar", "label", "unit_tape", "coordinate_plane", "data_display"}
  BY <1>2 DEF SupportedStrategies
<1>4. /\ s = "regroup" => k \in {"grid", "object_set"}
      /\ s = "magnitude_comparison" => k \in {"bar", "number_line"}
      /\ s \in {"signed_hop", "distance_from_zero", "ray_shade"} => k = "number_line"
      /\ s \in {"inverse_operation", "percent_of_whole", "percent_change"} => k = "bar"
      /\ s \in {"equivalence_align", "common_denominator_bridge"} => k = "partition"
      /\ s \in {"unit_substitution", "unit_rate"} => k = "unit_tape"
      /\ s = "rotation" => k = "coordinate_plane"
      /\ s = "pair_elimination" => k = "ordered_values"
  BY <1>1, <1>3 DEF SupportedStrategies
<1>5. QED BY <1>4 DEF k, s, UnitStrategy

LEMMA VisualsAreValid ==
    ASSUME NEW p, NEW goal, Admitted(p, goal), NEW v, v \in {p.primary} \cup Range(p.supporting)
    PROVE  ValidVisual(v) /\ \A x \in VisualExpressions(v) \ {None} : ValidExpression(x)
<1>1. Listed(p.supporting)
  BY DEF Admitted, ValidDocument
<1>2. v \in Range(Visuals(p))
  BY <1>1, RefsOfVisuals
<1>3. QED BY <1>2 DEF Admitted, ValidDocument

\* A literal that is whole is an integer.
LEMMA WholeLiteral ==
    ASSUME NEW x, LiteralInteger(x) # None, x # None => ValidExpression(x)
    PROVE  LiteralInteger(x) \in Int
<1>1. IsLiteral(x)
  BY DEF LiteralInteger
<1>2. x.value \in Int \X (Nat \ {0})
  BY <1>1 DEF ValidExpression, IsLiteral
<1>3. x.value[1] \in Int
  BY <1>2
<1>4. QED BY <1>3 DEF LiteralInteger

LEMMA FieldExpressions ==
    ASSUME NEW v, ValidVisual(v), \A x \in VisualExpressions(v) \ {None} : ValidExpression(x)
    PROVE  /\ v.kind = "grid" => \A x \in {v.rows, v.columns} : x # None => ValidExpression(x)
           /\ v.kind = "object_set" => (v.count # None => ValidExpression(v.count))
           /\ v.kind = "partition" =>
                 \A x \in {v.whole, v.parts, v.shaded} : x # None => ValidExpression(x)
           /\ v.kind = "bar" =>
                 \A x \in {v.value, v.maximum, v.constant, v.coefficient} : x # None => ValidExpression(x)
<1> DEFINE F == {"length", "width", "minimum", "maximum", "boundary", "rows", "columns", "whole", "parts",
                 "shaded", "value", "constant", "coefficient", "count", "per_unit", "axis_min", "axis_max"}
<1>1. \A field \in DOMAIN v \cap F : v[field] \in VisualExpressions(v)
  BY DEF VisualExpressions
<1>2. \A field \in DOMAIN v \cap F : v[field] # None => ValidExpression(v[field])
  BY <1>1
<1>3. v.kind = "grid" => {"rows", "columns"} \subseteq DOMAIN v \cap F
  BY DEF ValidVisual, GridVisual, HasFields
<1>4. v.kind = "object_set" => {"count"} \subseteq DOMAIN v \cap F
  BY DEF ValidVisual, ObjectSetVisual, HasFields
<1>5. v.kind = "partition" => {"whole", "parts", "shaded"} \subseteq DOMAIN v \cap F
  BY DEF ValidVisual, PartitionVisual, HasFields
<1>6. v.kind = "bar" => {"value", "maximum", "constant", "coefficient"} \subseteq DOMAIN v \cap F
  BY DEF ValidVisual, BarVisual, HasFields
<1> HIDE DEF F
<1>7. QED BY <1>2, <1>3, <1>4, <1>5, <1>6

-----------------------------------------------------------------------------
(* The selectors.                                                           *)

\* An id that a beat before the conclusion carries.
Worked(p, id) ==
    \E m \in DOMAIN p.beats : p.beats[m].id = id /\ p.beats[m].kind \in {"organize", "focus", "derive"}

LEMMA EarliestOf ==
    ASSUME NEW p, Listed(p.beats), NEW T, T \subseteq DOMAIN p.beats, T # {}
    PROVE  Min(T) \in T
<1>1. T \subseteq Nat
  BY ListPlaces
<1>2. QED BY <1>1, MinOfPlaces

LEMMA LatestOf ==
    ASSUME NEW p, Listed(p.beats), NEW T, T \subseteq DOMAIN p.beats, T # {}
    PROVE  Max(T) \in T
BY ListPlaces, MaxOfPlaces

\* The first of some beats that work.
LEMMA FirstWorked ==
    ASSUME NEW p, Listed(p.beats), NEW T, T \subseteq DOMAIN p.beats, T # {},
           \A b \in T : p.beats[b].kind \in {"organize", "focus", "derive"},
           NEW id, id = p.beats[Min(T)].id
    PROVE  Worked(p, id)
<1>1. Min(T) \in T
  BY EarliestOf
<1>2. Min(T) \in DOMAIN p.beats /\ p.beats[Min(T)].kind \in {"organize", "focus", "derive"}
  BY <1>1
<1>3. QED BY <1>2 DEF Worked

LEMMA RegroupSelected ==
    ASSUME NEW p, Listed(p.beats), RegroupBeat(p) # None
    PROVE  p.strategy = "regroup" /\ Worked(p, RegroupBeat(p))
<1> DEFINE T == {b \in DOMAIN p.beats : p.beats[b].kind = "organize" /\ Names(p.beats[b], p.primary.ref)}
<1>1. p.strategy = "regroup" /\ T # {} /\ RegroupBeat(p) = p.beats[Min(T)].id
  BY DEF RegroupBeat, FirstBeat, BeatsThat
<1>2. T \subseteq DOMAIN p.beats /\ \A b \in T : p.beats[b].kind \in {"organize", "focus", "derive"}
  OBVIOUS
<1> HIDE DEF T
<1>3. QED BY <1>1, <1>2, FirstWorked

LEMMA MagnitudeSelected ==
    ASSUME NEW p, Listed(p.beats), MagnitudeBeat(p) # None
    PROVE  p.strategy = "magnitude_comparison" /\ Worked(p, MagnitudeBeat(p))
<1> DEFINE T == {b \in DOMAIN p.beats : Works(p.beats[b]) /\ Names(p.beats[b], p.primary.ref)}
<1>1. p.strategy = "magnitude_comparison" /\ T # {} /\ MagnitudeBeat(p) = p.beats[Min(T)].id
  BY DEF MagnitudeBeat, FirstBeat, BeatsThat
<1>2. T \subseteq DOMAIN p.beats /\ \A b \in T : p.beats[b].kind \in {"organize", "focus", "derive"}
  BY DEF Works
<1> HIDE DEF T
<1>3. QED BY <1>1, <1>2, FirstWorked

LEMMA PercentSelected ==
    ASSUME NEW p, Listed(p.beats), PercentBeat(p) # None
    PROVE  p.strategy \in {"percent_of_whole", "percent_change"} /\ Worked(p, PercentBeat(p))
<1> DEFINE T == {b \in DOMAIN p.beats : Works(p.beats[b]) /\ Names(p.beats[b], SweptRef(p))}
<1>1. /\ p.strategy \in {"percent_of_whole", "percent_change"}
      /\ T # {} /\ PercentBeat(p) = p.beats[Min(T)].id
  BY DEF PercentBeat, FirstBeat, BeatsThat
<1>2. T \subseteq DOMAIN p.beats /\ \A b \in T : p.beats[b].kind \in {"organize", "focus", "derive"}
  BY DEF Works
<1> HIDE DEF T
<1>3. QED BY <1>1, <1>2, FirstWorked

LEMMA HopSelected ==
    ASSUME NEW p, Listed(p.beats), HopBeat(p) # None
    PROVE  p.strategy = "signed_hop" /\ Worked(p, HopBeat(p))
<1> DEFINE T == {b \in DOMAIN p.beats : Works(p.beats[b]) /\ NamesWhole(p.beats[b], p.primary.ref)}
<1>1. p.strategy = "signed_hop" /\ T # {} /\ HopBeat(p) = p.beats[Min(T)].id
  BY DEF HopBeat, FirstBeat, BeatsThat
<1>2. T \subseteq DOMAIN p.beats /\ \A b \in T : p.beats[b].kind \in {"organize", "focus", "derive"}
  BY DEF Works
<1> HIDE DEF T
<1>3. QED BY <1>1, <1>2, FirstWorked

LEMMA DistanceSelected ==
    ASSUME NEW p, Listed(p.beats), DistanceBeat(p) # None
    PROVE  p.strategy = "distance_from_zero" /\ Worked(p, DistanceBeat(p))
<1> DEFINE T == {b \in DOMAIN p.beats : p.beats[b].kind = "derive" /\ NamesWhole(p.beats[b], p.primary.ref)}
           U == {b \in DOMAIN p.beats : p.beats[b].kind = "focus" /\ NamesWhole(p.beats[b], p.primary.ref)}
           t == IF T = {} THEN None ELSE p.beats[Min(T)].id
           u == IF U = {} THEN None ELSE p.beats[Min(U)].id
<1>1. p.strategy = "distance_from_zero" /\ (DistanceBeat(p) = t \/ DistanceBeat(p) = u)
  <2>1. p.strategy = "distance_from_zero"
    BY DEF DistanceBeat
  <2>2. /\ FirstBeat(p, LAMBDA b : b.kind = "derive" /\ NamesWhole(b, p.primary.ref)) = t
        /\ FirstBeat(p, LAMBDA b : b.kind = "focus" /\ NamesWhole(b, p.primary.ref)) = u
    BY DEF FirstBeat, BeatsThat
  <2> HIDE DEF t, u
  <2>3. QED BY <2>1, <2>2 DEF DistanceBeat
<1>2. /\ T \subseteq DOMAIN p.beats /\ \A b \in T : p.beats[b].kind \in {"organize", "focus", "derive"}
      /\ U \subseteq DOMAIN p.beats /\ \A b \in U : p.beats[b].kind \in {"organize", "focus", "derive"}
  OBVIOUS
<1> HIDE DEF T, U
<1>3. (t # None => Worked(p, t)) /\ (u # None => Worked(p, u))
  <2>1. (T # {} => Worked(p, p.beats[Min(T)].id)) /\ (U # {} => Worked(p, p.beats[Min(U)].id))
    BY <1>2, FirstWorked
  <2>2. QED BY <2>1
<1> HIDE DEF t, u
<1>4. QED BY <1>1, <1>3

LEMMA AlignSelected ==
    ASSUME NEW p, Listed(p.beats), AlignBeat(p) # None
    PROVE  p.strategy = "equivalence_align" /\ Worked(p, AlignBeat(p))
<1> DEFINE s == Supporting(p, "partition")
           T == {b \in DOMAIN p.beats : /\ Works(p.beats[b])
                                        /\ Names(p.beats[b], p.primary.ref)
                                        /\ Names(p.beats[b], s[1].ref)}
<1>1. p.strategy = "equivalence_align" /\ T # {} /\ AlignBeat(p) = p.beats[Min(T)].id
  BY DEF AlignBeat, FirstBeat, BeatsThat
<1>2. T \subseteq DOMAIN p.beats /\ \A b \in T : p.beats[b].kind \in {"organize", "focus", "derive"}
  BY DEF Works
<1> HIDE DEF T
<1>3. QED BY <1>1, <1>2, FirstWorked

LEMMA BridgeSelected ==
    ASSUME NEW p, Listed(p.beats), BridgeBeat(p) # None
    PROVE  p.strategy = "common_denominator_bridge" /\ Worked(p, BridgeBeat(p))
<1> DEFINE s == Supporting(p, "partition")
           T == {b \in DOMAIN p.beats : Works(p.beats[b]) /\ Names(p.beats[b], s[4].ref)}
<1>1. p.strategy = "common_denominator_bridge" /\ T # {} /\ BridgeBeat(p) = p.beats[Min(T)].id
  BY DEF BridgeBeat, FirstBeat, BeatsThat
<1>2. T \subseteq DOMAIN p.beats /\ \A b \in T : p.beats[b].kind \in {"organize", "focus", "derive"}
  BY DEF Works
<1> HIDE DEF T
<1>3. QED BY <1>1, <1>2, FirstWorked

LEMMA RotationSelected ==
    ASSUME NEW p, Listed(p.beats), RotationBeat(p) # None
    PROVE  p.strategy = "rotation" /\ Worked(p, RotationBeat(p))
<1> DEFINE T == {b \in DOMAIN p.beats : Works(p.beats[b])}
<1>1. p.strategy = "rotation" /\ T # {} /\ RotationBeat(p) = p.beats[Min(T)].id
  BY DEF RotationBeat, FirstBeat, BeatsThat
<1>2. T \subseteq DOMAIN p.beats /\ \A b \in T : p.beats[b].kind \in {"organize", "focus", "derive"}
  BY DEF Works
<1> HIDE DEF T
<1>3. QED BY <1>1, <1>2, FirstWorked

LEMMA PairSelected ==
    ASSUME NEW p, Listed(p.beats), NEW s
    PROVE  /\ StagedPair(p, s)[1] # None => p.strategy = s /\ Worked(p, StagedPair(p, s)[1])
           /\ StagedPair(p, s)[2] # None => p.strategy = s /\ Worked(p, StagedPair(p, s)[2])
<1> DEFINE T == {b \in DOMAIN p.beats : Works(p.beats[b]) /\ Names(p.beats[b], p.primary.ref)}
           U == {b \in T : \E c \in T : c < b}
<1>1. StagedPair(p, s)[1] # None => p.strategy = s /\ T # {} /\ StagedPair(p, s)[1] = p.beats[Min(T)].id
  BY DEF StagedPair, BeatsThat
<1>2. StagedPair(p, s)[2] # None => p.strategy = s /\ U # {} /\ StagedPair(p, s)[2] = p.beats[Min(U)].id
  BY DEF StagedPair, BeatsThat
<1>3. /\ T \subseteq DOMAIN p.beats /\ \A b \in T : p.beats[b].kind \in {"organize", "focus", "derive"}
      /\ U \subseteq DOMAIN p.beats /\ \A b \in U : p.beats[b].kind \in {"organize", "focus", "derive"}
  BY DEF Works
<1> HIDE DEF T, U
<1>4. (T # {} => Worked(p, p.beats[Min(T)].id)) /\ (U # {} => Worked(p, p.beats[Min(U)].id))
  BY <1>3, FirstWorked
<1>5. QED BY <1>1, <1>2, <1>4

LEMMA TraceSelected ==
    ASSUME NEW p, Listed(p.beats), TraceBeat(p) # None
    PROVE  p.strategy = "boundary_trace" /\ Worked(p, TraceBeat(p))
<1> DEFINE T == {b \in DOMAIN p.beats : p.beats[b].kind \in {"organize", "derive", "focus"}}
<1>1. p.strategy = "boundary_trace" /\ T # {} /\ TraceBeat(p) = p.beats[Min(T)].id
  BY DEF TraceBeat, FirstBeat, BeatsThat
<1>2. T \subseteq DOMAIN p.beats /\ \A b \in T : p.beats[b].kind \in {"organize", "focus", "derive"}
  OBVIOUS
<1> HIDE DEF T
<1>3. QED BY <1>1, <1>2, FirstWorked

\* The beat of the labels finds the tape on screen.
OnScreenAt(p, n) ==
    /\ p.beats[n].kind \in {"organize", "focus", "derive"}
    /\ \/ NamesWhole(p.beats[n], p.primary.ref)
       \/ \E j \in 1..(n - 1) : RevealsWhole(p.beats[j], p.primary.ref)

LEMMA LabelSelected ==
    ASSUME NEW p, Listed(p.beats), LabelBeat(p) # None
    PROVE  /\ UnitStrategy(p) /\ Worked(p, LabelBeat(p))
           /\ \E n \in DOMAIN p.beats : p.beats[n].id = LabelBeat(p) /\ OnScreenAt(p, n)
<1> DEFINE X == TapeBeats(p)
           T == {b \in DOMAIN p.beats : p.beats[b].kind = "derive" /\ p.beats[b].id \in X}
           U == {b \in DOMAIN p.beats : p.beats[b].kind = "organize" /\ p.beats[b].id \in X}
           V == {b \in DOMAIN p.beats : p.beats[b].kind = "focus" /\ p.beats[b].id \in X}
           t == IF T = {} THEN None ELSE p.beats[Min(T)].id
           u == IF U = {} THEN None ELSE p.beats[Min(U)].id
           v == IF V = {} THEN None ELSE p.beats[Min(V)].id
<1>1. UnitStrategy(p) /\ (LabelBeat(p) = t \/ LabelBeat(p) = u \/ LabelBeat(p) = v)
  <2>1. UnitStrategy(p)
    BY DEF LabelBeat, UnitStrategy
  <2>2. /\ FirstBeat(p, LAMBDA b : b.kind = "derive" /\ b.id \in TapeBeats(p)) = t
        /\ FirstBeat(p, LAMBDA b : b.kind = "organize" /\ b.id \in TapeBeats(p)) = u
        /\ FirstBeat(p, LAMBDA b : b.kind = "focus" /\ b.id \in TapeBeats(p)) = v
    BY DEF FirstBeat, BeatsThat
  <2> HIDE DEF t, u, v
  <2>3. QED BY <2>1, <2>2 DEF LabelBeat
<1> HIDE DEF X
<1>2. /\ T # {} => Min(T) \in T
      /\ U # {} => Min(U) \in U
      /\ V # {} => Min(V) \in V
  <2>1. T \subseteq DOMAIN p.beats /\ U \subseteq DOMAIN p.beats /\ V \subseteq DOMAIN p.beats
    OBVIOUS
  <2> HIDE DEF T, U, V
  <2>2. QED BY <2>1, EarliestOf
<1>3. \E n \in DOMAIN p.beats :
         /\ p.beats[n].id = LabelBeat(p) /\ p.beats[n].id \in X
         /\ p.beats[n].kind \in {"organize", "focus", "derive"}
  <2>1. CASE LabelBeat(p) = t
    BY <1>2, <2>1
  <2>2. CASE LabelBeat(p) = u
    BY <1>2, <2>2
  <2>3. CASE LabelBeat(p) = v
    BY <1>2, <2>3
  <2> HIDE DEF T, U, V, t, u, v
  <2>4. QED BY <1>1, <2>1, <2>2, <2>3
<1>4. LabelBeat(p) \in X
  BY <1>3
<1>5. \E n \in DOMAIN p.beats : p.beats[n].id = LabelBeat(p) /\ OnScreenAt(p, n)
  BY <1>4 DEF X, TapeBeats, OnScreenAt
<1>6. Worked(p, LabelBeat(p))
  <2> HIDE DEF T, U, V, t, u, v
  <2>1. QED BY <1>3 DEF Worked
<1>7. QED BY <1>1, <1>5, <1>6

LEMMA WorkSelected ==
    ASSUME NEW p, NEW goal, Listed(p.beats), BeatOrder(p), WorkBeat(p, goal) # None
    PROVE  Declared(p) /\ HasOperation(goal) /\ Worked(p, WorkBeat(p, goal))
<1> DEFINE T == {b \in DOMAIN p.beats : Works(p.beats[b])}
<1>1. Declared(p) /\ HasOperation(goal) /\ WorkBeat(p, goal) = p.beats[Max(T)].id
  BY DEF WorkBeat, BeatsThat
<1>2. T # {}
  <2>1. PICK b \in 1..(Len(p.beats) - 1) : Works(p.beats[b])
    BY DEF BeatOrder
  <2>2. Len(p.beats) \in Nat /\ DOMAIN p.beats = 1..Len(p.beats)
    BY ListPlaces
  <2>3. b \in DOMAIN p.beats
    BY <2>2
  <2>4. QED BY <2>1, <2>3
<1>3. Max(T) \in T
  BY <1>2, LatestOf
<1>4. QED BY <1>1, <1>3 DEF Worked, Works

\* With names of their own, only one beat carries an id.
LEMMA WorkedIsOne ==
    ASSUME NEW p, NEW n \in DOMAIN p.beats,
           \A b, c \in DOMAIN p.beats : b # c => p.beats[b].id # p.beats[c].id, Worked(p, p.beats[n].id)
    PROVE  p.beats[n].kind \in {"organize", "focus", "derive"}
BY DEF Worked

-----------------------------------------------------------------------------
(* The targets of the walks.                                                *)

AllColourable(p, targets) == Listed(targets) /\ \A t \in Range(targets) : Colourable(p, t)

LEMMA ChangedInTurn ==
    ASSUME NEW p, NEW h, NEW b, Agree(p, h, b), NEW targets, AllColourable(p, targets), NEW role
    PROVE  Goes(p, h, b, RoleChanges(p, b, targets, role), {})
BY RolesChangedInTurn DEF AllColourable

LEMMA IntListed ==
    ASSUME NEW n \in Int, NEW s, s = [k \in 1..n |-> s[k]]
    PROVE  Listed(s) /\ DOMAIN s = 1..n /\ \A x \in Range(s) : \E k \in 1..n : s[k] = x
<1>1. CASE n \in Nat
  <2>1. Listed(s) /\ Len(s) = n /\ DOMAIN s = 1..n
    BY <1>1, FunctionIsListed
  <2>2. QED BY <2>1, ListPlaces
<1>2. CASE n \notin Nat
  <2>1. 1..n = 1..0 /\ 0 \in Nat
    BY <1>2
  <2>2. s = [k \in 1..0 |-> s[k]]
    BY <2>1
  <2>3. Listed(s) /\ Len(s) = 0 /\ DOMAIN s = 1..0
    BY <2>1, <2>2, FunctionIsListed
  <2>4. QED BY <2>1, <2>3, ListPlaces
<1>3. QED BY <1>1, <1>2

LEMMA PartColourable ==
    ASSUME NEW p, NEW ref \in Refs(p), NEW part \in PartClasses, NEW k
    PROVE  Colourable(p, Part(ref, part, k))
<1>1. part # None
  BY PartsAssumption
<1>2. QED BY <1>1, PartTarget DEF Colourable, KnownRefs

LEMMA PartsColourable ==
    ASSUME NEW p, NEW ref \in Refs(p), NEW part \in PartClasses, NEW n \in Int, NEW s,
           s = [k \in 1..n |-> s[k]], \A k \in 1..n : \E i : s[k] = Part(ref, part, i)
    PROVE  AllColourable(p, s)
<1>1. Listed(s) /\ DOMAIN s = 1..n /\ \A x \in Range(s) : \E k \in 1..n : s[k] = x
  BY IntListed
<1>2. \A x \in Range(s) : \E i : x = Part(ref, part, i)
  BY <1>1
<1>3. \A x \in Range(s) : Colourable(p, x)
  BY <1>2, PartColourable
<1>4. QED BY <1>1, <1>3 DEF AllColourable

LEMMA PartsOfClass ==
    ASSUME NEW p, NEW ref \in Refs(p), NEW part \in PartClasses, NEW n \in Int
    PROVE  AllColourable(p, Parts(ref, part, n))
<1> DEFINE s == [k \in 1..n |-> Part(ref, part, k - 1)]
<1>1. s = [k \in 1..n |-> s[k]] /\ \A k \in 1..n : \E i : s[k] = Part(ref, part, i)
  OBVIOUS
<1>2. Parts(ref, part, n) = s
  BY DEF Parts
<1> HIDE DEF s
<1>3. QED BY <1>1, <1>2, PartsColourable

LEMMA KeptColourable ==
    ASSUME NEW p, NEW targets, AllColourable(p, targets), NEW places
    PROVE  AllColourable(p, Kept(targets, places))
<1>1. Listed(targets)
  BY DEF AllColourable
<1>2. Listed(Kept(targets, places))
  BY <1>1, KeptElements
<1>3. \A x \in Range(Kept(targets, places)) : x \in Range(targets)
  <2>1. ASSUME NEW x \in Range(Kept(targets, places)) PROVE x \in Range(targets)
    <3>1. \E k \in 1..Len(targets) : k \in places /\ targets[k] = x
      BY <1>1, KeptElements
    <3>2. QED BY <1>1, <3>1, ListPlaces
  <2>2. QED BY <2>1
<1>4. QED BY <1>2, <1>3 DEF AllColourable

LEMMA OneThenOthers ==
    ASSUME NEW p, NEW t, Colourable(p, t), NEW targets, AllColourable(p, targets)
    PROVE  AllColourable(p, <<t>> \o targets)
<1>1. Listed(<<t>>) /\ Range(<<t>>) = {t}
  BY ListOfOne
<1>2. Listed(targets)
  BY DEF AllColourable
<1>3. Listed(<<t>> \o targets) /\ Range(<<t>> \o targets) = {t} \cup Range(targets)
  BY <1>1, <1>2, JoinedLists, JoinedRange
<1>4. QED BY <1>3 DEF AllColourable

LEMMA UndetailedColourable ==
    ASSUME NEW p, NEW beat, AllColourable(p, beat.targets), NEW acted
    PROVE  AllColourable(p, Undetailed(beat, acted))
BY KeptColourable DEF Undetailed

\* The targets of several lists joined.
LEMMA FlattenElements ==
    ASSUME NEW ss, ListOfLists(ss)
    PROVE  /\ Listed(FlattenSeq(ss))
           /\ \A x \in Range(FlattenSeq(ss)) : \E b \in 1..Len(ss) : x \in Range(ss[b])
<1>1. PICK off : Offsets(ss, off)
  BY OffsetsExist
<1>2. /\ Listed(FlattenSeq(ss)) /\ Len(FlattenSeq(ss)) = off[Len(ss)]
      /\ \A b \in 1..Len(ss) : \A a \in 1..Len(ss[b]) : FlattenSeq(ss)[off[b - 1] + a] = ss[b][a]
  BY <1>1, FlattenRuns
<1>3. ASSUME NEW x \in Range(FlattenSeq(ss)) PROVE \E b \in 1..Len(ss) : x \in Range(ss[b])
  <2>1. PICK k \in 1..off[Len(ss)] : FlattenSeq(ss)[k] = x
    BY <1>2, ListPlaces
  <2>2. PICK b \in 1..Len(ss) : \E a \in 1..Len(ss[b]) : k = off[b - 1] + a
    BY <1>1, OffsetsCover
  <2>3. PICK a \in 1..Len(ss[b]) : k = off[b - 1] + a
    BY <2>2
  <2>4. x = ss[b][a] /\ Listed(ss[b])
    BY <1>2, <2>1, <2>3 DEF ListOfLists
  <2>5. x \in Range(ss[b])
    BY <2>4, ListPlaces
  <2>6. QED BY <2>5
<1>4. QED BY <1>2, <1>3

LEMMA ShadedColourable ==
    ASSUME NEW p, NEW vs, Listed(vs),
           \A v \in Range(vs) : v.ref \in Refs(p) /\ LiteralInteger(v.shaded) \in Int
    PROVE  AllColourable(p, Shaded(vs))
<1> DEFINE ss == [k \in DOMAIN vs |-> Parts(vs[k].ref, "partition", LiteralInteger(vs[k].shaded))]
<1>1. DOMAIN vs = 1..Len(vs) /\ Len(vs) \in Nat /\ \A k \in 1..Len(vs) : vs[k] \in Range(vs)
  BY ListPlaces
<1>2. "partition" \in PartClasses
  BY DEF PartClasses
<1>3. \A k \in 1..Len(vs) : AllColourable(p, ss[k])
  <2>1. ASSUME NEW k \in 1..Len(vs) PROVE AllColourable(p, ss[k])
    <3>1. vs[k].ref \in Refs(p) /\ LiteralInteger(vs[k].shaded) \in Int
      BY <1>1
    <3>2. ss[k] = Parts(vs[k].ref, "partition", LiteralInteger(vs[k].shaded))
      BY <1>1
    <3> HIDE DEF ss
    <3>3. QED BY <1>2, <3>1, <3>2, PartsOfClass
  <2>2. QED BY <2>1
<1>4. ss = [k \in 1..Len(vs) |-> ss[k]]
  BY <1>1
<1>5. Shaded(vs) = FlattenSeq(ss)
  BY DEF Shaded
<1> HIDE DEF ss
<1>6. Listed(ss) /\ Len(ss) = Len(vs)
  BY <1>1, <1>4, FunctionIsListed
<1>7. ListOfLists(ss)
  BY <1>3, <1>6 DEF ListOfLists, AllColourable
<1>8. /\ Listed(FlattenSeq(ss))
      /\ \A x \in Range(FlattenSeq(ss)) : \E b \in 1..Len(ss) : x \in Range(ss[b])
  BY <1>7, FlattenElements
<1>9. QED BY <1>3, <1>5, <1>6, <1>8 DEF AllColourable

-----------------------------------------------------------------------------
(* Every walk keeps the books.                                              *)

LEMMA PrimaryRef ==
    ASSUME NEW p, NEW goal, Admitted(p, goal)
    PROVE  /\ p.primary.ref \in Refs(p) /\ \A v \in Range(p.supporting) : v.ref \in Refs(p)
           /\ Listed(p.supporting) /\ Listed(p.beats)
BY RefsOfVisuals DEF Admitted, ValidDocument

LEMMA PrimaryFields ==
    ASSUME NEW p, NEW goal, Admitted(p, goal), NEW v, v \in {p.primary} \cup Range(p.supporting)
    PROVE  /\ v.kind = "grid" => \A x \in {v.rows, v.columns} : x # None => ValidExpression(x)
           /\ v.kind = "object_set" => (v.count # None => ValidExpression(v.count))
           /\ v.kind = "partition" =>
                 \A x \in {v.whole, v.parts, v.shaded} : x # None => ValidExpression(x)
           /\ v.kind = "bar" =>
                 \A x \in {v.value, v.maximum, v.constant, v.coefficient} : x # None => ValidExpression(x)
<1>1. ValidVisual(v) /\ \A x \in VisualExpressions(v) \ {None} : ValidExpression(x)
  BY VisualsAreValid
<1>2. QED BY <1>1, FieldExpressions

LEMMA RegroupWalked ==
    ASSUME NEW p, NEW goal, Admitted(p, goal), p.strategy = "regroup",
           NEW h, NEW b, Agree(p, h, b)
    PROVE  Goes(p, h, b, RegroupWalk(p, b), {})
<1> DEFINE v == p.primary
           n == RegroupCells(v)
           part == IF v.kind = "grid" THEN "cell" ELSE "item"
<1>1. IF v.kind = "grid" THEN Product(v.rows, v.columns) # None ELSE LiteralInteger(v.count) # None
  BY DEF Admitted, Compatible, RegroupCompatible
<1>2. v.kind \in {"grid", "object_set"}
  BY StrategyKinds
<1>3. ASSUME v.kind = "grid" PROVE n \in Int
  <2>1. LiteralInteger(v.rows) # None /\ LiteralInteger(v.columns) # None
        /\ Product(v.rows, v.columns) = LiteralInteger(v.rows) * LiteralInteger(v.columns)
    BY <1>1, <1>3 DEF Product
  <2>2. (v.rows # None => ValidExpression(v.rows)) /\ (v.columns # None => ValidExpression(v.columns))
    BY <1>3, PrimaryFields
  <2>3. LiteralInteger(v.rows) \in Int /\ LiteralInteger(v.columns) \in Int
    BY <2>1, <2>2, WholeLiteral
  <2> DEFINE x == LiteralInteger(v.rows)
             y == LiteralInteger(v.columns)
  <2>4. x \in Int /\ y \in Int /\ n \in {x * y, 0}
    BY <1>3, <2>1, <2>3 DEF RegroupCells
  <2> HIDE DEF x, y, n
  <2>5. QED BY <2>4
<1>4. ASSUME v.kind = "object_set" PROVE n \in Int
  <2>1. n = LiteralInteger(v.count) /\ LiteralInteger(v.count) # None
    BY <1>1, <1>4 DEF RegroupCells
  <2>2. v.count # None => ValidExpression(v.count)
    BY <1>4, PrimaryFields
  <2>3. QED BY <2>1, <2>2, WholeLiteral
<1>5. n \in Int
  BY <1>2, <1>3, <1>4
<1>6. part \in PartClasses
  BY DEF PartClasses
<1>7. RegroupWalk(p, b) = RoleChanges(p, b, Parts(v.ref, part, n), "constraint")
  BY DEF RegroupWalk
<1> HIDE DEF n, part
<1>8. AllColourable(p, Parts(v.ref, part, n))
  BY <1>5, <1>6, PrimaryRef, PartsOfClass
<1>9. QED BY <1>7, <1>8, ChangedInTurn

LEMMA MarkersListed ==
    ASSUME NEW p, NEW goal, Admitted(p, goal), p.primary.kind = "number_line"
    PROVE  Listed(p.primary.markers)
<1>1. ValidVisual(p.primary)
  BY VisualsAreValid
<1>2. QED BY <1>1 DEF ValidVisual, NumberLineVisual

LEMMA MagnitudeWalked ==
    ASSUME NEW p, NEW goal, Admitted(p, goal), p.strategy = "magnitude_comparison",
           NEW h, NEW b, Agree(p, h, b)
    PROVE  Goes(p, h, b, MagnitudeWalk(p, b), {})
<1> DEFINE v == p.primary
<1>1. v.kind \in {"bar", "number_line"} /\ v.ref \in Refs(p)
  BY StrategyKinds, PrimaryRef
<1>2. CASE v.kind = "bar"
  <2>1. LiteralInteger(v.value) # None
    BY <1>2 DEF Admitted, Compatible, MagnitudeCompatible
  <2>2. v.value # None => ValidExpression(v.value)
    BY <1>2, PrimaryFields
  <2>3. LiteralInteger(v.value) \in Int
    BY <2>1, <2>2, WholeLiteral
  <2>4. "segment" \in PartClasses
    BY DEF PartClasses
  <2>5. AllColourable(p, Parts(v.ref, "segment", LiteralInteger(v.value)))
    BY <1>1, <2>3, <2>4, PartsOfClass
  <2>6. MagnitudeWalk(p, b) =
           RoleChanges(p, b, Parts(v.ref, "segment", LiteralInteger(v.value)), "focus")
    BY <1>2 DEF MagnitudeWalk
  <2>7. QED BY <2>5, <2>6, ChangedInTurn
<1>3. CASE v.kind = "number_line"
  <2> DEFINE earlier(i, j) == LET q == v.markers[i].value
                                  r == v.markers[j].value
                              IN  Less(q, r) \/ (~Less(r, q) /\ i < j)
             rank(i) == Cardinality({j \in DOMAIN v.markers : earlier(j, i)}) + 1
             sorted == [k \in DOMAIN v.markers |-> CHOOSE i \in DOMAIN v.markers : rank(i) = k]
  <2>1. MagnitudeWalk(p, b) =
            RoleChanges(p, b, [k \in DOMAIN v.markers |-> Part(v.ref, "marker", sorted[k] - 1)], "focus")
    BY <1>3 DEF MagnitudeWalk
  <2> HIDE DEF sorted
  <2>2. Listed(v.markers)
    BY <1>3, MarkersListed
  <2>3. Len(v.markers) \in Int /\ DOMAIN v.markers = 1..Len(v.markers)
    BY <2>2, ListPlaces
  <2> DEFINE s == [k \in DOMAIN v.markers |-> Part(v.ref, "marker", sorted[k] - 1)]
  <2>4. s = [k \in 1..Len(v.markers) |-> s[k]]
        /\ \A k \in 1..Len(v.markers) : \E i : s[k] = Part(v.ref, "marker", i)
    BY <2>3
  <2>5. MagnitudeWalk(p, b) = RoleChanges(p, b, s, "focus")
    BY <2>1
  <2>6. "marker" \in PartClasses
    BY DEF PartClasses
  <2> HIDE DEF s
  <2>7. AllColourable(p, s)
    BY <1>1, <2>3, <2>4, <2>6, PartsColourable
  <2>8. QED BY <2>5, <2>7, ChangedInTurn
<1>4. QED BY <1>1, <1>2, <1>3

LEMMA PartitionWalked ==
    ASSUME NEW p, NEW goal, Admitted(p, goal), NEW h, NEW b, Agree(p, h, b)
    PROVE  Goes(p, h, b, PartitionWalk(p, b), {})
<1> DEFINE ref == p.primary.ref
           t == Part(ref, "constant_region", 0)
           u == Part(ref, "x_region", 0)
           d == RoleChange(p, b, t, "constraint")
<1>1. Colourable(p, t) /\ Colourable(p, u)
  BY PrimaryRef, PartColourable DEF PartClasses
<1>2. PartitionWalk(p, b) = d \/ PartitionWalk(p, b) = RoleChange(p, d, u, "focus")
  BY DEF PartitionWalk
<1>3. Goes(p, h, b, d, {})
  BY <1>1, RoleChanged
<1> HIDE DEF d, t, u
<1>4. Goes(p, h, d, RoleChange(p, d, u, "focus"), {})
  BY <1>1, <1>3, GoesAgree, RoleChanged
<1>5. Goes(p, h, b, RoleChange(p, d, u, "focus"), {})
  BY <1>3, <1>4, GoesOn
<1>6. QED BY <1>2, <1>3, <1>5

LEMMA DivideWalked ==
    ASSUME NEW p, NEW goal, Admitted(p, goal), p.strategy = "inverse_operation",
           NEW h, NEW b, Agree(p, h, b)
    PROVE  Goes(p, h, b, DivideWalk(p, b), {})
<1> DEFINE v == p.primary
           n == LiteralInteger(v.coefficient)
<1>1. n # None
  BY DEF Admitted, Compatible, InverseCompatible
<1>2. v.kind = "bar"
  BY StrategyKinds
<1>3. v.coefficient # None => ValidExpression(v.coefficient)
  BY <1>2, PrimaryFields
<1>4. n \in Int
  BY <1>1, <1>3, WholeLiteral
<1>5. "x_part" \in PartClasses
  BY DEF PartClasses
<1>6. DivideWalk(p, b) = RoleChanges(p, b, Parts(v.ref, "x_part", n), "focus")
  BY DEF DivideWalk
<1> HIDE DEF n
<1>7. AllColourable(p, Parts(v.ref, "x_part", n))
  BY <1>4, <1>5, PrimaryRef, PartsOfClass
<1>8. QED BY <1>6, <1>7, ChangedInTurn

LEMMA SupportingOfPlan ==
    ASSUME NEW p, NEW goal, Admitted(p, goal), NEW kind
    PROVE  /\ Listed(Supporting(p, kind))
           /\ \A v \in Range(Supporting(p, kind)) : v \in Range(p.supporting) /\ v.kind = kind
<1>1. Listed(p.supporting)
  BY PrimaryRef
<1> DEFINE places == {k \in DOMAIN p.supporting : p.supporting[k].kind = kind}
<1>2. /\ Listed(Kept(p.supporting, places))
      /\ \A x : x \in Range(Kept(p.supporting, places)) <=>
               \E k \in 1..Len(p.supporting) : k \in places /\ p.supporting[k] = x
  BY <1>1, KeptElements
<1>3. Supporting(p, kind) = Kept(p.supporting, places)
  BY DEF Supporting
<1>4. \A x \in Range(Supporting(p, kind)) :
         \E k \in 1..Len(p.supporting) : p.supporting[k].kind = kind /\ p.supporting[k] = x
  BY <1>2, <1>3
<1>5. \A k \in 1..Len(p.supporting) : p.supporting[k] \in Range(p.supporting)
  BY <1>1, ListPlaces
<1> HIDE DEF places
<1>6. QED BY <1>2, <1>3, <1>4, <1>5

\* The partitions of a plan, each with a whole number of shaded wedges.
LEMMA PartitionsCounted ==
    ASSUME NEW p, NEW goal, Admitted(p, goal),
           p.strategy \in {"equivalence_align", "common_denominator_bridge"}
    PROVE  LET all == <<p.primary>> \o Supporting(p, "partition")
           IN  /\ Listed(all) /\ Len(all) = Len(Supporting(p, "partition")) + 1
               /\ \A v \in Range(all) : v.ref \in Refs(p) /\ LiteralInteger(v.shaded) \in Int
<1> DEFINE s == Supporting(p, "partition")
           all == <<p.primary>> \o s
<1>1. /\ Listed(s)
      /\ \A v \in Range(s) : v \in Range(p.supporting) /\ v.kind = "partition"
  BY SupportingOfPlan
<1>2. Listed(<<p.primary>>) /\ Range(<<p.primary>>) = {p.primary} /\ Len(<<p.primary>>) = 1
  BY ListOfOne
<1>3. \A v \in {p.primary} \cup Range(s) : Countable(v)
  <2>1. CASE p.strategy = "equivalence_align"
    <3>1. EquivalenceCompatible(p)
      BY <2>1 DEF Admitted, Compatible
    <3>2. Len(s) = 1 /\ Countable(p.primary) /\ Countable(s[1])
      BY <3>1 DEF EquivalenceCompatible
    <3> HIDE DEF s
    <3>3. \A v \in Range(s) : v = s[1]
      BY <1>1, <3>2, ListPlaces
    <3>4. QED BY <3>2, <3>3
  <2>2. CASE p.strategy = "common_denominator_bridge"
    <3>1. BridgeCompatible(p, goal)
      BY <2>2 DEF Admitted, Compatible
    <3>2. \A v \in Range(all) : Countable(v)
      BY <3>1 DEF BridgeCompatible
    <3> HIDE DEF s
    <3>3. Range(all) = {p.primary} \cup Range(s)
      BY <1>1, <1>2, JoinedRange
    <3>4. QED BY <3>2, <3>3
  <2>3. QED BY <2>1, <2>2
<1>4. p.primary.kind = "partition"
  BY StrategyKinds
<1> HIDE DEF s
<1>5. ASSUME NEW v \in {p.primary} \cup Range(s)
      PROVE v.ref \in Refs(p) /\ LiteralInteger(v.shaded) \in Int
  <2>1. v \in {p.primary} \cup Range(p.supporting) /\ v.kind = "partition"
    BY <1>1, <1>4
  <2>2. LiteralInteger(v.shaded) # None
    BY <1>3 DEF Countable
  <2>3. v.shaded # None => ValidExpression(v.shaded)
    BY <2>1, PrimaryFields
  <2>4. LiteralInteger(v.shaded) \in Int
    BY <2>2, <2>3, WholeLiteral
  <2>5. v.ref \in Refs(p)
    BY <2>1, PrimaryRef
  <2>6. QED BY <2>4, <2>5
<1>6. Listed(all) /\ Range(all) = {p.primary} \cup Range(s) /\ Len(all) = 1 + Len(s) /\ Len(s) \in Nat
  BY <1>1, <1>2, JoinedRange, JoinedLists
<1>7. Len(all) = Len(s) + 1
  BY <1>6
<1>8. QED BY <1>5, <1>6, <1>7 DEF s

LEMMA AlignWalked ==
    ASSUME NEW p, NEW goal, Admitted(p, goal), p.strategy = "equivalence_align",
           NEW h, NEW b, Agree(p, h, b)
    PROVE  Goes(p, h, b, AlignWalk(p, b), {})
<1> DEFINE all == <<p.primary>> \o Supporting(p, "partition")
<1>1. /\ Listed(all)
      /\ \A v \in Range(all) : v.ref \in Refs(p) /\ LiteralInteger(v.shaded) \in Int
  BY PartitionsCounted
<1>2. AlignWalk(p, b) = RoleChanges(p, b, Shaded(all), "focus")
  BY DEF AlignWalk
<1> HIDE DEF all
<1>3. AllColourable(p, Shaded(all))
  BY <1>1, ShadedColourable
<1>4. QED BY <1>2, <1>3, ChangedInTurn

LEMMA BridgeWalked ==
    ASSUME NEW p, NEW goal, Admitted(p, goal), p.strategy = "common_denominator_bridge",
           NEW h, NEW b, Agree(p, h, b)
    PROVE  Goes(p, h, b, BridgeWalk(p, b), {})
<1> DEFINE s == Supporting(p, "partition")
           all == <<p.primary>> \o s
           x == <<all[1], all[3], all[2], all[4], all[5]>>
           y == <<all[1], all[2], all[3], all[4]>>
           d == RoleChanges(p, b, Shaded(x), "focus")
<1>1. /\ Listed(all) /\ Len(all) = Len(s) + 1
      /\ \A v \in Range(all) : v.ref \in Refs(p) /\ LiteralInteger(v.shaded) \in Int
  BY PartitionsCounted
<1>2. Len(s) = 4
  BY DEF Admitted, Compatible, BridgeCompatible
<1>3. BridgeWalk(p, b) = RoleChanges(p, d, Shaded(y), "structure")
  BY DEF BridgeWalk
<1> HIDE DEF all, s
<1>4. \A k \in 1..5 : all[k] \in Range(all)
  <2>1. Len(all) = 5
    BY <1>1, <1>2
  <2>2. \A k \in 1..Len(all) : all[k] \in Range(all)
    BY <1>1, ListPlaces
  <2>3. QED BY <2>1, <2>2
<1>5. x \in Seq(Range(all)) /\ y \in Seq(Range(all))
  BY <1>4
<1>6. Listed(x) /\ Listed(y)
  BY <1>5, SeqIsListed
<1>7. (\A v \in Range(x) : v \in Range(all)) /\ (\A v \in Range(y) : v \in Range(all))
  BY <1>4 DEF Range
<1> HIDE DEF x, y
<1>8. AllColourable(p, Shaded(x)) /\ AllColourable(p, Shaded(y))
  BY <1>1, <1>6, <1>7, ShadedColourable
<1>9. Goes(p, h, b, d, {})
  BY <1>8, ChangedInTurn
<1> HIDE DEF d
<1>10. Goes(p, h, d, RoleChanges(p, d, Shaded(y), "structure"), {})
  BY <1>8, <1>9, GoesAgree, ChangedInTurn
<1>11. QED BY <1>3, <1>9, <1>10, GoesOn

LEMMA PartsAreClasses ==
    {"item", "marker", "cell", "partition", "segment", "x_region", "constant_region", "x_part", "box",
     "polygon", "boundary", "ray"} \subseteq PartClasses
BY DEF PartClasses

\* What a percent strategy sweeps.
LEMMA SweepIsCounted ==
    ASSUME NEW p, NEW goal, Admitted(p, goal), p.strategy \in {"percent_of_whole", "percent_change"}
    PROVE  /\ SweptSegments(p)[1] \in Int /\ SweptSegments(p)[2] \in Int
           /\ SweptRef(p) \in Refs(p)
<1> DEFINE u == p.primary
           w == p.supporting[1]
           x == LiteralInteger(u.value)
           y == LiteralInteger(w.value)
<1>1. u.kind = "bar" /\ Listed(p.supporting)
  BY StrategyKinds, PrimaryRef
<1>2. x # None
  BY DEF Admitted, Compatible, PercentOfWholeCompatible, PercentChangeCompatible
<1>3. u.value # None => ValidExpression(u.value)
  BY <1>1, PrimaryFields
<1>4. x \in Int
  BY <1>2, <1>3, WholeLiteral
<1>5. CASE p.strategy = "percent_of_whole"
  <2>1. SweptSegments(p) = <<0, x - 1>> /\ SweptRef(p) = u.ref
    BY <1>5 DEF SweptSegments, SweptRef
  <2> HIDE DEF x
  <2>2. SweptSegments(p)[1] = 0 /\ SweptSegments(p)[2] = x - 1
    BY <2>1
  <2>3. SweptSegments(p)[1] \in Int /\ SweptSegments(p)[2] \in Int
    BY <1>4, <2>2
  <2>4. QED BY <2>1, <2>3, PrimaryRef
<1>6. CASE p.strategy = "percent_change"
  <2>1. Len(p.supporting) = 1 /\ w.kind = "bar" /\ y # None
    BY <1>6 DEF Admitted, Compatible, PercentChangeCompatible
  <2>2. w \in Range(p.supporting)
    BY <1>1, <2>1, ListPlaces
  <2>3. w.value # None => ValidExpression(w.value)
    BY <2>1, <2>2, PrimaryFields
  <2>4. y \in Int
    BY <2>1, <2>3, WholeLiteral
  <2>5. \/ SweptSegments(p) = <<x, y - 1>>
        \/ SweptSegments(p) = <<y, x - 1>>
    BY <1>6 DEF SweptSegments
  <2>6. SweptRef(p) = w.ref \/ SweptRef(p) = u.ref
    BY DEF SweptRef
  <2>7. u.ref \in Refs(p) /\ w.ref \in Refs(p)
    BY <2>2, PrimaryRef
  <2> HIDE DEF x, y, w, u
  <2>8. SweptSegments(p)[1] \in {x, y} /\ SweptSegments(p)[2] \in {x - 1, y - 1}
    BY <2>5
  <2>9. SweptSegments(p)[1] \in Int /\ SweptSegments(p)[2] \in Int
    BY <1>4, <2>4, <2>8
  <2>10. QED BY <2>6, <2>7, <2>9
<1>7. QED BY <1>5, <1>6

LEMMA PercentWalked ==
    ASSUME NEW p, NEW goal, Admitted(p, goal), p.strategy \in {"percent_of_whole", "percent_change"},
           NEW h, NEW b, Agree(p, h, b)
    PROVE  Goes(p, h, b, PercentWalk(p, b), {})
<1> DEFINE i == SweptSegments(p)[1]
           j == SweptSegments(p)[2]
           ref == SweptRef(p)
           n == j - i + 1
           s == [k \in 1..n |-> Part(ref, "segment", i + k - 1)]
           d == Ribbon(p, b)
           middle == i + (j - i + 1) \div 2
           callout == CalloutRef("delta_ribbon", 0, 0)
<1>1. i \in Int /\ j \in Int /\ ref \in Refs(p)
  BY SweepIsCounted
<1>2. n \in Int /\ "segment" \in PartClasses
  BY <1>1, PartsAreClasses
<1>3. s = [k \in 1..n |-> s[k]] /\ \A k \in 1..n : \E m : s[k] = Part(ref, "segment", m)
  OBVIOUS
<1>4. PercentWalk(p, b) = b \/ PercentWalk(p, b) = RoleChanges(p, d, s, "focus")
  BY DEF PercentWalk
<1>5. d = b \/ d = Callout(b, callout, Part(ref, "segment", middle), "top")
  BY DEF Ribbon
<1> HIDE DEF i, j, ref, n, s
<1>6. AllColourable(p, s)
  BY <1>1, <1>2, <1>3, PartsColourable
<1>7. Goes(p, h, b, d, {})
  BY <1>5, GoesNowhere, CalledOut
<1> HIDE DEF d
<1>8. Goes(p, h, d, RoleChanges(p, d, s, "focus"), {})
  BY <1>6, <1>7, GoesAgree, ChangedInTurn
<1>9. Goes(p, h, b, RoleChanges(p, d, s, "focus"), {})
  BY <1>7, <1>8, GoesOn
<1>10. QED BY <1>4, <1>9, GoesNowhere

LEMMA GenericChanged ==
    ASSUME NEW p, NEW h, NEW b, Agree(p, h, b), NEW beat, AllColourable(p, beat.targets), NEW role
    PROVE  Goes(p, h, b, GenericRoles(p, b, beat, role), {})
BY UndetailedColourable, ChangedInTurn DEF GenericRoles

LEMMA UnitRateWalked ==
    ASSUME NEW p, NEW goal, Admitted(p, goal), NEW h, NEW b, Agree(p, h, b),
           NEW beat, AllColourable(p, beat.targets)
    PROVE  Goes(p, h, b, UnitRateWalk(p, b, beat), {})
<1> DEFINE ref == p.primary.ref
           t == Part(ref, "box", 0)
           d == RoleChange(p, b, t, "focus")
           role == IF Works(beat) THEN "focus" ELSE "structure"
           targets == Undetailed(beat, {ref})
<1>1. Colourable(p, t)
  BY PrimaryRef, PartColourable, PartsAreClasses
<1>2. UnitRateWalk(p, b, beat) = RoleChanges(p, d, targets, role)
  BY DEF UnitRateWalk
<1>3. AllColourable(p, targets)
  BY UndetailedColourable
<1> HIDE DEF t, role, targets
<1>4. Goes(p, h, b, d, {})
  BY <1>1, RoleChanged
<1> HIDE DEF d
<1>5. Goes(p, h, d, RoleChanges(p, d, targets, role), {})
  BY <1>3, <1>4, GoesAgree, ChangedInTurn
<1>6. QED BY <1>2, <1>4, <1>5, GoesOn

LEMMA EliminationWalked ==
    ASSUME NEW p, NEW goal, Admitted(p, goal), p.strategy = "pair_elimination",
           NEW h, NEW b, Agree(p, h, b)
    PROVE  Goes(p, h, b, EliminationWalk(p, b), {})
<1> DEFINE v == p.primary
           m == Len(v.values)
           n == 2 * (m \div 2)
           item(k) == IF k % 2 = 1 THEN (k - 1) \div 2 ELSE m - k \div 2
           s == [k \in 1..n |-> Part(v.ref, "item", item(k))]
<1>1. ValidVisual(v) /\ v.kind = "ordered_values"
  BY VisualsAreValid, StrategyKinds
<1>2. m \in 3..15
  BY <1>1 DEF ValidVisual, OrderedValuesVisual
<1>3. n \in Int
  <2> HIDE DEF m
  <2>1. QED BY <1>2
<1>4. s = [k \in 1..n |-> s[k]] /\ \A k \in 1..n : \E i : s[k] = Part(v.ref, "item", i)
  OBVIOUS
<1>5. EliminationWalk(p, b) = RoleChanges(p, b, s, "neutral")
  BY DEF EliminationWalk
<1>6. v.ref \in Refs(p) /\ "item" \in PartClasses
  BY PrimaryRef, PartsAreClasses
<1> HIDE DEF n, s
<1>7. AllColourable(p, s)
  BY <1>3, <1>4, <1>6, PartsColourable
<1>8. QED BY <1>5, <1>7, ChangedInTurn

-----------------------------------------------------------------------------
(* The marks that a walk draws.                                             *)

\* A list of a class's moves, of no other class, plays that class out.
LEMMA MovesPlayOut ==
    ASSUME NEW p, NEW c \in Classes, NEW x, Listed(x), x = Moves(p, c),
           \A k \in DOMAIN x : \A d \in Classes \ {c} : ~InClass(p, d, x[k])
    PROVE  PlaysOut(p, x, {c})
<1>1. Staged(p, c, x, Moves(p, c))
  BY StagedAlone
<1>2. \A d \in Classes \ {c} : Absent(p, d, x)
  BY DEF Absent
<1>3. QED BY <1>1, <1>2 DEF PlaysOut, StagedOrAbsent

MarkKind(c) ==
    IF c = "hop" THEN "signed_hop_arrow" ELSE IF c = "distance" THEN "distance_annotation" ELSE "rotate"

\* The marks of a walk, in order.
Marks(p, c, x) ==
    /\ c \in {"hop", "distance", "turn"} /\ Listed(x) /\ x = Moves(p, c)
    /\ \A k \in DOMAIN x : x[k].kind = MarkKind(c)

LEMMA MarksEmitted ==
    ASSUME NEW p, NEW h, NEW b, Agree(p, h, b), NEW c, NEW x, Marks(p, c, x)
    PROVE  Goes(p, h, b, Emit(b, x), {c})
<1> DEFINE kind == MarkKind(c)
<1>0. /\ c \in Classes /\ Listed(x) /\ x = Moves(p, c)
      /\ kind \notin {"reveal", "set_role", "trace", "show_answer_stage"}
      /\ \A k \in DOMAIN x : x[k].kind = kind
      /\ \/ c = "hop" /\ kind = "signed_hop_arrow"
         \/ c = "distance" /\ kind = "distance_annotation"
         \/ c = "turn" /\ kind = "rotate"
  BY DEF Marks, MarkKind, Classes
<1> HIDE DEF kind
<1>1. ShowStage("work").kind = "show_answer_stage" /\ ShowStage("value").kind = "show_answer_stage"
  BY DEF ShowStage
<1>2. ASSUME NEW k \in DOMAIN x, NEW d \in Classes \ {c} PROVE ~InClass(p, d, x[k])
  <2> DEFINE a == x[k]
  <2>1. a.kind = kind
    BY <1>0
  <2> HIDE DEF a
  <2>2. a # ShowStage("work") /\ a # ShowStage("value")
    BY <1>0, <1>1, <2>1
  <2>3. ~InClass(p, d, a)
    BY <1>0, <2>1, <2>2 DEF InClass
  <2>4. QED BY <2>3 DEF a
<1>3. PlaysOut(p, x, {c})
  BY <1>0, <1>2, MovesPlayOut
<1>4. \A k \in DOMAIN x : x[k].kind \notin {"reveal", "set_role"}
  BY <1>0
<1>5. QED BY <1>0, <1>3, <1>4, EmittedOthers

LEMMA HopsListed ==
    ASSUME NEW p, NEW goal, Admitted(p, goal), p.primary.kind = "number_line"
    PROVE  Listed(Hops(p)) /\ \A k \in DOMAIN Hops(p) : Hops(p)[k].kind = "signed_hop_arrow"
<1> DEFINE v == p.primary
           n == Len(v.markers) - 1
           s == [k \in 1..n |-> Hop(Part(v.ref, "marker", k - 1), Part(v.ref, "marker", k))]
<1>1. Len(v.markers) \in Nat
  BY MarkersListed, ListPlaces
<1>2. n \in Int
  BY <1>1
<1>3. Hops(p) = s
  BY DEF Hops
<1>4. \A k \in 1..n : s[k].kind = "signed_hop_arrow"
  BY DEF Hop
<1>5. s = [k \in 1..n |-> s[k]]
  OBVIOUS
<1> HIDE DEF n, s
<1>6. Listed(s) /\ DOMAIN s = 1..n
  BY <1>2, <1>5, IntListed
<1>7. QED BY <1>3, <1>4, <1>6

LEMMA DistancesListed ==
    ASSUME NEW p, NEW goal, Admitted(p, goal), p.primary.kind = "number_line"
    PROVE  Listed(Distances(p)) /\ \A k \in DOMAIN Distances(p) : Distances(p)[k].kind = "distance_annotation"
<1> DEFINE v == p.primary
           at(k) == Part(v.ref, "marker", k - 1)
           origin == CHOOSE k \in DOMAIN v.markers :
                         v.markers[k] = Lit(0) /\ \A j \in 1..(k - 1) : v.markers[j] # Lit(0)
           places == [k \in DOMAIN v.markers |-> k]
           others == Kept(places, {k \in DOMAIN v.markers : v.markers[k] # Lit(0)})
           s == [k \in DOMAIN others |-> Distance(at(origin), at(others[k]))]
<1>1. DOMAIN v.markers = 1..Len(v.markers) /\ Len(v.markers) \in Nat
  BY MarkersListed, ListPlaces
<1>2. places = [k \in 1..Len(v.markers) |-> places[k]]
  BY <1>1
<1>3. Distances(p) = s
  BY DEF Distances
<1>4. \A k \in DOMAIN others : s[k].kind = "distance_annotation"
  BY DEF Distance
<1>5. s = [k \in DOMAIN others |-> s[k]]
  OBVIOUS
<1> HIDE DEF s, places
<1>6. Listed(places)
  BY <1>1, <1>2, FunctionIsListed
<1>7. Listed(others)
  BY <1>6, KeptElements
<1> HIDE DEF others
<1>8. DOMAIN others = 1..Len(others) /\ Len(others) \in Nat
  BY <1>7, ListPlaces
<1>9. s = [k \in 1..Len(others) |-> s[k]]
  BY <1>5, <1>8
<1>10. Listed(s) /\ DOMAIN s = 1..Len(others)
  BY <1>8, <1>9, FunctionIsListed
<1>11. QED BY <1>3, <1>4, <1>8, <1>10

LEMMA TurnsListed ==
    ASSUME NEW p, NEW goal, Admitted(p, goal), p.strategy = "rotation"
    PROVE  Listed(Turns(p)) /\ \A k \in DOMAIN Turns(p) : Turns(p)[k].kind = "rotate"
<1> DEFINE n == p.primary.iterations
           s == [k \in 1..n |-> Rotate(p.primary.ref, k)]
<1>1. ValidVisual(p.primary) /\ p.primary.kind = "coordinate_plane"
  BY VisualsAreValid, StrategyKinds
<1>2. n \in {None, 1, 2, 3, 4}
  BY <1>1 DEF ValidVisual, CoordinatePlaneVisual
<1>3. n # None
  BY DEF Admitted, Compatible, RotationCompatible
<1>4. Turns(p) = s
  BY DEF Turns
<1>5. \A k \in 1..n : s[k].kind = "rotate"
  BY DEF Rotate
<1>6. s = [k \in 1..n |-> s[k]]
  OBVIOUS
<1> HIDE DEF n, s
<1>7. n \in Int
  BY <1>2, <1>3
<1>8. Listed(s) /\ DOMAIN s = 1..n
  BY <1>6, <1>7, IntListed
<1>9. QED BY <1>4, <1>5, <1>8

-----------------------------------------------------------------------------
(* What the kind of a beat does to the books.                               *)

Distinct(p) == \A b, c \in DOMAIN p.beats : b # c => p.beats[b].id # p.beats[c].id

OrdinaryClasses(p, beat) == IF beat.kind = "conclude" /\ Declared(p) THEN {"value"} ELSE {}

KindClasses(p, beat) ==
    {c \in {"hop", "distance", "turn", "value"} :
        \/ c = "hop" /\ beat.id = HopBeat(p)
        \/ c = "distance" /\ beat.id = DistanceBeat(p)
        \/ c = "turn" /\ beat.id = RotationBeat(p)
        \/ c = "value" /\ beat.kind = "conclude" /\ Declared(p)}

LEMMA GoesWithNone ==
    ASSUME NEW p, NEW h, NEW b, NEW d, NEW C, Goes(p, h, b, d, C), NEW D,
           \A c \in D : Moves(p, c) = <<>>
    PROVE  Goes(p, h, b, d, C \cup D)
<1>1. PICK x : Listed(x) /\ d.actions = b.actions \o x /\ PlaysOut(p, x, C)
  BY DEF Goes, Plays
<1>2. PlaysOut(p, x, C \cup D)
  BY <1>1, NoMovesPlayOut
<1>3. QED BY <1>1, <1>2 DEF Goes, Plays

LEMMA StagesPlayOut ==
    ASSUME NEW p
    PROVE  /\ PlaysOut(p, <<ShowStage("value")>>, {"value"})
           /\ PlaysOut(p, <<ShowStage("work")>>, {"work"})
<1>1. ShowStage("work").kind = "show_answer_stage" /\ ShowStage("value").kind = "show_answer_stage"
      /\ ShowStage("work").stage = "work" /\ ShowStage("value").stage = "value"
  BY DEF ShowStage
<1>2. Moves(p, "value") = <<ShowStage("value")>> /\ Moves(p, "work") = <<ShowStage("work")>>
  BY DEF Moves
<1>3. "value" \in Classes /\ "work" \in Classes
  BY DEF Classes
<1>4. \A d \in Classes \ {"value"} : ~InClass(p, d, ShowStage("value"))
  <2> DEFINE a == ShowStage("value")
             e == ShowStage("work")
  <2>1. a.kind = "show_answer_stage" /\ a # e
    BY <1>1
  <2> HIDE DEF a, e
  <2>2. \A d \in Classes \ {"value"} : ~InClass(p, d, a)
    BY <2>1 DEF InClass, e
  <2>3. QED BY <2>2 DEF a
<1>5. \A d \in Classes \ {"work"} : ~InClass(p, d, ShowStage("work"))
  <2> DEFINE a == ShowStage("work")
             e == ShowStage("value")
  <2>1. a.kind = "show_answer_stage" /\ a # e
    BY <1>1
  <2> HIDE DEF a, e
  <2>2. \A d \in Classes \ {"work"} : ~InClass(p, d, a)
    BY <2>1 DEF InClass, e
  <2>3. QED BY <2>2 DEF a
<1> DEFINE x == <<ShowStage("value")>>
           y == <<ShowStage("work")>>
<1>6. Listed(x) /\ DOMAIN x = {1} /\ x[1] = ShowStage("value")
  BY ListOfOne
<1>7. Listed(y) /\ DOMAIN y = {1} /\ y[1] = ShowStage("work")
  BY ListOfOne
<1>8. x = Moves(p, "value") /\ y = Moves(p, "work")
  BY <1>2
<1> HIDE DEF x, y
<1>9. PlaysOut(p, x, {"value"})
  BY <1>3, <1>4, <1>6, <1>8, MovesPlayOut
<1>10. PlaysOut(p, y, {"work"})
  BY <1>3, <1>5, <1>7, <1>8, MovesPlayOut
<1>11. QED BY <1>9, <1>10 DEF x, y

\* A stage of the answer is shown.
LEMMA StageShown ==
    ASSUME NEW p, NEW h, NEW b, Agree(p, h, b), NEW stage \in {"work", "value"}
    PROVE  Goes(p, h, b, Emit(b, <<ShowStage(stage)>>), {stage})
<1> DEFINE x == <<ShowStage(stage)>>
<1>1. Listed(x) /\ DOMAIN x = {1} /\ x[1] = ShowStage(stage)
  BY ListOfOne
<1>2. ShowStage(stage).kind = "show_answer_stage"
  BY DEF ShowStage
<1>3. PlaysOut(p, x, {stage})
  BY StagesPlayOut
<1> HIDE DEF x
<1>4. \A k \in DOMAIN x : x[k].kind \notin {"reveal", "set_role"}
  BY <1>1, <1>2
<1>5. Goes(p, h, b, Emit(b, x), {stage})
  BY <1>1, <1>3, <1>4, EmittedOthers
<1>6. QED BY <1>5 DEF x

LEMMA ConclusionGoes ==
    ASSUME NEW p, NEW h, NEW b, Agree(p, h, b), NEW beat
    PROVE  Goes(p, h, b, Conclusion(p, b, beat), IF Declared(p) THEN {"value"} ELSE {})
<1>1. CASE ~Declared(p)
  <2> DEFINE ref == CalloutRef("median_callout", 0, 0)
  <2>1. Conclusion(p, b, beat) = b \/ Conclusion(p, b, beat) = Callout(b, ref, Middle(p), "bottom")
    BY <1>1 DEF Conclusion, MedianCallout, Declared
  <2>2. QED BY <1>1, <2>1, GoesNowhere, CalledOut
<1>2. CASE Declared(p)
  <2> DEFINE d == Emit(b, <<ShowStage("value")>>)
             t == Whole(Answer)
  <2>1. Conclusion(p, b, beat) = RoleChange(p, d, t, "conclusion")
    BY <1>2 DEF Conclusion, Declared
  <2>2. Colourable(p, t)
    BY <1>2, WholeParts DEF Colourable, KnownRefs
  <2>3. Goes(p, h, b, d, {"value"})
    BY StageShown
  <2> HIDE DEF d, t
  <2>4. Goes(p, h, d, RoleChange(p, d, t, "conclusion"), {})
    BY <2>2, <2>3, GoesAgree, RoleChanged
  <2>5. QED BY <1>2, <2>1, <2>3, <2>4, GoesOn
<1>3. QED BY <1>1, <1>2

LEMMA OrdinaryGoes ==
    ASSUME NEW p, NEW goal, Admitted(p, goal), NEW h, NEW b, Agree(p, h, b),
           NEW beat, AllColourable(p, beat.targets)
    PROVE  Goes(p, h, b, Ordinary(p, b, beat), OrdinaryClasses(p, beat))
<1>1. CASE p.strategy = "pair_elimination" /\ beat.kind = "organize"
  <2>1. Ordinary(p, b, beat) = EliminationWalk(p, b) /\ OrdinaryClasses(p, beat) = {}
    BY <1>1 DEF Ordinary, OrdinaryClasses
  <2>2. QED BY <1>1, <2>1, EliminationWalked
<1>2. CASE ~(p.strategy = "pair_elimination" /\ beat.kind = "organize") /\ beat.kind = "conclude"
  <2>1. Ordinary(p, b, beat) = Conclusion(p, b, beat)
    BY <1>2 DEF Ordinary, Works
  <2>2. OrdinaryClasses(p, beat) = IF Declared(p) THEN {"value"} ELSE {}
    BY <1>2 DEF OrdinaryClasses
  <2>3. QED BY <2>1, <2>2, ConclusionGoes
<1>3. CASE ~(p.strategy = "pair_elimination" /\ beat.kind = "organize") /\ beat.kind # "conclude"
  <2>1. \/ Ordinary(p, b, beat) = GenericRoles(p, b, beat, "focus")
        \/ Ordinary(p, b, beat) = GenericRoles(p, b, beat, "structure")
    BY <1>3 DEF Ordinary
  <2>2. OrdinaryClasses(p, beat) = {}
    BY <1>3 DEF OrdinaryClasses
  <2>3. QED BY <2>1, <2>2, GenericChanged
<1>4. QED BY <1>1, <1>2, <1>3

LEMMA OwnedGoes ==
    ASSUME NEW p, NEW goal, Admitted(p, goal), NEW h, NEW b, Agree(p, h, b),
           NEW beat, AllColourable(p, beat.targets), NEW w, Goes(p, h, b, w, {})
    PROVE  \E C : C \subseteq OrdinaryClasses(p, beat) /\ Goes(p, h, b, Owned(p, b, beat, w), C)
<1>1. CASE w.actions # b.actions
  <2>1. Owned(p, b, beat, w) = w /\ {} \subseteq OrdinaryClasses(p, beat)
    BY <1>1 DEF Owned
  <2>2. QED BY <2>1
<1>2. CASE w.actions = b.actions
  <2>1. Owned(p, b, beat, w) = Ordinary(p, b, beat)
    BY <1>2 DEF Owned
  <2>2. QED BY <2>1, OrdinaryGoes
<1>3. QED BY <1>1, <1>2

Beside(p, b, beat, w, acted) ==
    IF w.actions = b.actions THEN w ELSE RoleChanges(p, w, Undetailed(beat, acted), "focus")

LEMMA BesideGoes ==
    ASSUME NEW p, NEW h, NEW b, Agree(p, h, b), NEW beat, AllColourable(p, beat.targets),
           NEW w, Goes(p, h, b, w, {}), NEW acted
    PROVE  Goes(p, h, b, Beside(p, b, beat, w, acted), {})
<1>1. AllColourable(p, Undetailed(beat, acted))
  BY UndetailedColourable
<1>2. Goes(p, h, w, RoleChanges(p, w, Undetailed(beat, acted), "focus"), {})
  BY <1>1, GoesAgree, ChangedInTurn
<1>3. QED BY <1>2, GoesOn DEF Beside

Drawn(p, b, beat, marks) ==
    IF marks = <<>> THEN b ELSE Emit(GenericRoles(p, b, beat, "focus"), marks)

LEMMA EmittedActions ==
    ASSUME NEW b, Booked(b), NEW x
    PROVE  Emit(b, x).actions = b.actions \o x
<1>1. Emit(b, x) = [b EXCEPT !.actions = b.actions \o x]
  BY DEF Emit
<1> DEFINE d == Emit(b, x)
           y == b.actions \o x
<1> HIDE DEF d, y
<1>2. d = [b EXCEPT !.actions = y]
  BY <1>1 DEF d, y
<1>3. d.actions = y
  BY <1>2, ActionsWritten
<1>4. QED BY <1>3 DEF d, y

\* A walk that draws marks of its own class.
LEMMA DrawnGoes ==
    ASSUME NEW p, NEW goal, Admitted(p, goal), NEW h, NEW b, Agree(p, h, b),
           NEW beat, AllColourable(p, beat.targets),
           NEW c, NEW x, Marks(p, c, x)
    PROVE  LET after == Owned(p, b, beat, Drawn(p, b, beat, x))
           IN  \/ Goes(p, h, b, after, {c})
               \/ x = <<>> /\ Goes(p, h, b, after, OrdinaryClasses(p, beat))
<1>1. CASE x = <<>>
  <2>1. Drawn(p, b, beat, x) = b
    BY <1>1 DEF Drawn
  <2>2. Owned(p, b, beat, b) = Ordinary(p, b, beat)
    BY DEF Owned
  <2>3. QED BY <1>1, <2>1, <2>2, OrdinaryGoes
<1>2. CASE x # <<>>
  <2> DEFINE d == GenericRoles(p, b, beat, "focus")
             w == Emit(d, x)
  <2>1. Goes(p, h, b, d, {})
    BY GenericChanged
  <2>2. Drawn(p, b, beat, x) = w /\ Listed(x)
    BY <1>2 DEF Drawn, Marks
  <2> HIDE DEF d
  <2>3. Agree(p, h, d)
    BY <2>1, GoesAgree
  <2>4. Goes(p, h, d, w, {c})
    BY <2>3, MarksEmitted
  <2>5. Goes(p, h, b, w, {} \cup {c})
    BY <2>1, <2>4, GoesThen
  <2>6. w.actions = d.actions \o x
    BY <2>3, EmittedActions DEF Agree
  <2>7. PICK y : Listed(y) /\ d.actions = b.actions \o y
    BY <2>1 DEF Goes, Plays
  <2> HIDE DEF w
  <2> DEFINE f == b.actions
  <2>8. Listed(f)
    BY DEF Agree
  <2>9. d.actions = f \o y
    BY <2>7
  <2>10. w.actions # f
    <3> HIDE DEF f
    <3>1. Listed(f \o y) /\ Len(f \o y) = Len(f) + Len(y) /\ Len(f) \in Nat /\ Len(y) \in Nat
      BY <2>7, <2>8, JoinedLists
    <3>2. Len((f \o y) \o x) = Len(f \o y) + Len(x) /\ Len(x) \in Nat
      BY <2>2, <3>1, JoinedLists
    <3>3. Len(x) # 0
      <4>1. SUFFICES ASSUME Len(x) = 0 PROVE FALSE
        OBVIOUS
      <4>2. x = <<>>
        BY <2>2, <4>1, EmptyList, SameList
      <4>3. QED BY <1>2, <4>2
    <3>4. Len((f \o y) \o x) # Len(f)
      BY <3>1, <3>2, <3>3
    <3>5. QED BY <2>6, <2>9, <3>4
  <2>11. Owned(p, b, beat, w) = w
    BY <2>10 DEF Owned
  <2>12. QED BY <2>2, <2>5, <2>11
<1>3. QED BY <1>1, <1>2

LEMMA RotationWalked ==
    ASSUME NEW p, NEW goal, Admitted(p, goal), p.strategy = "rotation",
           NEW h, NEW b, Agree(p, h, b), NEW beat, AllColourable(p, beat.targets)
    PROVE  Goes(p, h, b, RotationWalk(p, b, beat), {"turn"})
<1> DEFINE ref == p.primary.ref
           t == Part(ref, "polygon", 0)
           others == Kept(beat.targets, {k \in DOMAIN beat.targets : beat.targets[k] # Whole(ref)})
           targets == <<t>> \o others
           d == RoleChanges(p, b, targets, "focus")
           x == Turns(p)
<1>1. Colourable(p, t)
  BY PrimaryRef, PartColourable, PartsAreClasses
<1>2. AllColourable(p, others)
  BY KeptColourable
<1>3. RotationWalk(p, b, beat) = Emit(d, x)
  BY DEF RotationWalk
<1> HIDE DEF t, others
<1>4. AllColourable(p, targets)
  BY <1>1, <1>2, OneThenOthers
<1> HIDE DEF targets
<1>5. Goes(p, h, b, d, {})
  BY <1>4, ChangedInTurn
<1>6. Listed(x) /\ \A k \in DOMAIN x : x[k].kind = "rotate"
  BY TurnsListed
<1>7. Marks(p, "turn", x)
  BY <1>6 DEF Moves, Marks, MarkKind
<1> HIDE DEF d, x
<1>8. Goes(p, h, d, Emit(d, x), {"turn"})
  BY <1>5, <1>7, GoesAgree, MarksEmitted
<1>9. Goes(p, h, b, Emit(d, x), {} \cup {"turn"})
  BY <1>5, <1>8, GoesThen
<1>10. QED BY <1>3, <1>9

\* Beats that carry no selected id, and the strategies of those that do.
LEMMA SelectedBeat ==
    ASSUME NEW p, NEW goal, Admitted(p, goal), NEW n \in DOMAIN p.beats, NEW id, id = p.beats[n].id
    PROVE  LET s == p.strategy
               works == Distinct(p) => p.beats[n].kind \in {"organize", "focus", "derive"}
           IN  /\ id = StagedPair(p, "inverse_operation")[1] => s = "inverse_operation" /\ works
               /\ id = StagedPair(p, "inverse_operation")[2] => s = "inverse_operation" /\ works
               /\ id = RegroupBeat(p) => s = "regroup" /\ works
               /\ id = MagnitudeBeat(p) => s = "magnitude_comparison" /\ works
               /\ id = HopBeat(p) => s = "signed_hop" /\ works
               /\ id = DistanceBeat(p) => s = "distance_from_zero" /\ works
               /\ id = AlignBeat(p) => s = "equivalence_align" /\ works
               /\ id = BridgeBeat(p) => s = "common_denominator_bridge" /\ works
               /\ id = PercentBeat(p) => s \in {"percent_of_whole", "percent_change"} /\ works
               /\ id = RotationBeat(p) => s = "rotation" /\ works
               /\ id = LabelBeat(p) => UnitStrategy(p) /\ works
               /\ id = TraceBeat(p) => s = "boundary_trace" /\ works
               /\ id = WorkBeat(p, goal) => Declared(p) /\ HasOperation(goal) /\ works
<1>1. Listed(p.beats) /\ BeatOrder(p)
  BY DEF Admitted, ValidDocument
<1>2. id # None
  <2>1. ValidBeat(p.beats[n])
    BY BeatsOfPlan DEF Admitted
  <2>2. QED BY <2>1 DEF ValidBeat
<1>3. (Distinct(p) /\ Worked(p, id)) => p.beats[n].kind \in {"organize", "focus", "derive"}
  BY WorkedIsOne DEF Distinct
<1> HIDE DEF Distinct
<1>4. /\ id = StagedPair(p, "inverse_operation")[1] => p.strategy = "inverse_operation" /\ Worked(p, id)
      /\ id = StagedPair(p, "inverse_operation")[2] => p.strategy = "inverse_operation" /\ Worked(p, id)
  BY <1>1, <1>2, PairSelected
<1>5. id = RegroupBeat(p) => p.strategy = "regroup" /\ Worked(p, id)
  BY <1>1, <1>2, RegroupSelected
<1>6. id = MagnitudeBeat(p) => p.strategy = "magnitude_comparison" /\ Worked(p, id)
  BY <1>1, <1>2, MagnitudeSelected
<1>7. id = HopBeat(p) => p.strategy = "signed_hop" /\ Worked(p, id)
  BY <1>1, <1>2, HopSelected
<1>8. id = DistanceBeat(p) => p.strategy = "distance_from_zero" /\ Worked(p, id)
  BY <1>1, <1>2, DistanceSelected
<1>9. id = AlignBeat(p) => p.strategy = "equivalence_align" /\ Worked(p, id)
  BY <1>1, <1>2, AlignSelected
<1>10. id = BridgeBeat(p) => p.strategy = "common_denominator_bridge" /\ Worked(p, id)
  BY <1>1, <1>2, BridgeSelected
<1>11. id = PercentBeat(p) => p.strategy \in {"percent_of_whole", "percent_change"} /\ Worked(p, id)
  BY <1>1, <1>2, PercentSelected
<1>12. id = RotationBeat(p) => p.strategy = "rotation" /\ Worked(p, id)
  BY <1>1, <1>2, RotationSelected
<1>13. id = LabelBeat(p) => UnitStrategy(p) /\ Worked(p, id)
  BY <1>1, <1>2, LabelSelected
<1>14. id = TraceBeat(p) => p.strategy = "boundary_trace" /\ Worked(p, id)
  BY <1>1, <1>2, TraceSelected
<1>15. id = WorkBeat(p, goal) => Declared(p) /\ HasOperation(goal) /\ Worked(p, id)
  BY <1>1, <1>2, WorkSelected
<1>16. QED
  BY <1>3, <1>4, <1>5, <1>6, <1>7, <1>8, <1>9, <1>10, <1>11, <1>12, <1>13, <1>14, <1>15

\* A walk whose strategy draws no marks of its own.
LEMMA QuietClasses ==
    ASSUME NEW p, NEW goal, Admitted(p, goal), NEW n \in DOMAIN p.beats, Distinct(p),
           p.beats[n].kind \in {"organize", "focus", "derive"},
           p.strategy \notin {"signed_hop", "distance_from_zero", "rotation"}
    PROVE  KindClasses(p, p.beats[n]) = {} /\ OrdinaryClasses(p, p.beats[n]) = {}
<1> DEFINE beat == p.beats[n]
<1>1. beat.id # HopBeat(p) /\ beat.id # DistanceBeat(p) /\ beat.id # RotationBeat(p)
  BY SelectedBeat
<1>2. beat.kind # "conclude"
  OBVIOUS
<1> HIDE DEF beat
<1>3. KindClasses(p, beat) = {} /\ OrdinaryClasses(p, beat) = {}
  BY <1>1, <1>2 DEF KindClasses, OrdinaryClasses
<1>4. QED BY <1>3 DEF beat

\* The books after what the kind of a beat does, and the moves it stages.
KindGoes(p, h, b, beat, d) ==
    \E C \in SUBSET {"hop", "distance", "turn", "value"} :
        Goes(p, h, b, d, C) /\ (Distinct(p) => C = KindClasses(p, beat))

LEMMA QuietGoes ==
    ASSUME NEW p, NEW goal, Admitted(p, goal), NEW n \in DOMAIN p.beats, NEW h, NEW b, NEW d,
           Goes(p, h, b, d, {}), Distinct(p) => p.beats[n].kind \in {"organize", "focus", "derive"},
           p.strategy \notin {"signed_hop", "distance_from_zero", "rotation"}
    PROVE  KindGoes(p, h, b, p.beats[n], d)
<1>1. Distinct(p) => KindClasses(p, p.beats[n]) = {}
  BY QuietClasses
<1>2. {} \in SUBSET {"hop", "distance", "turn", "value"}
  OBVIOUS
<1>3. QED BY <1>1, <1>2 DEF KindGoes

LEMMA QuietOwned ==
    ASSUME NEW p, NEW goal, Admitted(p, goal), NEW n \in DOMAIN p.beats, NEW h, NEW b, Agree(p, h, b),
           AllColourable(p, p.beats[n].targets), NEW w, Goes(p, h, b, w, {}),
           Distinct(p) => p.beats[n].kind \in {"organize", "focus", "derive"},
           p.strategy \notin {"signed_hop", "distance_from_zero", "rotation"}
    PROVE  KindGoes(p, h, b, p.beats[n], Owned(p, b, p.beats[n], w))
<1> DEFINE beat == p.beats[n]
           d == Owned(p, b, beat, w)
<1>1. PICK C : C \subseteq OrdinaryClasses(p, beat) /\ Goes(p, h, b, d, C)
  BY OwnedGoes
<1>2. Distinct(p) => KindClasses(p, beat) = {} /\ OrdinaryClasses(p, beat) = {}
  BY QuietClasses
<1>3. OrdinaryClasses(p, beat) \subseteq {"hop", "distance", "turn", "value"}
  BY DEF OrdinaryClasses
<1> HIDE DEF beat, d
<1>4. C \in SUBSET {"hop", "distance", "turn", "value"}
  BY <1>1, <1>3
<1>5. Distinct(p) => C = KindClasses(p, beat)
  BY <1>1, <1>2
<1>6. KindGoes(p, h, b, beat, d)
  BY <1>1, <1>4, <1>5 DEF KindGoes
<1>7. QED BY <1>6 DEF beat, d

LEMMA MarkedOwned ==
    ASSUME NEW p, NEW goal, Admitted(p, goal), NEW n \in DOMAIN p.beats, NEW h, NEW b, Agree(p, h, b),
           AllColourable(p, p.beats[n].targets),
           NEW c, NEW x, Marks(p, c, x),
           Distinct(p) => KindClasses(p, p.beats[n]) = {c} /\ OrdinaryClasses(p, p.beats[n]) = {}
    PROVE  KindGoes(p, h, b, p.beats[n], Owned(p, b, p.beats[n], Drawn(p, b, p.beats[n], x)))
<1> DEFINE beat == p.beats[n]
           d == Owned(p, b, beat, Drawn(p, b, beat, x))
<1>1. c \in {"hop", "distance", "turn"} /\ x = Moves(p, c)
  BY DEF Marks
<1>2. \/ Goes(p, h, b, d, {c})
      \/ x = <<>> /\ Goes(p, h, b, d, OrdinaryClasses(p, beat))
  <2>1. AllColourable(p, beat.targets)
    OBVIOUS
  <2> HIDE DEF beat
  <2>2. LET after == Owned(p, b, beat, Drawn(p, b, beat, x))
        IN  \/ Goes(p, h, b, after, {c})
            \/ x = <<>> /\ Goes(p, h, b, after, OrdinaryClasses(p, beat))
    BY <2>1, DrawnGoes
  <2>3. QED BY <2>2
<1>3. OrdinaryClasses(p, beat) \subseteq {"hop", "distance", "turn", "value"}
  BY DEF OrdinaryClasses
<1> HIDE DEF beat, d
<1>4. CASE Goes(p, h, b, d, {c})
  <2>1. {c} \in SUBSET {"hop", "distance", "turn", "value"}
    BY <1>1
  <2>2. KindGoes(p, h, b, beat, d)
    BY <1>4, <2>1 DEF KindGoes, beat
  <2>3. QED BY <2>2 DEF beat, d
<1>5. CASE x = <<>> /\ Goes(p, h, b, d, OrdinaryClasses(p, beat))
  <2> DEFINE C == OrdinaryClasses(p, beat) \cup {c}
  <2>1. \A e \in {c} : Moves(p, e) = <<>>
    BY <1>1, <1>5
  <2>2. Goes(p, h, b, d, C)
    BY <1>5, <2>1, GoesWithNone
  <2>3. C \in SUBSET {"hop", "distance", "turn", "value"}
    BY <1>1, <1>3
  <2>4. Distinct(p) => C = KindClasses(p, beat)
    BY DEF beat
  <2> HIDE DEF C
  <2>5. KindGoes(p, h, b, beat, d)
    BY <2>2, <2>3, <2>4 DEF KindGoes
  <2>6. QED BY <2>5 DEF beat, d
<1>6. QED BY <1>2, <1>4, <1>5

LEMMA KindActed ==
    ASSUME NEW p, NEW goal, Admitted(p, goal), NEW n \in DOMAIN p.beats, NEW h, NEW b, Agree(p, h, b)
    PROVE  KindGoes(p, h, b, p.beats[n], KindActions(p, b, p.beats[n]))
<1> DEFINE beat == p.beats[n]
           id == beat.id
           pair == StagedPair(p, "inverse_operation")
           all == <<p.primary>> \o Supporting(p, "partition")
           acted == {v.ref : v \in Range(all)}
           works == Distinct(p) => beat.kind \in {"organize", "focus", "derive"}
           d == KindActions(p, b, beat)
           c1 == beat.kind \in {"orient", "reveal"}
           c2 == id = pair[1]
           c3 == id = pair[2]
           c4 == id = RegroupBeat(p)
           c5 == id = MagnitudeBeat(p)
           c6 == id = HopBeat(p)
           c7 == id = DistanceBeat(p)
           c8 == id = AlignBeat(p)
           c9 == id = BridgeBeat(p)
           c10 == id = PercentBeat(p)
           c11 == id = RotationBeat(p)
           c12 == p.strategy = "unit_rate" /\ id = LabelBeat(p)
<1>1. d = IF c1 THEN b
          ELSE IF c2 THEN PartitionWalk(p, b)
          ELSE IF c3 THEN DivideWalk(p, b)
          ELSE IF c4 THEN Owned(p, b, beat, RegroupWalk(p, b))
          ELSE IF c5 THEN Owned(p, b, beat, MagnitudeWalk(p, b))
          ELSE IF c6 THEN Owned(p, b, beat, Drawn(p, b, beat, Hops(p)))
          ELSE IF c7 THEN Owned(p, b, beat, Drawn(p, b, beat, Distances(p)))
          ELSE IF c8 THEN Owned(p, b, beat, Beside(p, b, beat, AlignWalk(p, b), acted))
          ELSE IF c9 THEN Owned(p, b, beat, Beside(p, b, beat, BridgeWalk(p, b), acted))
          ELSE IF c10 THEN Owned(p, b, beat, PercentWalk(p, b))
          ELSE IF c11 THEN RotationWalk(p, b, beat)
          ELSE IF c12 THEN UnitRateWalk(p, b, beat)
          ELSE Ordinary(p, b, beat)
  BY DEF KindActions, Drawn, Beside
<1>2. AllColourable(p, beat.targets)
  <2>1. Listed(beat.targets) /\ \A t \in Range(beat.targets) : Nameable(p, t)
    BY TargetsNameable
  <2>2. QED BY <2>1, NameableIsShowable DEF AllColourable
<1>3. /\ c2 => p.strategy = "inverse_operation" /\ works
      /\ c3 => p.strategy = "inverse_operation" /\ works
      /\ c4 => p.strategy = "regroup" /\ works
      /\ c5 => p.strategy = "magnitude_comparison" /\ works
      /\ c6 => p.strategy = "signed_hop" /\ works
      /\ c7 => p.strategy = "distance_from_zero" /\ works
      /\ c8 => p.strategy = "equivalence_align" /\ works
      /\ c9 => p.strategy = "common_denominator_bridge" /\ works
      /\ c10 => p.strategy \in {"percent_of_whole", "percent_change"} /\ works
      /\ c11 => p.strategy = "rotation" /\ works
      /\ c12 => p.strategy = "unit_rate" /\ works
  BY SelectedBeat
<1>4. KindClasses(p, beat) =
         {c \in {"hop", "distance", "turn", "value"} :
             \/ c = "hop" /\ c6
             \/ c = "distance" /\ c7
             \/ c = "turn" /\ c11
             \/ c = "value" /\ beat.kind = "conclude" /\ Declared(p)}
  BY DEF KindClasses
<1>5. OrdinaryClasses(p, beat) = IF beat.kind = "conclude" /\ Declared(p) THEN {"value"} ELSE {}
  BY DEF OrdinaryClasses
<1> HIDE DEF d, pair, acted, c1, c2, c3, c4, c5, c6, c7, c8, c9, c10, c11, c12
<1>6. CASE c1
  <2>1. d = b
    BY <1>1, <1>6
  <2>2. Goes(p, h, b, d, {})
    BY <2>1, GoesNowhere
  <2>3. Distinct(p) => KindClasses(p, beat) = {}
    BY <1>3, <1>4, <1>6 DEF c1
  <2>4. {} \in SUBSET {"hop", "distance", "turn", "value"}
    OBVIOUS
  <2>5. QED BY <2>2, <2>3, <2>4 DEF KindGoes, d
<1>7. CASE ~c1 /\ c2
  <2>1. d = PartitionWalk(p, b) /\ p.strategy = "inverse_operation" /\ works
    BY <1>1, <1>3, <1>7
  <2>2. Goes(p, h, b, d, {})
    BY <2>1, PartitionWalked
  <2>3. KindGoes(p, h, b, beat, d)
    BY <2>1, <2>2, QuietGoes
  <2>4. QED BY <2>3 DEF d
<1>8. CASE ~c1 /\ ~c2 /\ c3
  <2>1. d = DivideWalk(p, b) /\ p.strategy = "inverse_operation" /\ works
    BY <1>1, <1>3, <1>8
  <2>2. Goes(p, h, b, d, {})
    BY <2>1, DivideWalked
  <2>3. KindGoes(p, h, b, beat, d)
    BY <2>1, <2>2, QuietGoes
  <2>4. QED BY <2>3 DEF d
<1>9. CASE ~c1 /\ ~c2 /\ ~c3 /\ c4
  <2>1. d = Owned(p, b, beat, RegroupWalk(p, b)) /\ p.strategy = "regroup" /\ works
    BY <1>1, <1>3, <1>9
  <2>2. Goes(p, h, b, RegroupWalk(p, b), {})
    BY <2>1, RegroupWalked
  <2>3. KindGoes(p, h, b, beat, d)
    BY <1>2, <2>1, <2>2, QuietOwned
  <2>4. QED BY <2>3 DEF d
<1>10. CASE ~c1 /\ ~c2 /\ ~c3 /\ ~c4 /\ c5
  <2>1. d = Owned(p, b, beat, MagnitudeWalk(p, b)) /\ p.strategy = "magnitude_comparison" /\ works
    BY <1>1, <1>3, <1>10
  <2>2. Goes(p, h, b, MagnitudeWalk(p, b), {})
    BY <2>1, MagnitudeWalked
  <2>3. KindGoes(p, h, b, beat, d)
    BY <1>2, <2>1, <2>2, QuietOwned
  <2>4. QED BY <2>3 DEF d
<1>11. CASE ~c1 /\ ~c2 /\ ~c3 /\ ~c4 /\ ~c5 /\ c6
  <2> DEFINE x == Hops(p)
  <2>1. d = Owned(p, b, beat, Drawn(p, b, beat, x)) /\ p.strategy = "signed_hop" /\ works
    BY <1>1, <1>3, <1>11
  <2>2. Listed(x) /\ \A k \in DOMAIN x : x[k].kind = "signed_hop_arrow"
    BY <2>1, StrategyKinds, HopsListed
  <2>3. Marks(p, "hop", x)
    BY <2>2 DEF Moves, Marks, MarkKind
  <2>4. Distinct(p) => KindClasses(p, beat) = {"hop"} /\ OrdinaryClasses(p, beat) = {}
    BY <1>3, <1>4, <1>5, <1>11, <2>1
  <2> HIDE DEF x
  <2>5. KindGoes(p, h, b, beat, d)
    BY <1>2, <2>1, <2>3, <2>4, MarkedOwned
  <2>6. QED BY <2>5 DEF d
<1>12. CASE ~c1 /\ ~c2 /\ ~c3 /\ ~c4 /\ ~c5 /\ ~c6 /\ c7
  <2> DEFINE x == Distances(p)
  <2>1. d = Owned(p, b, beat, Drawn(p, b, beat, x)) /\ p.strategy = "distance_from_zero" /\ works
    BY <1>1, <1>3, <1>12
  <2>2. Listed(x) /\ \A k \in DOMAIN x : x[k].kind = "distance_annotation"
    BY <2>1, StrategyKinds, DistancesListed
  <2>3. Marks(p, "distance", x)
    BY <2>2 DEF Moves, Marks, MarkKind
  <2>4. Distinct(p) => KindClasses(p, beat) = {"distance"} /\ OrdinaryClasses(p, beat) = {}
    BY <1>3, <1>4, <1>5, <1>12, <2>1
  <2> HIDE DEF x
  <2>5. KindGoes(p, h, b, beat, d)
    BY <1>2, <2>1, <2>3, <2>4, MarkedOwned
  <2>6. QED BY <2>5 DEF d
<1>13. CASE ~c1 /\ ~c2 /\ ~c3 /\ ~c4 /\ ~c5 /\ ~c6 /\ ~c7 /\ c8
  <2>1. d = Owned(p, b, beat, Beside(p, b, beat, AlignWalk(p, b), acted))
        /\ p.strategy = "equivalence_align" /\ works
    BY <1>1, <1>3, <1>13
  <2>2. Goes(p, h, b, AlignWalk(p, b), {})
    BY <2>1, AlignWalked
  <2>3. Goes(p, h, b, Beside(p, b, beat, AlignWalk(p, b), acted), {})
    BY <1>2, <2>2, BesideGoes
  <2>4. KindGoes(p, h, b, beat, d)
    BY <1>2, <2>1, <2>3, QuietOwned
  <2>5. QED BY <2>4 DEF d
<1>14. CASE ~c1 /\ ~c2 /\ ~c3 /\ ~c4 /\ ~c5 /\ ~c6 /\ ~c7 /\ ~c8 /\ c9
  <2>1. d = Owned(p, b, beat, Beside(p, b, beat, BridgeWalk(p, b), acted))
        /\ p.strategy = "common_denominator_bridge" /\ works
    BY <1>1, <1>3, <1>14
  <2>2. Goes(p, h, b, BridgeWalk(p, b), {})
    BY <2>1, BridgeWalked
  <2>3. Goes(p, h, b, Beside(p, b, beat, BridgeWalk(p, b), acted), {})
    BY <1>2, <2>2, BesideGoes
  <2>4. KindGoes(p, h, b, beat, d)
    BY <1>2, <2>1, <2>3, QuietOwned
  <2>5. QED BY <2>4 DEF d
<1>15. CASE ~c1 /\ ~c2 /\ ~c3 /\ ~c4 /\ ~c5 /\ ~c6 /\ ~c7 /\ ~c8 /\ ~c9 /\ c10
  <2>1. d = Owned(p, b, beat, PercentWalk(p, b))
        /\ p.strategy \in {"percent_of_whole", "percent_change"} /\ works
    BY <1>1, <1>3, <1>15
  <2>2. Goes(p, h, b, PercentWalk(p, b), {})
    BY <2>1, PercentWalked
  <2>3. KindGoes(p, h, b, beat, d)
    BY <1>2, <2>1, <2>2, QuietOwned
  <2>4. QED BY <2>3 DEF d
<1>16. CASE ~c1 /\ ~c2 /\ ~c3 /\ ~c4 /\ ~c5 /\ ~c6 /\ ~c7 /\ ~c8 /\ ~c9 /\ ~c10 /\ c11
  <2>1. d = RotationWalk(p, b, beat) /\ p.strategy = "rotation" /\ works
    BY <1>1, <1>3, <1>16
  <2>2. Goes(p, h, b, d, {"turn"})
    BY <1>2, <2>1, RotationWalked
  <2>3. Distinct(p) => KindClasses(p, beat) = {"turn"}
    BY <1>3, <1>4, <1>16, <2>1
  <2>4. {"turn"} \in SUBSET {"hop", "distance", "turn", "value"}
    OBVIOUS
  <2>5. KindGoes(p, h, b, beat, d)
    BY <2>2, <2>3, <2>4 DEF KindGoes
  <2>6. QED BY <2>5 DEF d
<1>17. CASE ~c1 /\ ~c2 /\ ~c3 /\ ~c4 /\ ~c5 /\ ~c6 /\ ~c7 /\ ~c8 /\ ~c9 /\ ~c10 /\ ~c11 /\ c12
  <2>1. d = UnitRateWalk(p, b, beat) /\ p.strategy = "unit_rate" /\ works
    BY <1>1, <1>3, <1>17
  <2>2. Goes(p, h, b, d, {})
    BY <1>2, <2>1, UnitRateWalked
  <2>3. KindGoes(p, h, b, beat, d)
    BY <2>1, <2>2, QuietGoes
  <2>4. QED BY <2>3 DEF d
<1>18. CASE ~c1 /\ ~c2 /\ ~c3 /\ ~c4 /\ ~c5 /\ ~c6 /\ ~c7 /\ ~c8 /\ ~c9 /\ ~c10 /\ ~c11 /\ ~c12
  <2>1. d = Ordinary(p, b, beat)
    BY <1>1, <1>18
  <2>2. Goes(p, h, b, d, OrdinaryClasses(p, beat))
    BY <1>2, <2>1, OrdinaryGoes
  <2>3. KindClasses(p, beat) = OrdinaryClasses(p, beat)
    BY <1>4, <1>5, <1>18
  <2>4. OrdinaryClasses(p, beat) \in SUBSET {"hop", "distance", "turn", "value"}
    BY <1>5
  <2>5. KindGoes(p, h, b, beat, d)
    BY <2>2, <2>3, <2>4 DEF KindGoes
  <2>6. QED BY <2>5 DEF d
<1>19. QED
  BY <1>6, <1>7, <1>8, <1>9, <1>10, <1>11, <1>12, <1>13, <1>14, <1>15, <1>16, <1>17, <1>18

-----------------------------------------------------------------------------
(* The rest of a beat.                                                      *)

LEMMA OneNamedRevealed ==
    ASSUME NEW p, NEW h, NEW b, Agree(p, h, b), NEW t, Nameable(p, t), NEW mode
    PROVE  Goes(p, h, b, RevealUnrevealed(p, b, <<t>>, mode), {})
<1> DEFINE x == <<t>>
<1>1. Listed(x) /\ Range(x) = {t} /\ DOMAIN x = {1}
  BY ListOfOne
<1>2. NamesOnce(p, x)
  <2>1. \A i \in DOMAIN x : 1..(i - 1) = {}
    <3>1. 1..(1 - 1) = {}
      OBVIOUS
    <3>2. QED BY <1>1, <3>1
  <2> HIDE DEF x
  <2>2. QED BY <2>1 DEF NamesOnce
<1> HIDE DEF x
<1>3. \A u \in Range(x) : Nameable(p, u)
  BY <1>1
<1>4. Goes(p, h, b, RevealUnrevealed(p, b, x, mode), {})
  BY <1>1, <1>2, <1>3, NamedRevealed
<1>5. QED BY <1>4 DEF x

LEMMA RayGoes ==
    ASSUME NEW p, NEW goal, Admitted(p, goal), NEW h, NEW b, Agree(p, h, b), NEW beat
    PROVE  Goes(p, h, b, RayParts(p, b, beat), {})
<1> DEFINE t == Part(p.primary.ref, "boundary", 0)
           u == Part(p.primary.ref, "ray", 0)
<1>1. "boundary" # None /\ "ray" # None
  BY PartsAssumption DEF PartClasses
<1>2. Nameable(p, t) /\ Nameable(p, u)
  <2>1. p.primary.ref \in Refs(p)
    BY PrimaryRef
  <2>2. IsTarget(t) /\ t.visual = p.primary.ref /\ t.part = "boundary"
    BY <1>1, PartTarget
  <2>3. IsTarget(u) /\ u.visual = p.primary.ref /\ u.part = "ray"
    BY <1>1, PartTarget
  <2> HIDE DEF t, u
  <2>4. QED BY <2>1, <2>2, <2>3 DEF Nameable
<1>3. \/ RayParts(p, b, beat) = b
      \/ RayParts(p, b, beat) = RevealUnrevealed(p, b, <<t>>, "together")
      \/ RayParts(p, b, beat) = RevealUnrevealed(p, b, <<u>>, "together")
  BY DEF RayParts
<1> HIDE DEF t, u
<1>4. QED BY <1>2, <1>3, OneNamedRevealed, GoesNowhere

LEMMA TraceGoes ==
    ASSUME NEW p, NEW h, NEW b, Agree(p, h, b), NEW beat
    PROVE  Goes(p, h, b, Traced(p, b, beat), IF beat.id = TraceBeat(p) THEN {"outline"} ELSE {})
<1>1. CASE beat.id # TraceBeat(p)
  <2>1. Traced(p, b, beat) = b
    BY <1>1 DEF Traced
  <2>2. QED BY <1>1, <2>1, GoesNowhere
<1>2. CASE beat.id = TraceBeat(p)
  <2> DEFINE a == Trace(OwnPath(p))
             x == <<a>>
  <2>1. a.kind = "trace"
    BY DEF Trace
  <2>2. Traced(p, b, beat) = Emit(b, x)
    BY <1>2 DEF Traced
  <2>3. Listed(x) /\ DOMAIN x = {1} /\ x[1] = a
    BY ListOfOne
  <2>4. x = Moves(p, "outline") /\ "outline" \in Classes
    BY DEF Moves, Classes
  <2>5. ShowStage("work").kind = "show_answer_stage" /\ ShowStage("value").kind = "show_answer_stage"
    BY DEF ShowStage
  <2> HIDE DEF a, x
  <2>6. a # ShowStage("work") /\ a # ShowStage("value")
    BY <2>1, <2>5
  <2>7. \A c \in Classes \ {"outline"} : ~InClass(p, c, a)
    BY <2>1, <2>6 DEF InClass
  <2>8. PlaysOut(p, x, {"outline"})
    BY <2>3, <2>4, <2>7, MovesPlayOut
  <2>9. \A k \in DOMAIN x : x[k].kind \notin {"reveal", "set_role"}
    BY <2>1, <2>3
  <2>10. Goes(p, h, b, Emit(b, x), {"outline"})
    BY <2>3, <2>8, <2>9, EmittedOthers
  <2>11. QED BY <1>2, <2>2, <2>10
<1>3. QED BY <1>1, <1>2

LEMMA LabelsDeferred ==
    ASSUME NEW p, NEW goal, Admitted(p, goal), UnitStrategy(p)
    PROVE  Deferred(p, Labels(p)) /\ PlaysOut(p, Moves(p, "label"), {"label"})
<1>1. p.primary.kind = "unit_tape" /\ p.primary.ref \in Refs(p)
  BY StrategyKinds, PrimaryRef
<1>2. Listed(p.supporting)
  BY PrimaryRef
<1>3. p.primary \in Range(Visuals(p))
  BY <1>2, RefsOfVisuals
<1>4. Labels(p).part = "target_label" /\ Labels(p).visual = p.primary.ref
  BY LabelParts
<1>5. Deferred(p, Labels(p))
  BY <1>1, <1>3, <1>4 DEF Deferred, DeferredParts
<1> DEFINE t == Labels(p)
           y == <<t>>
           a == Reveal(y, "stagger")
           x == <<a>>
<1>6. Listed(x) /\ DOMAIN x = {1} /\ x[1] = a /\ Range(y) = {t}
  BY ListOfOne
<1>7. a.kind = "reveal" /\ a.targets = y
  BY DEF Reveal
<1>8. x = Moves(p, "label") /\ "label" \in Classes
  BY DEF Moves, Classes
<1>9. ShowStage("work").kind = "show_answer_stage" /\ ShowStage("value").kind = "show_answer_stage"
  BY DEF ShowStage
<1> HIDE DEF t, y, a, x
<1>10. a # ShowStage("work") /\ a # ShowStage("value")
  BY <1>7, <1>9
<1>11. t.visual \in Refs(p)
  BY <1>1, <1>4 DEF t
<1>12. \A c \in Classes \ {"label"} : ~InClass(p, c, a)
  BY <1>6, <1>7, <1>10, <1>11 DEF InClass
<1>13. PlaysOut(p, x, {"label"})
  BY <1>6, <1>8, <1>12, MovesPlayOut
<1>14. QED BY <1>5, <1>8, <1>13

LEMMA UnitNamedGoes ==
    ASSUME NEW p, NEW goal, Admitted(p, goal), NEW h, NEW b, Agree(p, h, b),
           NEW n \in DOMAIN p.beats, NEW beat, beat = p.beats[n],
           (Clean(p) /\ beat.id = LabelBeat(p)) => Absent(p, "label", h \o b.actions)
    PROVE  Goes(p, h, b, UnitNamed(p, b, beat), IF beat.id = LabelBeat(p) THEN {"label"} ELSE {})
<1>1. CASE beat.id # LabelBeat(p)
  <2>1. UnitNamed(p, b, beat) = b
    BY <1>1 DEF UnitNamed
  <2>2. QED BY <1>1, <2>1, GoesNowhere
<1>2. CASE beat.id = LabelBeat(p)
  <2>1. UnitNamed(p, b, beat) = Emit(b, <<Reveal(<<Labels(p)>>, "stagger")>>)
    BY <1>2 DEF UnitNamed
  <2>2. UnitStrategy(p)
    BY <1>2, SelectedBeat
  <2>3. Deferred(p, Labels(p)) /\ PlaysOut(p, Moves(p, "label"), {"label"})
    BY <2>2, LabelsDeferred
  <2>4. Goes(p, h, b, Emit(b, <<Reveal(<<Labels(p)>>, "stagger")>>), {"label"})
    BY <1>2, <2>2, <2>3, Labelled
  <2>5. QED BY <1>2, <2>1, <2>4
<1>3. QED BY <1>1, <1>2

LEMMA NeverIdleGoes ==
    ASSUME NEW p, NEW h, NEW b, Agree(p, h, b), NEW beat, AllColourable(p, beat.targets)
    PROVE  Goes(p, h, b, NeverIdle(p, b, beat), {})
BY ChangedInTurn, GoesNowhere DEF NeverIdle

\* The list of one pending target.
LEMMA OnePending ==
    ASSUME NEW p, NEW b, NEW t, ~IsRevealed(p, b, t)
    PROVE  Pending(p, b, <<t>>) = <<t>>
<1> DEFINE x == <<t>>
           y == Pending(p, b, x)
<1>1. Listed(x) /\ Range(x) = {t} /\ DOMAIN x = {1} /\ Len(x) = 1 /\ x[1] = t
  BY ListOfOne
<1> HIDE DEF x
<1>2. Listed(y) /\ \A u : u \in Range(y) <=> (u \in Range(x) /\ ~IsRevealed(p, b, u))
  BY <1>1, PendingElements
<1>3. \A i, j \in DOMAIN y : ~(i < j)
  <2>1. SUFFICES ASSUME NEW i \in DOMAIN y, NEW j \in DOMAIN y, i < j PROVE FALSE
    OBVIOUS
  <2> DEFINE places == {k \in DOMAIN x : ~IsRevealed(p, b, x[k])}
  <2>2. y = Kept(x, places)
    BY DEF Pending
  <2> HIDE DEF places, y
  <2>3. \E k, l \in DOMAIN x : k < l
    BY <1>1, <2>1, <2>2, KeptOrder
  <2>4. QED BY <1>1, <2>3
<1> HIDE DEF y
<1>4. DOMAIN y = 1..Len(y) /\ Len(y) \in Nat /\ \A u : u \in Range(y) <=> \E k \in 1..Len(y) : y[k] = u
  BY <1>2, ListPlaces
<1>5. t \in Range(y)
  BY <1>1, <1>2
<1>6. Len(y) = 1 /\ y[1] = t
  <2>1. PICK k \in 1..Len(y) : y[k] = t
    BY <1>4, <1>5
  <2>2. ~(2 <= Len(y))
    <3>1. SUFFICES ASSUME 2 <= Len(y) PROVE FALSE
      OBVIOUS
    <3>2. 1 \in DOMAIN y /\ 2 \in DOMAIN y /\ 1 < 2
      BY <1>4, <3>1
    <3>3. QED BY <1>3, <3>2
  <2>3. Len(y) = 1 /\ k = 1
    BY <1>4, <2>1, <2>2
  <2>4. QED BY <2>1, <2>3
<1>7. Len(y) = Len(x) /\ \A k \in 1..Len(y) : y[k] = x[k]
  BY <1>1, <1>6
<1>8. y = x
  BY <1>1, <1>2, <1>7, SameList
<1>9. QED BY <1>8 DEF y, x

PosedClasses(p, n) == IF n = 1 /\ Declared(p) /\ Answer \notin Refs(p) THEN {"posed"} ELSE {}

LEMMA PosedGoes ==
    ASSUME NEW p, NEW goal, Admitted(p, goal), NEW h, NEW b, Agree(p, h, b), NEW n,
           n = 1 => Absent(p, "posed", h \o b.actions)
    PROVE  Goes(p, h, b, Posed(p, b, n), PosedClasses(p, n))
<1> DEFINE t == Whole(Answer)
           x == <<t>>
           mode == PosedMode(p)
<1>1. CASE ~(n = 1 /\ Declared(p))
  <2>1. Posed(p, b, n) = b /\ PosedClasses(p, n) = {}
    BY <1>1 DEF Posed, PosedClasses
  <2>2. QED BY <2>1, GoesNowhere
<1>2. CASE n = 1 /\ Declared(p) /\ Answer \in Refs(p)
  <2>1. Posed(p, b, n) = RevealUnrevealed(p, b, x, mode) /\ PosedClasses(p, n) = {}
    BY <1>2 DEF Posed, PosedClasses, PosedMode
  <2>2. Nameable(p, t)
    <3>1. IsTarget(t) /\ t.visual = Answer /\ t.part = None
      BY WholeParts
    <3>2. t.part # "target_label"
      BY <3>1, PartsAssumption DEF PartClasses
    <3> HIDE DEF t
    <3>3. QED BY <1>2, <3>1, <3>2 DEF Nameable
  <2> HIDE DEF t, mode
  <2>3. Goes(p, h, b, RevealUnrevealed(p, b, x, mode), {})
    BY <2>2, OneNamedRevealed
  <2>4. QED BY <2>1, <2>3
<1>3. CASE n = 1 /\ Declared(p) /\ Answer \notin Refs(p)
  <2> DEFINE s == h \o b.actions
             a == Reveal(x, mode)
             z == <<a>>
  <2>1. Posed(p, b, n) = RevealUnrevealed(p, b, x, mode) /\ PosedClasses(p, n) = {"posed"}
    BY <1>3 DEF Posed, PosedClasses, PosedMode
  <2>2. IsTarget(t) /\ t.visual = Answer /\ t.part = None
    BY WholeParts
  <2>3. Showable(p, t)
    <3>1. t.part # "target_label"
      BY <2>2, PartsAssumption DEF PartClasses
    <3> HIDE DEF t
    <3>2. QED BY <1>3, <2>2, <3>1 DEF Showable, Colourable, KnownRefs
  <2>4. ~IsRevealed(p, b, t)
    <3>1. SUFFICES ASSUME IsRevealed(p, b, t) PROVE FALSE
      OBVIOUS
    <3>2. t \in b.revealed
      BY <3>1, WholeRevealed
    <3>3. RevealsKept(p, b.revealed, s)
      BY DEF Agree
    <3> HIDE DEF t, s
    <3>4. PICK k \in DOMAIN s : s[k].kind = "reveal" /\ t \in Range(s[k].targets)
      BY <3>2, <3>3 DEF RevealsKept
    <3>5. InClass(p, "posed", s[k])
      BY <1>3, <2>2, <3>4 DEF InClass
    <3>6. QED BY <1>3, <3>5 DEF Absent, s
  <2>5. Pending(p, b, x) = x
    BY <2>4, OnePending
  <2>6. Listed(x) /\ DOMAIN x = {1} /\ Range(x) = {t} /\ x[1] = t /\ Len(x) = 1
    BY ListOfOne
  <2>7. NamesOnce(p, x)
    <3>1. \A i \in DOMAIN x : 1..(i - 1) = {}
      <4>1. 1..(1 - 1) = {}
        OBVIOUS
      <4>2. QED BY <2>6, <4>1
    <3> HIDE DEF x
    <3>2. QED BY <3>1 DEF NamesOnce
  <2>8. PlaysOut(p, z, {"posed"})
    <3>1. Listed(z) /\ DOMAIN z = {1} /\ z[1] = a
      BY ListOfOne
    <3>2. z = Moves(p, "posed") /\ "posed" \in Classes
      BY DEF Moves, Classes
    <3>3. a.kind = "reveal" /\ a.targets = x
      BY DEF Reveal
    <3>4. ShowStage("work").kind = "show_answer_stage" /\ ShowStage("value").kind = "show_answer_stage"
      BY DEF ShowStage
    <3>5. t.part # "target_label"
      BY <2>2, PartsAssumption DEF PartClasses
    <3> HIDE DEF t, x, a, z
    <3>6. a # ShowStage("work") /\ a # ShowStage("value")
      BY <3>3, <3>4
    <3>7. \A c \in Classes \ {"posed"} : ~InClass(p, c, a)
      BY <2>6, <3>3, <3>5, <3>6 DEF InClass
    <3>8. QED BY <3>1, <3>2, <3>7, MovesPlayOut
  <2>9. x # <<>>
    BY <2>6, EmptyList
  <2>10. \A u \in Range(x) : Showable(p, u)
    BY <2>3, <2>6
  <2>11. PlaysOut(p, <<Reveal(Pending(p, b, x), mode)>>, {"posed"}) /\ Pending(p, b, x) # <<>>
    BY <2>5, <2>8, <2>9
  <2> HIDE DEF t, x, a, z, s, mode
  <2>12. Goes(p, h, b, RevealUnrevealed(p, b, x, mode), {"posed"})
    BY <2>6, <2>7, <2>10, <2>11, Revealed
  <2>13. QED BY <2>1, <2>12
<1>4. QED BY <1>1, <1>2, <1>3

WorkClasses(p, goal, beat) == IF beat.id = WorkBeat(p, goal) THEN {"work"} ELSE {}

LEMMA WorkGoes ==
    ASSUME NEW p, NEW goal, NEW h, NEW b, Agree(p, h, b), NEW beat
    PROVE  Goes(p, h, b, WorkedOut(p, goal, b, beat), WorkClasses(p, goal, beat))
<1>1. CASE beat.id = WorkBeat(p, goal)
  <2>1. WorkedOut(p, goal, b, beat) = Emit(b, <<ShowStage("work")>>) /\ WorkClasses(p, goal, beat) = {"work"}
    BY <1>1 DEF WorkedOut, WorkClasses
  <2>2. QED BY <2>1, StageShown
<1>2. CASE beat.id # WorkBeat(p, goal)
  <2>1. WorkedOut(p, goal, b, beat) = b /\ WorkClasses(p, goal, beat) = {}
    BY <1>2 DEF WorkedOut, WorkClasses
  <2>2. QED BY <2>1, GoesNowhere
<1>3. QED BY <1>1, <1>2

-----------------------------------------------------------------------------
(* A whole beat.                                                            *)

TraceClasses(p, beat) == IF beat.id = TraceBeat(p) THEN {"outline"} ELSE {}

LabelClasses(p, beat) == IF beat.id = LabelBeat(p) THEN {"label"} ELSE {}

\* The moves that a beat stages.
ClassesOf(p, goal, n) ==
    ((((KindClasses(p, p.beats[n]) \cup TraceClasses(p, p.beats[n])) \cup LabelClasses(p, p.beats[n]))
        \cup PosedClasses(p, n)) \cup WorkClasses(p, goal, p.beats[n]))

\* A class that was absent and is not played stays absent.
LEMMA GoesAbsent ==
    ASSUME NEW p, NEW h, NEW b, Agree(p, h, b), NEW d, NEW C, Goes(p, h, b, d, C),
           NEW c \in Classes, c \notin C, Absent(p, c, h \o b.actions)
    PROVE  Absent(p, c, h \o d.actions)
<1>1. PICK x : Listed(x) /\ d.actions = b.actions \o x /\ PlaysOut(p, x, C)
  BY DEF Goes, Plays
<1>2. Absent(p, c, x)
  BY <1>1 DEF PlaysOut, StagedOrAbsent
<1> DEFINE f == b.actions
<1>3. Listed(h) /\ Listed(f)
  BY DEF Agree
<1>4. d.actions = f \o x
  BY <1>1
<1>5. Absent(p, c, h \o f)
  OBVIOUS
<1> HIDE DEF f
<1>6. Listed(h \o f)
  BY <1>3, JoinedLists
<1>7. Absent(p, c, (h \o f) \o x)
  BY <1>1, <1>2, <1>5, <1>6, AbsentJoined
<1>8. (h \o f) \o x = h \o d.actions
  BY <1>1, <1>3, <1>4, JoinedTwice, SMTT(20)
<1>9. QED BY <1>7, <1>8

LEMMA AbsentNothing ==
    ASSUME NEW p, NEW c
    PROVE  Absent(p, c, <<>>)
BY EmptyList DEF Absent

\* From the beat's own reveal to its end.
AfterShown(p, h, goal, n, b, d) ==
    \E C : /\ Goes(p, h, b, d, C)
           /\ p.beats[n].id = LabelBeat(p) => "label" \in C
           /\ Distinct(p) => C = ClassesOf(p, goal, n)

Finished(p, goal, n, b) ==
    WorkedOut(p, goal,
        Posed(p, CustomActions(p,
            NeverIdle(p, UnitNamed(p, Traced(p, RayParts(p,
                KindActions(p, b, p.beats[n]), p.beats[n]), p.beats[n]), p.beats[n]), p.beats[n]), n), n),
        p.beats[n])

LEMMA FinishedGoes ==
    ASSUME NEW p, NEW goal, Admitted(p, goal), NEW n \in DOMAIN p.beats, NEW h, NEW b, Agree(p, h, b),
           n = 1 => Absent(p, "posed", h \o b.actions),
           (Clean(p) /\ p.beats[n].id = LabelBeat(p)) => Absent(p, "label", h \o b.actions)
    PROVE  /\ AfterShown(p, h, goal, n, b, Finished(p, goal, n, b))
           /\ \A a \in Range(p.beats[n].custom) : a.kind = "reveal" =>
                 \A t \in Range(a.targets) : IsRevealed(p, Finished(p, goal, n, b), t)
<1> DEFINE beat == p.beats[n]
           b2 == KindActions(p, b, beat)
           b3 == RayParts(p, b2, beat)
           b4 == Traced(p, b3, beat)
           b5 == UnitNamed(p, b4, beat)
           b6 == NeverIdle(p, b5, beat)
           b7 == CustomActions(p, b6, n)
           b8 == Posed(p, b7, n)
           b9 == WorkedOut(p, goal, b8, beat)
           Ct == TraceClasses(p, beat)
           Cl == LabelClasses(p, beat)
           Cp == PosedClasses(p, n)
           Cw == WorkClasses(p, goal, beat)
<1>1. Finished(p, goal, n, b) = b9
  BY DEF Finished
<1>2. Ct \subseteq {"outline"} /\ Cl \subseteq {"label"} /\ Cp \subseteq {"posed"} /\ Cw \subseteq {"work"}
  BY DEF TraceClasses, LabelClasses, PosedClasses, WorkClasses
<1>3. AllColourable(p, beat.targets)
  <2>1. Listed(beat.targets) /\ \A t \in Range(beat.targets) : Nameable(p, t)
    BY TargetsNameable
  <2>2. QED BY <2>1, NameableIsShowable DEF AllColourable
<1>4. PICK C \in SUBSET {"hop", "distance", "turn", "value"} :
         Goes(p, h, b, b2, C) /\ (Distinct(p) => C = KindClasses(p, beat))
  BY KindActed DEF KindGoes
<1>5. ClassesOf(p, goal, n) = ((((KindClasses(p, beat) \cup Ct) \cup Cl) \cup Cp) \cup Cw)
  BY DEF ClassesOf
<1>6. beat.id = LabelBeat(p) => "label" \in Cl
  BY DEF LabelClasses
<1> HIDE DEF b2
<1>7. Goes(p, h, b2, b3, {})
  BY <1>4, GoesAgree, RayGoes
<1>8. Goes(p, h, b, b3, C)
  BY <1>4, <1>7, GoesOn
<1> HIDE DEF b3
<1>9. Goes(p, h, b3, b4, Ct)
  BY <1>8, GoesAgree, TraceGoes DEF TraceClasses
<1>10. Goes(p, h, b, b4, C \cup Ct)
  <2>1. C \cap Ct = {}
    BY <1>2, <1>4
  <2> HIDE DEF b4, Ct
  <2>2. QED BY <1>8, <1>9, <2>1, GoesThen
<1> HIDE DEF b4, Ct
<1>11. (Clean(p) /\ beat.id = LabelBeat(p)) => Absent(p, "label", h \o b4.actions)
  <2>1. "label" \in Classes /\ "label" \notin C \cup Ct
    BY <1>2, <1>4 DEF Classes
  <2>2. QED BY <1>10, <2>1, GoesAbsent
<1>12. Goes(p, h, b4, b5, Cl)
  BY <1>10, <1>11, GoesAgree, UnitNamedGoes DEF LabelClasses
<1>13. Goes(p, h, b, b5, (C \cup Ct) \cup Cl)
  <2>1. (C \cup Ct) \cap Cl = {}
    BY <1>2, <1>4
  <2> HIDE DEF b5, Cl
  <2>2. QED BY <1>10, <1>12, <2>1, GoesThen
<1> HIDE DEF b5, Cl
<1>14. Goes(p, h, b5, b6, {})
  BY <1>3, <1>13, GoesAgree, NeverIdleGoes
<1> HIDE DEF b6
<1>15. Goes(p, h, b, b6, (C \cup Ct) \cup Cl)
  BY <1>13, <1>14, GoesOn
<1>16. /\ Goes(p, h, b6, b7, {})
       /\ \A a \in Range(beat.custom) : a.kind = "reveal" =>
             \A t \in Range(a.targets) : IsRevealed(p, b7, t)
  <2>1. /\ Listed(beat.custom)
        /\ \A a \in Range(beat.custom) : CustomAllowed(p, a)
    BY CustomIsAllowed
  <2>2. Agree(p, h, b6)
    BY <1>15, GoesAgree
  <2>3. QED BY <2>1, <2>2, CustomInTurn
<1> HIDE DEF b7
<1>17. Goes(p, h, b, b7, (C \cup Ct) \cup Cl)
  BY <1>15, <1>16, GoesOn
<1>18. n = 1 => Absent(p, "posed", h \o b7.actions)
  <2>1. "posed" \in Classes /\ "posed" \notin (C \cup Ct) \cup Cl
    BY <1>2, <1>4 DEF Classes
  <2>2. QED BY <1>17, <2>1, GoesAbsent
<1>19. Goes(p, h, b7, b8, Cp)
  BY <1>17, <1>18, GoesAgree, PosedGoes
<1>20. Goes(p, h, b, b8, ((C \cup Ct) \cup Cl) \cup Cp)
  <2>1. ((C \cup Ct) \cup Cl) \cap Cp = {}
    BY <1>2, <1>4
  <2> HIDE DEF b8, Cp
  <2>2. QED BY <1>17, <1>19, <2>1, GoesThen
<1> HIDE DEF b8, Cp
<1>21. Goes(p, h, b8, b9, Cw)
  BY <1>20, GoesAgree, WorkGoes
<1>22. Goes(p, h, b, b9, (((C \cup Ct) \cup Cl) \cup Cp) \cup Cw)
  <2>1. (((C \cup Ct) \cup Cl) \cup Cp) \cap Cw = {}
    BY <1>2, <1>4
  <2> HIDE DEF b9, Cw
  <2>2. QED BY <1>20, <1>21, <2>1, GoesThen
<1> HIDE DEF b9, Cw
<1> DEFINE D == (((C \cup Ct) \cup Cl) \cup Cp) \cup Cw
<1>23. Distinct(p) => D = ClassesOf(p, goal, n)
  BY <1>4, <1>5
<1>24. beat.id = LabelBeat(p) => "label" \in D
  BY <1>6
<1> HIDE DEF D
<1>25. AfterShown(p, h, goal, n, b, b9)
  BY <1>22, <1>23, <1>24 DEF AfterShown, D
<1>26. ASSUME NEW a \in Range(beat.custom), a.kind = "reveal", NEW t \in Range(a.targets)
       PROVE  IsRevealed(p, b9, t)
  <2>1. IsRevealed(p, b7, t)
    BY <1>16, <1>26
  <2>2. IsRevealed(p, b8, t)
    BY <1>19, <2>1, GoesReveals
  <2>3. QED BY <1>21, <2>2, GoesReveals
<1>27. QED BY <1>1, <1>25, <1>26

\* An action of a list reveals a whole.
ShowsWholeAt(s, k, ref) == k \in DOMAIN s /\ s[k].kind = "reveal" /\ Whole(ref) \in Range(s[k].targets)

WholeShown(s, ref) == \E k \in DOMAIN s : ShowsWholeAt(s, k, ref)

LEMMA KeptIsShown ==
    ASSUME NEW p, NEW revealed, NEW s, RevealsKept(p, revealed, s), NEW ref, Whole(ref) \in revealed
    PROVE  WholeShown(s, ref)
<1>1. PICK k \in DOMAIN s : s[k].kind = "reveal" /\ Whole(ref) \in Range(s[k].targets)
  BY DEF RevealsKept
<1>2. ShowsWholeAt(s, k, ref)
  BY <1>1 DEF ShowsWholeAt
<1>3. QED BY <1>2 DEF WholeShown

LEMMA ShownJoined ==
    ASSUME NEW s, NEW x, Listed(s), Listed(x), NEW ref, WholeShown(s \o x, ref)
    PROVE  WholeShown(s, ref) \/ WholeShown(x, ref)
<1>1. PICK k \in DOMAIN (s \o x) : ShowsWholeAt(s \o x, k, ref)
  BY DEF WholeShown
<1> DEFINE z == s \o x
<1>2. z[k].kind = "reveal" /\ Whole(ref) \in Range(z[k].targets) /\ k \in DOMAIN z
  BY <1>1 DEF ShowsWholeAt
<1>3. \A i \in DOMAIN s : z[i] = s[i]
  BY PlacesJoined
<1>4. k \in DOMAIN s \/ \E i \in DOMAIN x : z[k] = x[i]
  BY <1>2, SecondList
<1> HIDE DEF z
<1>5. CASE k \in DOMAIN s
  <2>1. ShowsWholeAt(s, k, ref)
    BY <1>2, <1>3, <1>5 DEF ShowsWholeAt
  <2>2. QED BY <1>5, <2>1 DEF WholeShown
<1>6. CASE \E i \in DOMAIN x : z[k] = x[i]
  <2>1. PICK i \in DOMAIN x : z[k] = x[i]
    BY <1>6
  <2>2. ShowsWholeAt(x, i, ref)
    BY <1>2, <2>1 DEF ShowsWholeAt
  <2>3. QED BY <2>2 DEF WholeShown
<1>7. QED BY <1>4, <1>5, <1>6

\* A beat that has been expanded: what it stages, what it has put on screen, and, when its
\* targets name a whole, that the whole is there from its first action on.
BeatExpanded(p, h, goal, n, d) ==
    /\ Agree(p, h, d)
    /\ Distinct(p) => PlaysOut(p, d.actions, ClassesOf(p, goal, n))
    /\ \A ref : RevealsWhole(p.beats[n], ref) => Whole(ref) \in d.revealed
    /\ \A ref : NamesWhole(p.beats[n], ref) => WholeShown(h, ref) \/ ShowsWholeAt(d.actions, 1, ref)
    /\ p.beats[n].id = LabelBeat(p) =>
          \E k \in DOMAIN d.actions : d.actions[k] = Reveal(<<Labels(p)>>, "stagger")

Fresh(b) == [b EXCEPT !.actions = <<>>]

Named(p, b, beat) == RevealUnrevealed(p, b, beat.targets, PosedMode(p))

LEMMA ExpandBeatIs ==
    ASSUME NEW p, NEW goal, NEW b, NEW n
    PROVE  ExpandBeat(p, goal, b, n) = Finished(p, goal, n, Named(p, Fresh(b), p.beats[n]))
BY DEF ExpandBeat, StandardActions, Finished, Named, Fresh, PosedMode

\* The names of the target unit are in the actions that stage them.
LEMMA LabelStaged ==
    ASSUME NEW p, NEW x, NEW C, PlaysOut(p, x, C), Listed(x), "label" \in C
    PROVE  \E k \in DOMAIN x : x[k] = Reveal(<<Labels(p)>>, "stagger")
<1> DEFINE m == <<Reveal(<<Labels(p)>>, "stagger")>>
<1>1. "label" \in Classes /\ Moves(p, "label") = m
  BY DEF Classes, Moves
<1>2. Staged(p, "label", x, m)
  BY <1>1 DEF PlaysOut, StagedOrAbsent
<1>3. PICK i \in 0..Len(x) : Run(p, "label", x, m, i)
  BY <1>2 DEF Staged
<1>4. Len(m) = 1 /\ DOMAIN m = {1} /\ m[1] = Reveal(<<Labels(p)>>, "stagger")
  BY ListOfOne
<1> HIDE DEF m
<1>5. i + 1 <= Len(x) /\ x[i + 1] = m[1]
  BY <1>3, <1>4 DEF Run
<1>6. Len(x) \in Nat /\ DOMAIN x = 1..Len(x)
  BY ListPlaces
<1>7. i + 1 \in DOMAIN x
  BY <1>5, <1>6
<1>8. QED BY <1>4, <1>5, <1>7

LEMMA BeatIsExpanded ==
    ASSUME NEW p, NEW goal, Admitted(p, goal), NEW n \in DOMAIN p.beats, NEW h, NEW b,
           Agree(p, h, Fresh(b)), Fresh(b).actions = <<>>, n = 1 => h = <<>>,
           (Clean(p) /\ p.beats[n].id = LabelBeat(p)) => Absent(p, "label", h)
    PROVE  BeatExpanded(p, h, goal, n, ExpandBeat(p, goal, b, n))
<1> DEFINE beat == p.beats[n]
           f == Fresh(b)
           g == Named(p, f, beat)
           d == Finished(p, goal, n, g)
<1>1. ExpandBeat(p, goal, b, n) = d
  BY ExpandBeatIs
<1>2. /\ Listed(beat.targets)
      /\ \A t \in Range(beat.targets) : Nameable(p, t)
      /\ Clean(p) => NamesOnce(p, beat.targets)
  BY TargetsNameable
<1>3. Agree(p, h, f) /\ f.actions = <<>>
  OBVIOUS
<1> HIDE DEF f
<1>4. /\ Goes(p, h, f, g, {})
      /\ \A t \in Range(beat.targets) : IsRevealed(p, g, t)
      /\ RevealStep(f, g)
  <2> DEFINE ts == beat.targets
             md == PosedMode(p)
  <2>1. Listed(ts) /\ (\A t \in Range(ts) : Nameable(p, t)) /\ (Clean(p) => NamesOnce(p, ts))
    BY <1>2
  <2> HIDE DEF ts, md
  <2>2. /\ Goes(p, h, f, RevealUnrevealed(p, f, ts, md), {})
        /\ \A t \in Range(ts) : IsRevealed(p, RevealUnrevealed(p, f, ts, md), t)
        /\ RevealStep(f, RevealUnrevealed(p, f, ts, md))
    BY <1>3, <2>1, NamedRevealed
  <2>3. g = RevealUnrevealed(p, f, ts, md)
    BY DEF Named, ts, md
  <2>4. QED BY <2>2, <2>3 DEF ts
<1> HIDE DEF g
<1>5. Agree(p, h, g)
  BY <1>4, GoesAgree
<1>6. Listed(h) /\ h \o <<>> = h
  BY <1>3, JoinedWithNone DEF Agree
<1>7. \A c \in Classes : Absent(p, c, h) => Absent(p, c, h \o g.actions)
  <2>1. SUFFICES ASSUME NEW c \in Classes, Absent(p, c, h) PROVE Absent(p, c, h \o g.actions)
    OBVIOUS
  <2>2. h \o f.actions = h
    BY <1>3, <1>6
  <2>3. Absent(p, c, h \o f.actions)
    BY <2>1, <2>2
  <2> DEFINE E == {}
  <2>4. c \notin E /\ Goes(p, h, f, g, E)
    BY <1>4
  <2> HIDE DEF E
  <2>5. QED BY <1>3, <2>3, <2>4, GoesAbsent
<1>8. n = 1 => Absent(p, "posed", h \o g.actions)
  BY <1>7, AbsentNothing DEF Classes
<1>9. (Clean(p) /\ beat.id = LabelBeat(p)) => Absent(p, "label", h \o g.actions)
  BY <1>7 DEF Classes
<1>10. /\ AfterShown(p, h, goal, n, g, d)
       /\ \A a \in Range(beat.custom) : a.kind = "reveal" =>
             \A t \in Range(a.targets) : IsRevealed(p, d, t)
  BY <1>5, <1>8, <1>9, FinishedGoes
<1> HIDE DEF d
<1>11. PICK C : /\ Goes(p, h, g, d, C)
                /\ beat.id = LabelBeat(p) => "label" \in C
                /\ Distinct(p) => C = ClassesOf(p, goal, n)
  BY <1>10 DEF AfterShown
<1>12. Agree(p, h, d)
  BY <1>11, GoesAgree
<1>13. PlaysOut(p, d.actions, C) /\ Listed(d.actions)
  <2>1. {} \cap C = {} /\ {} \cup C = C
    OBVIOUS
  <2>2. Goes(p, h, f, d, {} \cup C)
    BY <1>3, <1>4, <1>11, <2>1, GoesThen
  <2>3. PICK x : Listed(x) /\ d.actions = f.actions \o x /\ PlaysOut(p, x, C)
    BY <2>1, <2>2 DEF Goes, Plays
  <2>4. d.actions = x
    BY <1>3, <2>3, JoinedWithNone
  <2>5. QED BY <2>3, <2>4
<1>14. ASSUME NEW ref, RevealsWhole(beat, ref) PROVE Whole(ref) \in d.revealed
  <2>1. IsRevealed(p, d, Whole(ref))
    <3>1. CASE NamesWhole(beat, ref)
      <4>1. Whole(ref) \in Range(beat.targets)
        BY <3>1 DEF NamesWhole, Range
      <4>2. IsRevealed(p, g, Whole(ref))
        BY <1>4, <4>1
      <4>3. QED BY <1>11, <4>2, GoesReveals
    <3>2. CASE \E a \in Range(beat.custom) : a.kind = "reveal" /\ Whole(ref) \in Range(a.targets)
      BY <1>10, <3>2
    <3>3. QED BY <1>14, <3>1, <3>2 DEF RevealsWhole
  <2>2. QED BY <2>1, WholeRevealed
<1>15. ASSUME NEW ref, NamesWhole(beat, ref)
       PROVE  WholeShown(h, ref) \/ ShowsWholeAt(d.actions, 1, ref)
  <2>1. Whole(ref) \in g.revealed
    <3>1. Whole(ref) \in Range(beat.targets)
      BY <1>15 DEF NamesWhole, Range
    <3>2. QED BY <1>4, <3>1, WholeRevealed
  <2>2. Listed(g.actions) /\ RevealsKept(p, g.revealed, h \o g.actions)
    BY <1>5 DEF Agree
  <2>3. WholeShown(h \o g.actions, ref)
    BY <2>1, <2>2, KeptIsShown
  <2> DEFINE y == g.actions
  <2>4. Listed(y) /\ WholeShown(h \o y, ref)
    BY <2>2, <2>3
  <2>5. y = <<>> \/ \E a : y = <<>> \o <<a>>
    BY <1>3, <1>4 DEF RevealStep
  <2>6. PICK x : Listed(x) /\ d.actions = y \o x
    BY <1>11 DEF Goes, Plays
  <2> HIDE DEF y
  <2>7. WholeShown(h, ref) \/ WholeShown(y, ref)
    BY <1>6, <2>4, ShownJoined
  <2>8. ASSUME WholeShown(y, ref) PROVE ShowsWholeAt(d.actions, 1, ref)
    <3>1. PICK k \in DOMAIN y : ShowsWholeAt(y, k, ref)
      BY <2>8 DEF WholeShown
    <3>2. PICK a : y = <<>> \o <<a>>
      BY <2>5, <3>1, EmptyList
    <3>3. y = <<a>>
      BY <3>2, ListOfOne, JoinedWithNone
    <3>4. k = 1
      BY <3>1, <3>3, ListOfOne
    <3>5. 1 \in DOMAIN (y \o x) /\ (y \o x)[1] = y[1]
      BY <2>4, <2>6, <3>1, <3>4, PlacesJoined
    <3>6. QED BY <2>6, <3>1, <3>4, <3>5 DEF ShowsWholeAt
  <2>9. QED BY <2>7, <2>8
<1>16. beat.id = LabelBeat(p) =>
          \E k \in DOMAIN d.actions : d.actions[k] = Reveal(<<Labels(p)>>, "stagger")
  BY <1>11, <1>13, LabelStaged
<1>17. BeatExpanded(p, h, goal, n, d)
  BY <1>11, <1>12, <1>13, <1>14, <1>15, <1>16 DEF BeatExpanded
<1>18. QED BY <1>1, <1>17

-----------------------------------------------------------------------------
(* Beat after beat.                                                         *)

\* The books begin with what every visual shows when it is drawn, and nothing on screen.
LEMMA InitialShown ==
    ASSUME NEW p, NEW t
    PROVE  RoleAfter(p, <<>>, t) = InitialRoles(p)[Whole(t.visual)]
<1>1. {k \in DOMAIN <<>> : Reaches(p, <<>>[k], t)} = {}
  BY EmptyList
<1>2. QED BY <1>1 DEF RoleAfter, Reaching

LEMMA InitialDomain ==
    ASSUME NEW p
    PROVE  DOMAIN InitialRoles(p) = {Whole(ref) : ref \in KnownRefs(p)}
<1> DEFINE D == {Whole(ref) : ref \in Refs(p)}
           f == [t \in D |-> InitialRole(p, VisualOf(p, t.visual))]
<1>1. DOMAIN f = D
  OBVIOUS
<1>2. CASE Declared(p)
  <2>1. InitialRoles(p) = Entered(f, Whole(Answer), "neutral")
    BY <1>2 DEF InitialRoles
  <2>2. DOMAIN Entered(f, Whole(Answer), "neutral") = D \cup {Whole(Answer)}
    BY <1>1 DEF Entered
  <2>3. D \cup {Whole(Answer)} = {Whole(ref) : ref \in Refs(p) \cup {Answer}}
    OBVIOUS
  <2>4. QED BY <1>2, <2>1, <2>2, <2>3 DEF KnownRefs
<1>3. CASE ~Declared(p)
  <2>1. InitialRoles(p) = f
    BY <1>3 DEF InitialRoles
  <2>2. QED BY <1>1, <1>3, <2>1 DEF KnownRefs
<1>4. QED BY <1>2, <1>3

LEMMA BooksAgree ==
    ASSUME NEW p
    PROVE  /\ Booked(Books(p)) /\ Books(p).actions = <<>> /\ Books(p).roles = InitialRoles(p)
           /\ Books(p).revealed = {}
           /\ Agree(p, <<>>, Books(p))
<1> DEFINE b == Books(p)
           r == InitialRoles(p)
           e == <<>>
<1>1. /\ Booked(b) /\ b.actions = e /\ b.roles = r /\ b.revealed = {}
  BY DEF Books, Booked
<1>2. Listed(e) /\ e \o e = e /\ DOMAIN e = {}
  BY EmptyList, JoinedWithNone
<1>3. \A t : RoleAfter(p, e, t) = r[Whole(t.visual)]
  BY InitialShown
<1>4. DOMAIN r = {Whole(ref) : ref \in KnownRefs(p)}
  BY InitialDomain
<1> HIDE DEF b, r, e
<1>5. ASSUME NEW t \in DOMAIN r PROVE IsTarget(t) /\ r[t] = RoleAfter(p, e, t)
  <2>1. PICK ref \in KnownRefs(p) : t = Whole(ref)
    BY <1>4
  <2>2. IsTarget(t) /\ t = Whole(t.visual)
    BY <2>1, WholeParts
  <2>3. QED BY <1>3, <2>2
<1>6. RolesKept(p, r, e)
  BY <1>2, <1>3, <1>4, <1>5 DEF RolesKept
<1>7. RevealsKept(p, {}, e)
  BY <1>2 DEF RevealsKept, ShownOnce
<1>8. Agree(p, e, b)
  BY <1>1, <1>2, <1>6, <1>7 DEF Agree
<1>9. QED BY <1>1, <1>8 DEF b, r, e

\* The actions of some beats, one list for each.
Acts(bs) == [b \in DOMAIN bs |-> bs[b].actions]

\* What every beat so far has played and put on screen.
BeatStaged(p, goal, bs, b) ==
    /\ Listed(bs[b].actions) /\ bs[b].id = p.beats[b].id
    /\ Distinct(p) => PlaysOut(p, bs[b].actions, ClassesOf(p, goal, b))
    /\ \A ref : RevealsWhole(p.beats[b], ref) => \E c \in 1..b : WholeShown(bs[c].actions, ref)
    /\ \A ref : NamesWhole(p.beats[b], ref) =>
          \/ \E c \in 1..(b - 1) : WholeShown(bs[c].actions, ref)
          \/ ShowsWholeAt(bs[b].actions, 1, ref)
    /\ p.beats[b].id = LabelBeat(p) =>
          \E k \in DOMAIN bs[b].actions : bs[b].actions[k] = Reveal(<<Labels(p)>>, "stagger")

BeatsStaged(p, goal, bs, bk) ==
    /\ Listed(bs) /\ Len(bs) <= Len(p.beats)
    /\ Agree(p, FlattenSeq(Acts(bs)), Fresh(bk)) /\ Booked(bk)
    /\ \A b \in DOMAIN bs : BeatStaged(p, goal, bs, b)

LEMMA ActsListed ==
    ASSUME NEW bs, Listed(bs), \A b \in DOMAIN bs : Listed(bs[b].actions)
    PROVE  /\ ListOfLists(Acts(bs)) /\ Len(Acts(bs)) = Len(bs) /\ DOMAIN Acts(bs) = DOMAIN bs
           /\ DOMAIN bs = 1..Len(bs) /\ Len(bs) \in Nat
           /\ \A b \in DOMAIN bs : Acts(bs)[b] = bs[b].actions
<1>1. DOMAIN bs = 1..Len(bs) /\ Len(bs) \in Nat
  BY ListPlaces
<1> DEFINE f == Acts(bs)
<1>2. /\ f = [k \in 1..Len(bs) |-> f[k]]
      /\ \A b \in DOMAIN bs : f[b] = bs[b].actions
  BY <1>1 DEF Acts
<1> HIDE DEF f
<1>3. Listed(f) /\ Len(f) = Len(bs) /\ DOMAIN f = 1..Len(bs)
  BY <1>1, <1>2, FunctionIsListed
<1>4. \A b \in 1..Len(f) : Listed(f[b])
  BY <1>1, <1>2, <1>3
<1>5. QED BY <1>1, <1>2, <1>3, <1>4 DEF ListOfLists, f

\* One more beat is one more list.
LEMMA ActsAppend ==
    ASSUME NEW bs, Listed(bs), NEW e
    PROVE  /\ Acts(Append(bs, e)) = Append(Acts(bs), e.actions)
           /\ Listed(Append(bs, e)) /\ Len(Append(bs, e)) = Len(bs) + 1
           /\ DOMAIN Append(bs, e) = 1..(Len(bs) + 1)
           /\ Append(bs, e)[Len(bs) + 1] = e
           /\ \A b \in DOMAIN bs : Append(bs, e)[b] = bs[b]
<1> DEFINE u == Append(bs, e)
           f == Acts(bs)
           g == Append(f, e.actions)
<1>1. DOMAIN bs = 1..Len(bs) /\ Len(bs) \in Nat
  BY ListPlaces
<1>2. /\ Listed(u) /\ Len(u) = Len(bs) + 1 /\ u[Len(bs) + 1] = e
      /\ \A k \in 1..Len(bs) : u[k] = bs[k]
  BY AppendToList
<1>3. DOMAIN u = 1..(Len(bs) + 1)
  BY <1>2, ListPlaces
<1>4. f = [k \in 1..Len(bs) |-> f[k]] /\ \A k \in 1..Len(bs) : f[k] = bs[k].actions
  BY <1>1 DEF Acts
<1> HIDE DEF u, f
<1>5. Listed(f) /\ Len(f) = Len(bs)
  BY <1>1, <1>4, FunctionIsListed
<1>6. /\ Listed(g) /\ Len(g) = Len(bs) + 1 /\ g[Len(bs) + 1] = e.actions
      /\ \A k \in 1..Len(bs) : g[k] = f[k]
  BY <1>5, AppendToList
<1>7. DOMAIN g = 1..(Len(bs) + 1)
  BY <1>6, ListPlaces
<1> DEFINE a == Acts(u)
<1>8. /\ a = [k \in 1..(Len(bs) + 1) |-> a[k]]
      /\ \A k \in 1..(Len(bs) + 1) : a[k] = u[k].actions
  BY <1>3 DEF Acts
<1> HIDE DEF g, a
<1>9. Len(bs) + 1 \in Nat
  BY <1>1
<1>10. Listed(a) /\ Len(a) = Len(bs) + 1
  BY <1>8, <1>9, FunctionIsListed
<1>11. \A k \in 1..(Len(bs) + 1) : a[k] = g[k]
  <2>1. ASSUME NEW k \in 1..(Len(bs) + 1) PROVE a[k] = g[k]
    <3>1. CASE k = Len(bs) + 1
      BY <1>2, <1>6, <1>8, <3>1
    <3>2. CASE k # Len(bs) + 1
      <4>1. k \in 1..Len(bs)
        BY <1>1, <3>2
      <4>2. QED BY <1>2, <1>4, <1>6, <1>8, <4>1
    <3>3. QED BY <3>1, <3>2
  <2>2. QED BY <2>1
<1>12. a = g
  <2>1. \A k \in 1..Len(a) : a[k] = g[k]
    BY <1>10, <1>11
  <2>2. Len(a) = Len(g)
    BY <1>6, <1>10
  <2>3. QED BY <1>6, <1>10, <2>1, <2>2, SameList
<1>13. QED BY <1>1, <1>2, <1>3, <1>12 DEF a, g, f, u

\* What the flattened actions show is in some list of them.
LEMMA ShownInSome ==
    ASSUME NEW bs, Listed(bs), \A b \in DOMAIN bs : Listed(bs[b].actions), NEW ref,
           WholeShown(FlattenSeq(Acts(bs)), ref)
    PROVE  \E c \in DOMAIN bs : WholeShown(bs[c].actions, ref)
<1> DEFINE s == FlattenSeq(Acts(bs))
<1>1. /\ ListOfLists(Acts(bs)) /\ Len(Acts(bs)) = Len(bs) /\ DOMAIN bs = 1..Len(bs)
      /\ \A b \in DOMAIN bs : Acts(bs)[b] = bs[b].actions
  BY ActsListed
<1>2. Listed(s) /\ \A x \in Range(s) : \E b \in 1..Len(Acts(bs)) : x \in Range(Acts(bs)[b])
  BY <1>1, FlattenElements
<1> HIDE DEF s
<1>3. PICK k \in DOMAIN s : s[k].kind = "reveal" /\ Whole(ref) \in Range(s[k].targets)
  BY DEF WholeShown, ShowsWholeAt, s
<1>4. s[k] \in Range(s)
  BY <1>3 DEF Range
<1>5. PICK c \in 1..Len(bs) : s[k] \in Range(Acts(bs)[c])
  BY <1>1, <1>2, <1>4
<1>6. c \in DOMAIN bs /\ s[k] \in Range(bs[c].actions)
  BY <1>1, <1>5
<1> DEFINE x == bs[c].actions
<1>7. PICK i \in DOMAIN x : x[i] = s[k]
  BY <1>6 DEF Range
<1>8. ShowsWholeAt(x, i, ref)
  BY <1>3, <1>7 DEF ShowsWholeAt
<1>9. WholeShown(x, ref)
  BY <1>7, <1>8 DEF WholeShown
<1>10. QED BY <1>6, <1>9

LEMMA AbsentInAll ==
    ASSUME NEW bs, Listed(bs), \A b \in DOMAIN bs : Listed(bs[b].actions), NEW p, NEW c,
           \A b \in DOMAIN bs : Absent(p, c, bs[b].actions)
    PROVE  Absent(p, c, FlattenSeq(Acts(bs)))
<1> DEFINE s == FlattenSeq(Acts(bs))
<1>1. /\ ListOfLists(Acts(bs)) /\ Len(Acts(bs)) = Len(bs) /\ DOMAIN bs = 1..Len(bs)
      /\ \A b \in DOMAIN bs : Acts(bs)[b] = bs[b].actions
  BY ActsListed
<1>2. Listed(s) /\ \A x \in Range(s) : \E b \in 1..Len(Acts(bs)) : x \in Range(Acts(bs)[b])
  BY <1>1, FlattenElements
<1> HIDE DEF s
<1>3. ASSUME NEW k \in DOMAIN s PROVE ~InClass(p, c, s[k])
  <2>1. s[k] \in Range(s)
    BY DEF Range
  <2>2. PICK b \in 1..Len(bs) : s[k] \in Range(Acts(bs)[b])
    BY <1>1, <1>2, <2>1
  <2>3. b \in DOMAIN bs /\ s[k] \in Range(bs[b].actions)
    BY <1>1, <2>2
  <2> DEFINE x == bs[b].actions
  <2>4. PICK i \in DOMAIN x : x[i] = s[k]
    BY <2>3 DEF Range
  <2>5. Absent(p, c, x)
    BY <2>3
  <2>6. QED BY <2>4, <2>5 DEF Absent
<1>4. QED BY <1>3 DEF Absent, s

\* A beat that is over becomes one of the earlier ones.
LEMMA AgreeFresh ==
    ASSUME NEW p, NEW h, NEW b, Agree(p, h, b)
    PROVE  Agree(p, h \o b.actions, Fresh(b)) /\ Fresh(b).actions = <<>> /\ Booked(Fresh(b))
<1> DEFINE e == <<>>
           d == Fresh(b)
           s == h \o b.actions
<1>1. Booked(b) /\ Listed(h) /\ Listed(b.actions)
  BY DEF Agree
<1>2. RolesKept(p, b.roles, s) /\ RevealsKept(p, b.revealed, s)
  BY DEF Agree
<1>3. d = [b EXCEPT !.actions = e]
  BY DEF Fresh
<1>4. Listed(s)
  BY <1>1, JoinedLists
<1>5. Listed(e) /\ s \o e = s
  BY <1>4, EmptyList, JoinedWithNone
<1> HIDE DEF d, e, s
<1>6. Booked(d) /\ d.actions = e /\ d.roles = b.roles /\ d.revealed = b.revealed
  BY <1>1, <1>3, ActionsWritten
<1>7. Agree(p, s, d)
  BY <1>2, <1>4, <1>5, <1>6 DEF Agree
<1>8. QED BY <1>6, <1>7 DEF d, e, s

LEMMA NoBeats ==
    ASSUME NEW p, NEW goal, Listed(p.beats)
    PROVE  BeatsStaged(p, goal, <<>>, Books(p))
<1> DEFINE e == <<>>
           b == Books(p)
<1>1. Booked(b) /\ b.actions = e /\ Agree(p, e, b)
  BY BooksAgree
<1>2. Listed(e) /\ Len(e) = 0 /\ DOMAIN e = {} /\ e \o e = e
  BY EmptyList, JoinedWithNone
<1>3. FlattenSeq(Acts(e)) = e
  <2>1. \A k \in DOMAIN e : Listed(e[k].actions)
    BY <1>2
  <2>2. ListOfLists(Acts(e)) /\ Len(Acts(e)) = 0
    BY <1>2, <2>1, ActsListed
  <2>3. Listed(Acts(e))
    BY <2>2 DEF ListOfLists
  <2>4. QED BY <2>2, <2>3, FlattenByParts
<1>4. Len(p.beats) \in Nat
  BY ListPlaces
<1> HIDE DEF b, e
<1>5. Agree(p, e, Fresh(b))
  BY <1>1, <1>2, AgreeFresh
<1>6. 0 <= Len(p.beats)
  BY <1>4
<1>7. BeatsStaged(p, goal, e, b)
  BY <1>1, <1>2, <1>3, <1>5, <1>6 DEF BeatsStaged
<1>8. QED BY <1>7 DEF b, e

\* Only one beat names the target unit, when beats have names of their own.
LEMMA LabelsOfOne ==
    ASSUME NEW p, NEW goal, NEW b \in DOMAIN p.beats, NEW n \in DOMAIN p.beats, b # n, Distinct(p),
           p.beats[n].id = LabelBeat(p)
    PROVE  "label" \notin ClassesOf(p, goal, b)
<1>1. p.beats[b].id # LabelBeat(p)
  BY DEF Distinct
<1>2. LabelClasses(p, p.beats[b]) = {}
  BY <1>1 DEF LabelClasses
<1>3. "label" \notin KindClasses(p, p.beats[b])
  BY DEF KindClasses
<1>4. "label" \notin TraceClasses(p, p.beats[b]) /\ "label" \notin PosedClasses(p, b)
        /\ "label" \notin WorkClasses(p, goal, p.beats[b])
  BY DEF TraceClasses, PosedClasses, WorkClasses
<1>5. QED BY <1>2, <1>3, <1>4 DEF ClassesOf

LEMMA LabelsAbsent ==
    ASSUME NEW p, NEW goal, NEW bs, NEW bk, BeatsStaged(p, goal, bs, bk), Listed(p.beats),
           NEW n \in DOMAIN p.beats, n = Len(bs) + 1, Distinct(p), p.beats[n].id = LabelBeat(p)
    PROVE  Absent(p, "label", FlattenSeq(Acts(bs)))
<1>1. /\ Listed(bs) /\ Len(bs) <= Len(p.beats) /\ DOMAIN bs = 1..Len(bs) /\ Len(bs) \in Nat
      /\ DOMAIN p.beats = 1..Len(p.beats) /\ Len(p.beats) \in Nat
  BY ListPlaces DEF BeatsStaged
<1>2. \A b \in DOMAIN bs : BeatStaged(p, goal, bs, b)
  BY DEF BeatsStaged
<1>3. ASSUME NEW b \in DOMAIN bs PROVE Listed(bs[b].actions) /\ Absent(p, "label", bs[b].actions)
  <2>1. b \in DOMAIN p.beats /\ b # n
    BY <1>1
  <2>2. "label" \notin ClassesOf(p, goal, b)
    BY <2>1, LabelsOfOne
  <2>3. PlaysOut(p, bs[b].actions, ClassesOf(p, goal, b)) /\ Listed(bs[b].actions)
    BY <1>2 DEF BeatStaged
  <2>4. "label" \in Classes
    BY DEF Classes
  <2>5. QED BY <2>2, <2>3, <2>4 DEF PlaysOut, StagedOrAbsent
<1>4. QED BY <1>1, <1>3, AbsentInAll

LEMMA DistinctWhenClean ==
    ASSUME NEW p, Clean(p)
    PROVE  Distinct(p)
BY DEF Clean, Distinct

\* A beat that has been expanded joins the earlier ones.
LEMMA BeatsGrow ==
    ASSUME NEW p, NEW goal, Admitted(p, goal), NEW bs, NEW bk, BeatsStaged(p, goal, bs, bk),
           Len(bs) < Len(p.beats), NEW n, n = Len(bs) + 1, NEW d, d = ExpandBeat(p, goal, bk, n),
           NEW e, e.id = p.beats[n].id, e.actions = d.actions
    PROVE  BeatsStaged(p, goal, Append(bs, e), d)
<1> DEFINE h == FlattenSeq(Acts(bs))
           u == Append(bs, e)
<1>1. Listed(p.beats) /\ DOMAIN p.beats = 1..Len(p.beats) /\ Len(p.beats) \in Nat
  <2>1. Listed(p.beats)
    BY BeatsOfPlan DEF Admitted
  <2>2. QED BY <2>1, ListPlaces
<1>2. /\ Listed(bs) /\ DOMAIN bs = 1..Len(bs) /\ Len(bs) \in Nat
      /\ Agree(p, h, Fresh(bk)) /\ Booked(bk)
      /\ \A b \in DOMAIN bs : BeatStaged(p, goal, bs, b)
  BY ListPlaces DEF BeatsStaged
<1>3. n \in DOMAIN p.beats
  BY <1>1, <1>2
<1>4. \A b \in DOMAIN bs : Listed(bs[b].actions)
  BY <1>2 DEF BeatStaged
<1>5. ListOfLists(Acts(bs)) /\ Len(Acts(bs)) = Len(bs)
  BY <1>2, <1>4, ActsListed
<1>6. n = 1 => h = <<>>
  <2>1. SUFFICES ASSUME n = 1 PROVE h = <<>>
    OBVIOUS
  <2>2. Len(Acts(bs)) = 0 /\ Listed(Acts(bs))
    BY <1>2, <1>5, <2>1 DEF ListOfLists
  <2>3. QED BY <2>2, FlattenByParts
<1>7. (Clean(p) /\ p.beats[n].id = LabelBeat(p)) => Absent(p, "label", h)
  BY <1>1, <1>3, LabelsAbsent, DistinctWhenClean
<1>8. Fresh(bk).actions = <<>>
  <2> DEFINE y == <<>>
  <2>1. Fresh(bk) = [bk EXCEPT !.actions = y]
    BY DEF Fresh
  <2> HIDE DEF y
  <2>2. Fresh(bk).actions = y
    BY <1>2, <2>1, ActionsWritten
  <2>3. QED BY <2>2 DEF y
<1> HIDE DEF h
<1>9. BeatExpanded(p, h, goal, n, d)
  BY <1>2, <1>3, <1>6, <1>7, <1>8, BeatIsExpanded
<1>10. /\ Agree(p, h, d)
       /\ Distinct(p) => PlaysOut(p, d.actions, ClassesOf(p, goal, n))
       /\ \A ref : RevealsWhole(p.beats[n], ref) => Whole(ref) \in d.revealed
       /\ \A ref : NamesWhole(p.beats[n], ref) => WholeShown(h, ref) \/ ShowsWholeAt(d.actions, 1, ref)
       /\ p.beats[n].id = LabelBeat(p) =>
             \E k \in DOMAIN d.actions : d.actions[k] = Reveal(<<Labels(p)>>, "stagger")
  BY <1>9 DEF BeatExpanded
<1> DEFINE y == d.actions
<1>11. Booked(d) /\ Listed(h) /\ Listed(y) /\ RevealsKept(p, d.revealed, h \o y)
  BY <1>10 DEF Agree
<1>12. Agree(p, h \o y, Fresh(d))
  BY <1>10, AgreeFresh
<1>13. /\ Acts(u) = Append(Acts(bs), y)
       /\ Listed(u) /\ Len(u) = n /\ DOMAIN u = 1..n /\ u[n] = e
       /\ \A b \in DOMAIN bs : u[b] = bs[b]
  <2>1. /\ Acts(u) = Append(Acts(bs), e.actions)
        /\ Listed(u) /\ Len(u) = Len(bs) + 1 /\ DOMAIN u = 1..(Len(bs) + 1) /\ u[Len(bs) + 1] = e
        /\ \A b \in DOMAIN bs : u[b] = bs[b]
    BY <1>2, ActsAppend
  <2>2. e.actions = y /\ Len(bs) + 1 = n
    OBVIOUS
  <2> HIDE DEF u, y
  <2>3. QED BY ONLY <2>1, <2>2
<1>14. FlattenSeq(Acts(u)) = h \o y
  BY <1>5, <1>11, <1>13, FlattenAppend DEF h
<1> HIDE DEF u
<1>15. ASSUME NEW b \in DOMAIN u PROVE BeatStaged(p, goal, u, b)
  <2>1. CASE b \in DOMAIN bs
    <3>1. BeatStaged(p, goal, bs, b)
      BY <1>2, <2>1
    <3>2. \A c \in 1..b : u[c] = bs[c]
      BY <1>2, <1>13, <2>1
    <3>3. u[b] = bs[b] /\ \A c \in 1..(b - 1) : u[c] = bs[c]
      BY <1>2, <1>13, <2>1
    <3>4. QED BY <3>1, <3>2, <3>3 DEF BeatStaged
  <2>2. CASE b = n
    <3>1. u[n].actions = y /\ u[n].id = p.beats[n].id
      BY <1>13
    <3>2. \A c \in 1..(n - 1) : c \in DOMAIN bs /\ u[c] = bs[c] /\ c \in 1..n
      BY <1>2, <1>13
    <3>3. \A c \in DOMAIN bs : c \in 1..(n - 1)
      BY <1>2
    <3>4. ASSUME NEW ref, WholeShown(h, ref)
          PROVE  \E c \in 1..(n - 1) : WholeShown(u[c].actions, ref)
      <4>1. PICK c \in DOMAIN bs : WholeShown(bs[c].actions, ref)
        BY <1>2, <1>4, <3>4, ShownInSome DEF h
      <4>2. QED BY <3>2, <3>3, <4>1
    <3>5. ASSUME NEW ref, RevealsWhole(p.beats[n], ref)
          PROVE  \E c \in 1..n : WholeShown(u[c].actions, ref)
      <4>1. WholeShown(h \o y, ref)
        BY <1>10, <1>11, <3>5, KeptIsShown
      <4>2. WholeShown(h, ref) \/ WholeShown(y, ref)
        BY <1>11, <4>1, ShownJoined
      <4>3. CASE WholeShown(h, ref)
        BY <3>2, <3>4, <4>3
      <4>4. CASE WholeShown(y, ref)
        <5>1. n \in 1..n
          BY <1>2
        <5>2. QED BY <3>1, <4>4, <5>1
      <4>5. QED BY <4>2, <4>3, <4>4
    <3>6. ASSUME NEW ref, NamesWhole(p.beats[n], ref)
          PROVE  (\E c \in 1..(n - 1) : WholeShown(u[c].actions, ref)) \/ ShowsWholeAt(u[n].actions, 1, ref)
      BY <1>10, <3>1, <3>4, <3>6
    <3>7. BeatStaged(p, goal, u, n)
      BY <1>10, <1>11, <3>1, <3>5, <3>6 DEF BeatStaged
    <3>8. QED BY <2>2, <3>7
  <2>3. QED BY <1>2, <1>13, <2>1, <2>2
<1>16. n <= Len(p.beats)
  BY <1>1, <1>3
<1>17. BeatsStaged(p, goal, u, d)
  BY <1>11, <1>12, <1>13, <1>14, <1>15, <1>16 DEF BeatsStaged
<1>18. QED BY <1>17 DEF u

-----------------------------------------------------------------------------
(* The timeline plays the actions of the beats, in order.                   *)

\* The timeline of some beats, and where each beat begins in it.
Played_(bs, line, off) ==
    /\ Offsets(Acts(bs), off) /\ ListOfLists(Acts(bs))
    /\ Listed(line) /\ Len(line) = off[Len(bs)] /\ DOMAIN line = 1..off[Len(bs)]
    /\ Listed(FlattenSeq(Acts(bs))) /\ DOMAIN FlattenSeq(Acts(bs)) = DOMAIN line
    /\ \A k \in DOMAIN line : line[k].action = FlattenSeq(Acts(bs))[k]
    /\ \A b \in DOMAIN bs : \A a \in DOMAIN bs[b].actions :
          /\ off[b - 1] + a \in DOMAIN line
          /\ line[off[b - 1] + a].action = bs[b].actions[a]
          /\ line[off[b - 1] + a].beat = bs[b].id
    /\ \A k \in DOMAIN line :
          \E b \in DOMAIN bs : \E a \in DOMAIN bs[b].actions : k = off[b - 1] + a

Timed(bs) == [b \in DOMAIN bs |-> IF bs[b].actions = <<>> THEN <<>> ELSE Entries(bs, b)]

LEMMA EntriesOf ==
    ASSUME NEW bs, NEW b \in DOMAIN bs, Listed(bs[b].actions)
    PROVE  /\ Listed(Timed(bs)[b]) /\ Len(Timed(bs)[b]) = Len(bs[b].actions)
           /\ \A a \in DOMAIN bs[b].actions :
                 /\ Timed(bs)[b][a].action = bs[b].actions[a]
                 /\ Timed(bs)[b][a].beat = bs[b].id
<1> DEFINE x == bs[b].actions
           t == Timed(bs)[b]
           e == Entries(bs, b)
<1>1. Len(x) \in Nat /\ DOMAIN x = 1..Len(x)
  BY ListPlaces
<1>2. t = IF x = <<>> THEN <<>> ELSE e
  BY DEF Timed
<1>3. CASE x = <<>>
  BY <1>2, <1>3, EmptyList
<1>4. CASE x # <<>>
  <2>1. t = e
    BY <1>2, <1>4
  <2>2. /\ e = [a \in 1..Len(x) |-> e[a]]
        /\ \A a \in 1..Len(x) : e[a].action = x[a] /\ e[a].beat = bs[b].id
    BY DEF Entries
  <2> HIDE DEF e, x, t
  <2>3. Listed(e) /\ Len(e) = Len(x)
    BY <1>1, <2>2, FunctionIsListed
  <2>4. QED BY <1>1, <2>1, <2>2, <2>3 DEF x, t
<1>5. QED BY <1>3, <1>4

LEMMA ScheduleIs ==
    ASSUME NEW bs
    PROVE  Schedule(bs) = FlattenSeq(Timed(bs))
BY DEF Schedule, Timed

LEMMA SchedulePlays ==
    ASSUME NEW bs, Listed(bs), \A b \in DOMAIN bs : Listed(bs[b].actions)
    PROVE  \E off : Played_(bs, Schedule(bs), off)
<1> DEFINE ss == Acts(bs)
           tt == Timed(bs)
           s == FlattenSeq(ss)
           t == FlattenSeq(tt)
           n == Len(bs)
<1>1. /\ ListOfLists(ss) /\ Len(ss) = n /\ DOMAIN bs = 1..n /\ n \in Nat
      /\ \A b \in DOMAIN bs : ss[b] = bs[b].actions
  BY ActsListed
<1>2. \A b \in 1..n : /\ Listed(tt[b]) /\ Len(tt[b]) = Len(bs[b].actions)
                      /\ \A a \in DOMAIN bs[b].actions :
                            tt[b][a].action = bs[b].actions[a] /\ tt[b][a].beat = bs[b].id
  <2>1. ASSUME NEW b \in 1..n
        PROVE  /\ Listed(tt[b]) /\ Len(tt[b]) = Len(bs[b].actions)
               /\ \A a \in DOMAIN bs[b].actions :
                     tt[b][a].action = bs[b].actions[a] /\ tt[b][a].beat = bs[b].id
    <3>1. b \in DOMAIN bs /\ Listed(bs[b].actions)
      BY <1>1
    <3>2. QED BY <3>1, EntriesOf
  <2>2. QED BY <2>1
<1>3. Listed(tt) /\ Len(tt) = n
  <2>1. tt = [k \in 1..n |-> tt[k]]
    BY <1>1 DEF Timed
  <2> HIDE DEF tt
  <2>2. QED BY <1>1, <2>1, FunctionIsListed
<1>4. Schedule(bs) = t
  BY ScheduleIs
<1> HIDE DEF tt, ss
<1>5. ListOfLists(tt)
  BY <1>2, <1>3 DEF ListOfLists
<1>6. PICK off : Offsets(ss, off)
  BY <1>1, OffsetsExist
<1>7. \A b \in 1..n : Len(tt[b]) = Len(ss[b])
  BY <1>1, <1>2
<1>8. Offsets(tt, off)
  BY <1>1, <1>3, <1>6, <1>7 DEF Offsets
<1>9. /\ Listed(s) /\ Len(s) = off[n]
      /\ \A b \in 1..n : \A a \in 1..Len(ss[b]) : s[off[b - 1] + a] = ss[b][a]
  BY <1>1, <1>6, FlattenRuns
<1>10. /\ Listed(t) /\ Len(t) = off[n]
       /\ \A b \in 1..n : \A a \in 1..Len(tt[b]) : t[off[b - 1] + a] = tt[b][a]
  BY <1>3, <1>5, <1>8, FlattenRuns
<1> HIDE DEF s, t
<1>11. DOMAIN s = 1..off[n] /\ DOMAIN t = 1..off[n]
  BY <1>9, <1>10, ListPlaces
<1>12. \A b \in DOMAIN bs : DOMAIN bs[b].actions = 1..Len(ss[b]) /\ b \in 1..n
  BY <1>1, ListPlaces
<1>13. ASSUME NEW b \in DOMAIN bs, NEW a \in DOMAIN bs[b].actions
       PROVE  /\ off[b - 1] + a \in DOMAIN t
              /\ t[off[b - 1] + a].action = bs[b].actions[a]
              /\ t[off[b - 1] + a].beat = bs[b].id
              /\ s[off[b - 1] + a] = bs[b].actions[a]
  <2>1. b \in 1..Len(ss) /\ a \in 1..Len(ss[b])
    BY <1>1, <1>12
  <2>2. off[b - 1] + a \in 1..off[n]
    BY <1>1, <1>6, <2>1, OffsetsOrder
  <2>3. t[off[b - 1] + a] = tt[b][a] /\ s[off[b - 1] + a] = ss[b][a]
    BY <1>1, <1>7, <1>9, <1>10, <2>1
  <2>4. tt[b][a].action = bs[b].actions[a] /\ tt[b][a].beat = bs[b].id
    BY <1>1, <1>2, <2>1
  <2>5. ss[b][a] = bs[b].actions[a]
    BY <1>1
  <2>6. QED BY <1>11, <2>2, <2>3, <2>4, <2>5
<1>14. ASSUME NEW k \in DOMAIN t
       PROVE  \E b \in DOMAIN bs : \E a \in DOMAIN bs[b].actions : k = off[b - 1] + a
  <2>1. \E b \in 1..Len(ss) : \E a \in 1..Len(ss[b]) : k = off[b - 1] + a
    BY <1>1, <1>6, <1>11, OffsetsCover
  <2>2. QED BY <1>1, <1>12, <2>1
<1>15. \A k \in DOMAIN t : t[k].action = s[k]
  <2>1. ASSUME NEW k \in DOMAIN t PROVE t[k].action = s[k]
    <3>1. PICK b \in DOMAIN bs : \E a \in DOMAIN bs[b].actions : k = off[b - 1] + a
      BY <1>14
    <3>2. PICK a \in DOMAIN bs[b].actions : k = off[b - 1] + a
      BY <3>1
    <3>3. QED BY <1>13, <3>2
  <2>2. QED BY <2>1
<1>16. Played_(bs, t, off)
  BY <1>1, <1>6, <1>9, <1>10, <1>11, <1>13, <1>14, <1>15 DEF Played_, s, ss
<1>17. QED BY <1>4, <1>16

\* A beat that begins before another one is played before it.
LEMMA PlayedBefore ==
    ASSUME NEW bs, NEW line, NEW off, Played_(bs, line, off), Listed(bs),
           NEW b \in DOMAIN bs, NEW c \in DOMAIN bs,
           NEW i \in DOMAIN bs[b].actions, NEW j \in DOMAIN bs[c].actions
    PROVE  /\ b < c => off[b - 1] + i < off[c - 1] + j
           /\ off[b - 1] + i = off[c - 1] + j => b = c /\ i = j
           /\ off[b - 1] + i \in DOMAIN line /\ off[c - 1] + j \in DOMAIN line
           /\ off[b - 1] \in Nat /\ i \in Nat /\ off[Len(bs)] \in Nat
<1> DEFINE ss == Acts(bs)
<1>1. Offsets(ss, off) /\ ListOfLists(ss) /\ DOMAIN line = 1..off[Len(bs)]
  BY DEF Played_
<1>2. DOMAIN bs = 1..Len(bs) /\ Len(bs) \in Nat /\ DOMAIN ss = DOMAIN bs /\ ss[b] = bs[b].actions /\ ss[c] = bs[c].actions
  BY ListPlaces DEF Acts
<1> HIDE DEF ss
<1>3. Len(ss) = Len(bs)
  <2>1. DOMAIN ss = 1..Len(ss) /\ Len(ss) \in Nat
    BY <1>1, ListPlaces DEF ListOfLists
  <2>2. 1..Len(ss) = 1..Len(bs)
    BY <1>2, <2>1
  <2> DEFINE m == Len(ss)
             n == Len(bs)
  <2>3. m \in Nat /\ n \in Nat /\ 1..m = 1..n
    BY <1>2, <2>1, <2>2
  <2> HIDE DEF m, n
  <2>4. (m # 0 => m \in 1..n) /\ (n # 0 => n \in 1..m)
    BY <2>3
  <2>5. m = n
    BY <2>3, <2>4
  <2>6. QED BY <2>5 DEF m, n
<1>4. b \in 1..Len(ss) /\ c \in 1..Len(ss)
  BY <1>2, <1>3
<1>5. Listed(ss[b]) /\ Listed(ss[c])
  BY <1>1, <1>4 DEF ListOfLists
<1>6. i \in 1..Len(ss[b]) /\ j \in 1..Len(ss[c])
  BY <1>2, <1>5, ListPlaces
<1>7. /\ b < c => off[b - 1] + i < off[c - 1] + j
      /\ off[b - 1] + i \in 1..off[Len(ss)]
      /\ off[b - 1] + i = off[c - 1] + j => b = c /\ i = j
  BY <1>1, <1>4, <1>6, OffsetsOrder
<1>8. off[c - 1] + j \in 1..off[Len(ss)]
  BY <1>1, <1>4, <1>6, OffsetsOrder
<1>9. off[b - 1] \in Nat /\ off[Len(ss)] \in Nat
  <2>1. b - 1 \in 0..Len(ss) /\ Len(ss) \in 0..Len(ss)
    BY <1>2, <1>3, <1>4
  <2>2. QED BY <1>1, <2>1 DEF Offsets
<1>10. i \in Nat
  BY <1>6
<1>11. QED BY <1>1, <1>3, <1>7, <1>8, <1>9, <1>10

-----------------------------------------------------------------------------
(* What a program shows before it walks.                                    *)

\* The plan of an accepted program, all of whose beats are expanded and scheduled.
Scheduled(p, goal, bs, bk, line, off) ==
    /\ Admitted(p, goal) /\ BeatsStaged(p, goal, bs, bk) /\ Len(bs) = Len(p.beats)
    /\ Played_(bs, line, off)

LEMMA ScheduledBeats ==
    ASSUME NEW p, NEW goal, NEW bs, NEW bk, NEW line, NEW off, Scheduled(p, goal, bs, bk, line, off)
    PROVE  /\ Listed(bs) /\ DOMAIN bs = 1..Len(bs) /\ DOMAIN p.beats = DOMAIN bs /\ Len(bs) \in 3..5
           /\ Listed(p.beats)
           /\ \A b \in DOMAIN bs : BeatStaged(p, goal, bs, b) /\ Listed(bs[b].actions)
                                      /\ bs[b].id = p.beats[b].id
<1>1. /\ Listed(p.beats) /\ Len(p.beats) \in 3..5 /\ DOMAIN p.beats = 1..Len(p.beats)
  BY BeatsOfPlan DEF Scheduled, Admitted
<1>2. Listed(bs) /\ Len(bs) = Len(p.beats) /\ \A b \in DOMAIN bs : BeatStaged(p, goal, bs, b)
  BY DEF Scheduled, BeatsStaged
<1>3. DOMAIN bs = 1..Len(bs)
  BY <1>2, ListPlaces
<1>4. \A b \in DOMAIN bs : Listed(bs[b].actions) /\ bs[b].id = p.beats[b].id
  BY <1>2 DEF BeatStaged
<1>5. QED BY <1>1, <1>2, <1>3, <1>4

LEMMA ShowsInLine ==
    ASSUME NEW bs, NEW line, NEW off, Played_(bs, line, off), NEW c \in DOMAIN bs,
           NEW i, NEW ref, ShowsWholeAt(bs[c].actions, i, ref)
    PROVE  i \in DOMAIN bs[c].actions /\ Shows(line[off[c - 1] + i], Whole(ref))
<1> DEFINE x == bs[c].actions
<1>1. i \in DOMAIN x /\ x[i].kind = "reveal" /\ Whole(ref) \in Range(x[i].targets)
  BY DEF ShowsWholeAt
<1>2. line[off[c - 1] + i].action = x[i]
  BY <1>1 DEF Played_
<1>3. QED BY <1>1, <1>2 DEF Shows

\* What an earlier beat shows is shown before.
LEMMA ShownBefore ==
    ASSUME NEW bs, NEW line, NEW off, Played_(bs, line, off), Listed(bs), NEW b \in DOMAIN bs,
           NEW a \in DOMAIN bs[b].actions, NEW c \in DOMAIN bs, c < b, NEW ref,
           WholeShown(bs[c].actions, ref)
    PROVE  \E j \in 1..((off[b - 1] + a) - 1) : Shows(line[j], Whole(ref))
<1>1. PICK i \in DOMAIN bs[c].actions : ShowsWholeAt(bs[c].actions, i, ref)
  BY DEF WholeShown
<1>2. Shows(line[off[c - 1] + i], Whole(ref))
  BY <1>1, ShowsInLine
<1> DEFINE j == off[c - 1] + i
           k == off[b - 1] + a
<1>3. j < k /\ j \in DOMAIN line /\ k \in DOMAIN line
  BY PlayedBefore
<1>4. off[Len(bs)] \in Nat /\ DOMAIN line = 1..off[Len(bs)]
  BY PlayedBefore DEF Played_
<1> HIDE DEF j, k
<1>5. j \in 1..(k - 1)
  BY <1>3, <1>4
<1>6. Shows(line[j], Whole(ref))
  BY <1>2 DEF j
<1>7. \E y \in 1..(k - 1) : Shows(line[y], Whole(ref))
  BY <1>5, <1>6
<1>8. QED BY <1>7 DEF k

\* A beat that works on a whole finds it on screen, put there by an earlier beat or by its
\* own first action.
LEMMA WalkShown ==
    ASSUME NEW p, NEW goal, NEW bs, NEW bk, NEW line, NEW off, Scheduled(p, goal, bs, bk, line, off),
           NEW b \in DOMAIN bs, NEW ref,
           NamesWhole(p.beats[b], ref) \/ \E c \in 1..(b - 1) : RevealsWhole(p.beats[c], ref),
           NEW a \in DOMAIN bs[b].actions, bs[b].actions[a].kind = "set_role"
    PROVE  \E j \in 1..((off[b - 1] + a) - 1) : Shows(line[j], Whole(ref))
<1>1. /\ Listed(bs) /\ DOMAIN bs = 1..Len(bs) /\ Len(bs) \in 3..5
      /\ \A n \in DOMAIN bs : BeatStaged(p, goal, bs, n) /\ Listed(bs[n].actions)
  BY ScheduledBeats
<1>2. Played_(bs, line, off)
  BY DEF Scheduled
<1>3. ASSUME NEW c \in 1..(b - 1), WholeShown(bs[c].actions, ref)
      PROVE  \E j \in 1..((off[b - 1] + a) - 1) : Shows(line[j], Whole(ref))
  <2>1. c \in DOMAIN bs /\ c < b
    BY <1>1
  <2>2. QED BY <1>1, <1>2, <1>3, <2>1, ShownBefore
<1>4. ASSUME NEW c \in 1..(b - 1), RevealsWhole(p.beats[c], ref)
      PROVE  \E j \in 1..((off[b - 1] + a) - 1) : Shows(line[j], Whole(ref))
  <2>1. c \in DOMAIN bs
    BY <1>1
  <2>2. PICK d \in 1..c : WholeShown(bs[d].actions, ref)
    BY <1>1, <1>4, <2>1 DEF BeatStaged
  <2>3. d \in 1..(b - 1)
    BY <1>1
  <2>4. QED BY <1>3, <2>2, <2>3
<1>5. ASSUME ShowsWholeAt(bs[b].actions, 1, ref)
      PROVE  \E j \in 1..((off[b - 1] + a) - 1) : Shows(line[j], Whole(ref))
  <2>1. 1 \in DOMAIN bs[b].actions /\ Shows(line[off[b - 1] + 1], Whole(ref))
    BY <1>2, <1>5, ShowsInLine
  <2>2. bs[b].actions[1].kind = "reveal"
    BY <1>5 DEF ShowsWholeAt
  <2>3. a # 1
    BY <2>2
  <2>4. DOMAIN bs[b].actions = 1..Len(bs[b].actions) /\ Len(bs[b].actions) \in Nat
    BY <1>1, ListPlaces
  <2>5. off[b - 1] \in Nat
    BY <1>1, <1>2, <2>1, PlayedBefore
  <2> DEFINE o == off[b - 1]
             m == Len(bs[b].actions)
  <2>6. o \in Nat /\ m \in Nat /\ a \in 1..m /\ a # 1
    BY <2>3, <2>4, <2>5
  <2> HIDE DEF o, m
  <2>7. o + 1 \in 1..((o + a) - 1)
    BY <2>6
  <2>8. QED BY <2>1, <2>7 DEF o
<1>6. (\E c \in 1..(b - 1) : WholeShown(bs[c].actions, ref)) \/ ShowsWholeAt(bs[b].actions, 1, ref)
         \/ \E c \in 1..(b - 1) : RevealsWhole(p.beats[c], ref)
  BY <1>1 DEF BeatStaged
<1>7. QED BY <1>3, <1>4, <1>5, <1>6

\* No two beats name the target unit, when nothing is revealed twice.
LEMMA LabelsNamedOnce ==
    ASSUME NEW p, NEW goal, NEW bs, NEW bk, NEW program_, NEW off,
           Scheduled(p, goal, bs, bk, program_.timeline, off), NoRepeatedReveal(p, program_),
           NEW b \in DOMAIN bs, NEW c \in DOMAIN bs, b < c,
           p.beats[b].id = LabelBeat(p), p.beats[c].id = LabelBeat(p)
    PROVE  FALSE
<1> DEFINE line == program_.timeline
           l == Reveal(<<Labels(p)>>, "stagger")
<1>1. /\ Listed(bs)
      /\ \A n \in DOMAIN bs : BeatStaged(p, goal, bs, n) /\ Listed(bs[n].actions)
  BY ScheduledBeats
<1>2. Played_(bs, line, off)
  BY DEF Scheduled
<1>3. PICK i \in DOMAIN bs[b].actions : bs[b].actions[i] = l
  BY <1>1 DEF BeatStaged
<1>4. PICK k \in DOMAIN bs[c].actions : bs[c].actions[k] = l
  BY <1>1 DEF BeatStaged
<1> DEFINE u == off[b - 1] + i
           v == off[c - 1] + k
<1>5. u < v /\ u \in DOMAIN line /\ v \in DOMAIN line
  BY <1>1, <1>2, PlayedBefore
<1>6. line[u].action = l /\ line[v].action = l
  BY <1>2, <1>3, <1>4 DEF Played_
<1>7. l.kind = "reveal" /\ l.targets = <<Labels(p)>>
  BY DEF Reveal
<1>8. 1 \in DOMAIN l.targets /\ l.targets[1] = Labels(p)
  BY <1>7, ListOfOne
<1>9. ~ShownWith(p, line[u].action.targets[1], line[v].action.targets[1])
  <2> HIDE DEF l, u, v
  <2>1. QED BY <1>5, <1>6, <1>7, <1>8 DEF NoRepeatedReveal
<1>10. QED BY <1>6, <1>8, <1>9 DEF ShownWith

\* Nothing is revealed twice by the timeline when it is not by the actions.
LEMMA ShownOnceInLine ==
    ASSUME NEW p, NEW bs, NEW program_, NEW off, Played_(bs, program_.timeline, off),
           ShownOnce(p, FlattenSeq(Acts(bs)))
    PROVE  NoRepeatedReveal(p, program_)
<1> DEFINE s == FlattenSeq(Acts(bs))
           line == program_.timeline
<1>1. DOMAIN s = DOMAIN line /\ \A k \in DOMAIN line : line[k].action = s[k]
  BY DEF Played_
<1>2. ShownOnce(p, s)
  OBVIOUS
<1> HIDE DEF s
<1>3. ASSUME NEW j \in DOMAIN line, NEW k \in DOMAIN line, line[j].action.kind = "reveal",
             line[k].action.kind = "reveal",
             NEW g \in DOMAIN line[j].action.targets, NEW i \in DOMAIN line[k].action.targets,
             j < k \/ (j = k /\ g < i)
      PROVE  ~ShownWith(p, line[j].action.targets[g], line[k].action.targets[i])
  <2>1. line[j].action = s[j] /\ line[k].action = s[k] /\ j \in DOMAIN s /\ k \in DOMAIN s
    BY <1>1
  <2>2. ShownOnceAt(p, s, j, k)
    BY <1>2, <1>3, <2>1 DEF ShownOnce
  <2>3. QED BY <1>3, <2>1, <2>2 DEF ShownOnceAt
<1>4. QED BY <1>3 DEF NoRepeatedReveal

-----------------------------------------------------------------------------
(* The moves of a class in all the actions.                                 *)

\* The moves of a class, whole in the b-th list and nowhere else, from its i-th place on.
RunIn(p, c, bs, off, b, i, moves) ==
    /\ i \in 0..Len(bs[b].actions) /\ i + Len(moves) <= Len(bs[b].actions)
    /\ off[b - 1] + i \in 0..Len(FlattenSeq(Acts(bs)))
    /\ Run(p, c, FlattenSeq(Acts(bs)), moves, off[b - 1] + i)

LEMMA RunShifted ==
    ASSUME NEW o \in Nat, NEW i \in Nat, NEW l \in Nat, NEW n \in Nat, NEW m \in Nat,
           i + l <= n, o + n <= m
    PROVE  /\ (o + i) + l <= m /\ o + i \in 0..m
           /\ \A j \in 1..l : i + j \in 1..n /\ (o + i) + j = o + (i + j)
           /\ \A a \in (i + 1)..(i + l) : o + a \in ((o + i) + 1)..((o + i) + l)
OBVIOUS

LEMMA OneStages ==
    ASSUME NEW p, NEW c, NEW bs, NEW line, NEW off, Played_(bs, line, off), Listed(bs),
           \A b \in DOMAIN bs : Listed(bs[b].actions), NEW b \in DOMAIN bs, NEW moves,
           Staged(p, c, bs[b].actions, moves),
           \A m \in DOMAIN bs : m # b => Absent(p, c, bs[m].actions)
    PROVE  \E i : RunIn(p, c, bs, off, b, i, moves)
<1> DEFINE s == FlattenSeq(Acts(bs))
           x == bs[b].actions
<1>1. /\ Offsets(Acts(bs), off) /\ ListOfLists(Acts(bs))
      /\ Listed(s) /\ DOMAIN s = DOMAIN line /\ DOMAIN line = 1..off[Len(bs)]
      /\ \A k \in DOMAIN line : line[k].action = s[k]
      /\ \A m \in DOMAIN bs : \A a \in DOMAIN bs[m].actions :
            /\ off[m - 1] + a \in DOMAIN line
            /\ line[off[m - 1] + a].action = bs[m].actions[a]
      /\ \A k \in DOMAIN line :
            \E m \in DOMAIN bs : \E a \in DOMAIN bs[m].actions : k = off[m - 1] + a
  BY DEF Played_
<1>2. /\ Len(Acts(bs)) = Len(bs) /\ DOMAIN bs = 1..Len(bs) /\ Len(bs) \in Nat
      /\ \A m \in DOMAIN bs : Acts(bs)[m] = bs[m].actions
  BY ActsListed
<1>3. Listed(x) /\ Len(x) \in Nat /\ DOMAIN x = 1..Len(x)
  BY ListPlaces
<1>4. Listed(moves) /\ Len(moves) \in Nat /\ DOMAIN moves = 1..Len(moves)
  BY ListPlaces DEF Staged
<1>5. PICK i \in 0..Len(x) : Run(p, c, x, moves, i)
  BY DEF Staged
<1>6. /\ i + Len(moves) <= Len(x)
      /\ \A j \in DOMAIN moves : x[i + j] = moves[j]
      /\ \A k \in DOMAIN x : InClass(p, c, x[k]) => k \in (i + 1)..(i + Len(moves))
  BY <1>5 DEF Run
<1> DEFINE o == off[b - 1]
           l == Len(moves)
           n == Len(x)
           m == Len(s)
<1>7. m = off[Len(bs)] /\ DOMAIN s = 1..m /\ m \in Nat
  BY <1>1, <1>2, FlattenRuns, ListPlaces
<1>8. o \in Nat /\ o + n <= m
  <2>1. b - 1 \in 0..Len(bs) /\ b \in 1..Len(bs) /\ b \in 0..Len(bs) /\ Len(bs) \in 0..Len(bs)
    BY <1>2
  <2>2. off[b] <= off[Len(bs)]
    BY <1>1, <1>2, <2>1, OffsetsGrow
  <2>3. off[b] = off[b - 1] + Len(bs[b].actions) /\ off[b - 1] \in Nat
    BY <1>1, <1>2, <2>1 DEF Offsets
  <2>4. QED BY <1>7, <2>2, <2>3
<1>9. \A a \in 1..n : s[o + a] = x[a]
  BY <1>1, <1>3
<1>10. \A k \in DOMAIN s : InClass(p, c, s[k]) => \E a \in (i + 1)..(i + l) : k = o + a
  <2>1. SUFFICES ASSUME NEW k \in DOMAIN s, InClass(p, c, s[k])
                 PROVE \E a \in (i + 1)..(i + l) : k = o + a
    OBVIOUS
  <2>2. PICK u \in DOMAIN bs : \E a \in DOMAIN bs[u].actions : k = off[u - 1] + a
    BY <1>1, <2>1
  <2>3. PICK a \in DOMAIN bs[u].actions : k = off[u - 1] + a
    BY <2>2
  <2>4. s[k] = bs[u].actions[a]
    BY <1>1, <2>1, <2>3
  <2>5. u = b
    BY <2>1, <2>3, <2>4 DEF Absent
  <2>6. a \in (i + 1)..(i + l)
    BY <1>6, <2>1, <2>3, <2>4, <2>5
  <2>7. QED BY <2>3, <2>5, <2>6
<1>11. i \in Nat /\ i + l <= n /\ l \in Nat /\ n \in Nat
  BY <1>3, <1>4, <1>5, <1>6
<1> HIDE DEF o, l, n, m, x, s
<1>12. /\ (o + i) + l <= m /\ o + i \in 0..m
       /\ \A j \in 1..l : i + j \in 1..n /\ (o + i) + j = o + (i + j)
       /\ \A a \in (i + 1)..(i + l) : o + a \in ((o + i) + 1)..((o + i) + l)
  <2>1. m \in Nat BY <1>7
  <2>2. o \in Nat /\ o + n <= m BY <1>8
  <2>3. i \in Nat /\ i + l <= n /\ l \in Nat /\ n \in Nat BY <1>11
  <2>4. QED BY <2>1, <2>2, <2>3, RunShifted, Zenon
<1>13. \A j \in DOMAIN moves : s[(o + i) + j] = moves[j]
  BY <1>4, <1>6, <1>9, <1>12 DEF l
<1>14. \A k \in DOMAIN s : InClass(p, c, s[k]) => k \in ((o + i) + 1)..((o + i) + l)
  BY <1>10, <1>12
<1>15. Run(p, c, s, moves, o + i)
  BY <1>12, <1>13, <1>14 DEF Run, l, m
<1>16. RunIn(p, c, bs, off, b, i, moves)
  BY <1>5, <1>11, <1>12, <1>15 DEF RunIn, o, l, n, m, s, x
<1>17. QED BY <1>16

\* What each beat stages of a class, in the beats of a scheduled program.
LEMMA ClassOfBeat ==
    ASSUME NEW p, NEW goal, NEW bs, NEW bk, NEW line, NEW off, Scheduled(p, goal, bs, bk, line, off),
           Distinct(p), NEW c \in Classes, NEW b \in DOMAIN bs
    PROVE  /\ c \in ClassesOf(p, goal, b) => Staged(p, c, bs[b].actions, Moves(p, c))
           /\ c \notin ClassesOf(p, goal, b) => Absent(p, c, bs[b].actions)
<1>1. BeatStaged(p, goal, bs, b)
  BY ScheduledBeats
<1>2. PlaysOut(p, bs[b].actions, ClassesOf(p, goal, b))
  BY <1>1 DEF BeatStaged
<1>3. QED BY <1>2 DEF PlaysOut, StagedOrAbsent

LEMMA ClassRuns ==
    ASSUME NEW p, NEW goal, NEW bs, NEW bk, NEW line, NEW off, Scheduled(p, goal, bs, bk, line, off),
           Distinct(p), NEW c \in Classes, NEW b \in DOMAIN bs, c \in ClassesOf(p, goal, b),
           \A m \in DOMAIN bs : m # b => c \notin ClassesOf(p, goal, m)
    PROVE  \E i : RunIn(p, c, bs, off, b, i, Moves(p, c))
<1> DEFINE moves == Moves(p, c)
<1>1. Listed(bs) /\ \A n \in DOMAIN bs : Listed(bs[n].actions)
  BY ScheduledBeats
<1>2. Played_(bs, line, off)
  BY DEF Scheduled
<1>3. Staged(p, c, bs[b].actions, moves)
  BY ClassOfBeat
<1>4. \A m \in DOMAIN bs : m # b => Absent(p, c, bs[m].actions)
  BY ClassOfBeat
<1> HIDE DEF moves
<1>5. \E i : RunIn(p, c, bs, off, b, i, moves)
  BY <1>1, <1>2, <1>3, <1>4, OneStages
<1>6. QED BY <1>5 DEF moves

LEMMA ClassAbsent ==
    ASSUME NEW p, NEW goal, NEW bs, NEW bk, NEW line, NEW off, Scheduled(p, goal, bs, bk, line, off),
           Distinct(p), NEW c \in Classes, \A m \in DOMAIN bs : c \notin ClassesOf(p, goal, m)
    PROVE  Absent(p, c, FlattenSeq(Acts(bs)))
<1>1. Listed(bs) /\ \A n \in DOMAIN bs : Listed(bs[n].actions)
  BY ScheduledBeats
<1>2. \A m \in DOMAIN bs : Absent(p, c, bs[m].actions)
  BY ClassOfBeat
<1>3. QED BY <1>1, <1>2, AbsentInAll

\* Which beats stage which moves.
LEMMA ClassesAre ==
    ASSUME NEW p, NEW goal, NEW n
    PROVE  /\ "hop" \in ClassesOf(p, goal, n) <=> p.beats[n].id = HopBeat(p)
           /\ "distance" \in ClassesOf(p, goal, n) <=> p.beats[n].id = DistanceBeat(p)
           /\ "turn" \in ClassesOf(p, goal, n) <=> p.beats[n].id = RotationBeat(p)
           /\ "label" \in ClassesOf(p, goal, n) <=> p.beats[n].id = LabelBeat(p)
           /\ "outline" \in ClassesOf(p, goal, n) <=> p.beats[n].id = TraceBeat(p)
           /\ "posed" \in ClassesOf(p, goal, n) <=> n = 1 /\ Declared(p) /\ Answer \notin Refs(p)
           /\ "work" \in ClassesOf(p, goal, n) <=> p.beats[n].id = WorkBeat(p, goal)
           /\ "value" \in ClassesOf(p, goal, n) <=> p.beats[n].kind = "conclude" /\ Declared(p)
<1> DEFINE K == KindClasses(p, p.beats[n])
           T == TraceClasses(p, p.beats[n])
           L == LabelClasses(p, p.beats[n])
           Q == PosedClasses(p, n)
           W == WorkClasses(p, goal, p.beats[n])
<1>1. ClassesOf(p, goal, n) = ((((K \cup T) \cup L) \cup Q) \cup W)
  BY DEF ClassesOf
<1>2. /\ "hop" \in K <=> p.beats[n].id = HopBeat(p)
      /\ "distance" \in K <=> p.beats[n].id = DistanceBeat(p)
      /\ "turn" \in K <=> p.beats[n].id = RotationBeat(p)
      /\ "value" \in K <=> p.beats[n].kind = "conclude" /\ Declared(p)
      /\ K \subseteq {"hop", "distance", "turn", "value"}
  BY DEF KindClasses
<1>3. T = IF p.beats[n].id = TraceBeat(p) THEN {"outline"} ELSE {}
  BY DEF TraceClasses
<1>4. L = IF p.beats[n].id = LabelBeat(p) THEN {"label"} ELSE {}
  BY DEF LabelClasses
<1>5. Q = IF n = 1 /\ Declared(p) /\ Answer \notin Refs(p) THEN {"posed"} ELSE {}
  BY DEF PosedClasses
<1>6. W = IF p.beats[n].id = WorkBeat(p, goal) THEN {"work"} ELSE {}
  BY DEF WorkClasses
<1> HIDE DEF K, T, L, Q, W
<1>7. T \subseteq {"outline"} /\ L \subseteq {"label"} /\ Q \subseteq {"posed"} /\ W \subseteq {"work"}
  BY <1>3, <1>4, <1>5, <1>6
<1>8. /\ "outline" \in T <=> p.beats[n].id = TraceBeat(p)
      /\ "label" \in L <=> p.beats[n].id = LabelBeat(p)
      /\ "posed" \in Q <=> n = 1 /\ Declared(p) /\ Answer \notin Refs(p)
      /\ "work" \in W <=> p.beats[n].id = WorkBeat(p, goal)
  BY <1>3, <1>4, <1>5, <1>6
<1>9. QED BY <1>1, <1>2, <1>7, <1>8

\* The beats have ids, and an id of one beat is not that of another.
LEMMA IdsOfBeats ==
    ASSUME NEW p, NEW goal, Admitted(p, goal)
    PROVE  \A n \in DOMAIN p.beats : p.beats[n].id # None
<1>1. \A n \in DOMAIN p.beats : ValidBeat(p.beats[n])
  BY BeatsOfPlan DEF Admitted
<1>2. QED BY <1>1 DEF ValidBeat

\* A class that belongs to the beat of one id runs there once, or nowhere when there is no such id.
RunsOnce(p, c, bs, moves) ==
    \E i \in 0..Len(FlattenSeq(Acts(bs))) : Run(p, c, FlattenSeq(Acts(bs)), moves, i)

LEMMA ClassOfId ==
    ASSUME NEW p, NEW goal, NEW bs, NEW bk, NEW line, NEW off, Scheduled(p, goal, bs, bk, line, off),
           Distinct(p), NEW c \in Classes, NEW id, id # None => Worked(p, id),
           \A n : c \in ClassesOf(p, goal, n) <=> p.beats[n].id = id
    PROVE  /\ id = None => Absent(p, c, FlattenSeq(Acts(bs)))
           /\ id # None => RunsOnce(p, c, bs, Moves(p, c))
<1>1. /\ DOMAIN p.beats = DOMAIN bs /\ \A n \in DOMAIN bs : p.beats[n].id # None
  BY ScheduledBeats, IdsOfBeats DEF Scheduled
<1>2. CASE id = None
  BY <1>1, <1>2, ClassAbsent
<1>3. CASE id # None
  <2>1. PICK b \in DOMAIN bs : p.beats[b].id = id
    BY <1>1, <1>3 DEF Worked
  <2>2. \A m \in DOMAIN bs : m # b => c \notin ClassesOf(p, goal, m)
    BY <1>1, <2>1 DEF Distinct
  <2>3. c \in ClassesOf(p, goal, b)
    BY <2>1
  <2>4. PICK i : RunIn(p, c, bs, off, b, i, Moves(p, c))
    BY <2>2, <2>3, ClassRuns
  <2> DEFINE k == off[b - 1] + i
             moves == Moves(p, c)
  <2>5. k \in 0..Len(FlattenSeq(Acts(bs))) /\ Run(p, c, FlattenSeq(Acts(bs)), moves, k)
    BY <2>4 DEF RunIn
  <2> HIDE DEF k, moves
  <2>6. RunsOnce(p, c, bs, moves)
    BY <2>5 DEF RunsOnce
  <2>7. QED BY <1>3, <2>6 DEF moves
<1>4. QED BY <1>2, <1>3

-----------------------------------------------------------------------------
(* The answer in the timeline.                                              *)

ClassIn(p, c, line) == {k \in DOMAIN line : InClass(p, c, line[k].action)}

LEMMA OneOfClass ==
    ASSUME NEW p, NEW c, NEW bs, NEW line, NEW off, Played_(bs, line, off), Listed(bs),
           NEW b \in DOMAIN bs, Listed(bs[b].actions), NEW a, InClass(p, c, a),
           NEW i, RunIn(p, c, bs, off, b, i, <<a>>)
    PROVE  /\ i + 1 \in DOMAIN bs[b].actions
           /\ line[off[b - 1] + (i + 1)].beat = bs[b].id
           /\ off[b - 1] + (i + 1) \in DOMAIN line
           /\ ClassIn(p, c, line) = {off[b - 1] + (i + 1)}
<1> DEFINE s == FlattenSeq(Acts(bs))
           x == bs[b].actions
           o == off[b - 1]
           k == o + (i + 1)
           m == <<a>>
<1>1. Len(m) = 1 /\ DOMAIN m = {1} /\ m[1] = a
  BY ListOfOne
<1>2. /\ DOMAIN s = DOMAIN line
      /\ \A j \in DOMAIN line : line[j].action = s[j]
      /\ \A j \in DOMAIN x : o + j \in DOMAIN line /\ line[o + j].beat = bs[b].id
  BY DEF Played_
<1>3. Len(x) \in Nat /\ DOMAIN x = 1..Len(x)
  BY ListPlaces
<1>4. i \in 0..Len(x) /\ i + Len(m) <= Len(x) /\ Run(p, c, s, m, o + i)
  BY DEF RunIn
<1> HIDE DEF m, s, x
<1>5. i + 1 \in DOMAIN x /\ i \in Nat
  BY <1>1, <1>3, <1>4
<1>6. o \in Nat
  BY <1>5, PlayedBefore DEF x
<1>7. /\ s[(o + i) + 1] = a
      /\ \A j \in DOMAIN s : InClass(p, c, s[j]) => j \in ((o + i) + 1)..((o + i) + 1)
  BY <1>1, <1>4 DEF Run
<1> HIDE DEF o
<1>8. k = (o + i) + 1 /\ k..k = {k}
  BY <1>5, <1>6
<1>9. k \in DOMAIN line /\ line[k].beat = bs[b].id
  BY <1>2, <1>5
<1>10. InClass(p, c, line[k].action)
  BY <1>2, <1>7, <1>8, <1>9
<1>11. \A j \in DOMAIN line : InClass(p, c, line[j].action) => j = k
  BY <1>2, <1>7, <1>8
<1> HIDE DEF k
<1>12. ClassIn(p, c, line) = {k}
  BY <1>9, <1>10, <1>11 DEF ClassIn
<1>13. QED BY <1>5, <1>9, <1>12 DEF k, o, x

LEMMA AbsentInLine ==
    ASSUME NEW p, NEW c, NEW bs, NEW line, NEW off, Played_(bs, line, off),
           Absent(p, c, FlattenSeq(Acts(bs)))
    PROVE  ClassIn(p, c, line) = {}
<1> DEFINE s == FlattenSeq(Acts(bs))
<1>1. DOMAIN s = DOMAIN line /\ \A k \in DOMAIN line : line[k].action = s[k]
  BY DEF Played_
<1>2. Absent(p, c, s)
  OBVIOUS
<1> HIDE DEF s
<1>3. QED BY <1>1, <1>2 DEF ClassIn, Absent

LEMMA AnswerClasses ==
    ASSUME NEW p, NEW program_
    PROVE  /\ Answer \notin Refs(p) => Poses(program_) = ClassIn(p, "posed", program_.timeline)
           /\ Stages(program_, "value") = ClassIn(p, "value", program_.timeline)
           /\ Stages(program_, "work") = ClassIn(p, "work", program_.timeline)
           /\ InClass(p, "value", ShowStage("value")) /\ InClass(p, "work", ShowStage("work"))
           /\ \A mode : Answer \notin Refs(p) => InClass(p, "posed", Reveal(<<Whole(Answer)>>, mode))
<1>1. \A a : /\ InClass(p, "value", a) <=> a = ShowStage("value")
             /\ InClass(p, "work", a) <=> a = ShowStage("work")
             /\ Answer \notin Refs(p) =>
                   (InClass(p, "posed", a) <=>
                      a.kind = "reveal" /\ \E t \in Range(a.targets) : t.visual = Answer)
  BY DEF InClass
<1>2. ASSUME NEW mode, Answer \notin Refs(p)
      PROVE InClass(p, "posed", Reveal(<<Whole(Answer)>>, mode))
  <2> DEFINE a == Reveal(<<Whole(Answer)>>, mode)
  <2>1. a.kind = "reveal" /\ a.targets = <<Whole(Answer)>>
    BY DEF Reveal
  <2>2. Whole(Answer) \in Range(a.targets)
    BY <2>1, ListOfOne
  <2>3. Whole(Answer).visual = Answer
    BY WholeParts
  <2> HIDE DEF a
  <2>4. InClass(p, "posed", a)
    BY <1>1, <1>2, <2>1, <2>2, <2>3
  <2>5. QED BY <2>4 DEF a
<1>3. QED BY <1>1, <1>2 DEF Poses, Stages, ClassIn

\* The last beat concludes and the others do not.
LEMMA LastConcludes ==
    ASSUME NEW p, NEW goal, Admitted(p, goal)
    PROVE  /\ p.beats[Len(p.beats)].kind = "conclude"
           /\ \A n \in DOMAIN p.beats : n # Len(p.beats) => p.beats[n].kind # "conclude"
           /\ BeatsThat(p, Works) # {} /\ BeatOrder(p)
<1>1. Len(p.beats) \in 3..5 /\ DOMAIN p.beats = 1..Len(p.beats)
  BY BeatsOfPlan DEF Admitted
<1>2. BeatOrder(p)
  BY DEF Admitted, ValidDocument
<1>3. BeatsThat(p, Works) # {}
  <2>1. PICK b \in 1..(Len(p.beats) - 1) : Works(p.beats[b])
    BY <1>2 DEF BeatOrder
  <2>2. b \in DOMAIN p.beats
    BY <1>1
  <2>3. QED BY <2>1, <2>2 DEF BeatsThat
<1>4. \A n \in DOMAIN p.beats : n # Len(p.beats) => p.beats[n].kind # "conclude"
  <2>1. \A n \in DOMAIN p.beats : n # Len(p.beats) => n \in 1..(Len(p.beats) - 1)
    BY <1>1
  <2>2. QED BY <1>2, <2>1 DEF BeatOrder
<1>5. QED BY <1>2, <1>3, <1>4 DEF BeatOrder

LEMMA AnswerIsPosed ==
    ASSUME NEW p, NEW goal, NEW bs, NEW bk, NEW line, NEW off, Scheduled(p, goal, bs, bk, line, off),
           Distinct(p), Answer \notin Refs(p), Declared(p)
    PROVE  \E k \in DOMAIN line : ClassIn(p, "posed", line) = {k} /\ line[k].beat = line[1].beat
<1> DEFINE a == Reveal(<<Whole(Answer)>>, PosedMode(p))
<1>1. Listed(bs) /\ (\A n \in DOMAIN bs : Listed(bs[n].actions)) /\ 1 \in DOMAIN bs
  BY ScheduledBeats
<1>2. Played_(bs, line, off)
  BY DEF Scheduled
<1>3. InClass(p, "posed", a)
  BY AnswerClasses
<1>4. Moves(p, "posed") = <<a>> /\ "posed" \in Classes
  BY DEF Moves, Classes
<1>5. "posed" \in ClassesOf(p, goal, 1) /\ \A m \in DOMAIN bs : m # 1 => "posed" \notin ClassesOf(p, goal, m)
  BY ClassesAre
<1> HIDE DEF a
<1>6. PICK i : RunIn(p, "posed", bs, off, 1, i, <<a>>)
  <2>1. \E i : RunIn(p, "posed", bs, off, 1, i, Moves(p, "posed"))
    BY <1>1, <1>4, <1>5, ClassRuns
  <2>2. QED BY <1>4, <2>1
<1> DEFINE one == 1
           k == off[one - 1] + (i + 1)
<1>7. /\ i + 1 \in DOMAIN bs[one].actions /\ line[k].beat = bs[one].id
      /\ k \in DOMAIN line /\ ClassIn(p, "posed", line) = {k}
  <2>1. one \in DOMAIN bs /\ Listed(bs[one].actions) /\ RunIn(p, "posed", bs, off, one, i, <<a>>)
    BY <1>1, <1>6
  <2> HIDE DEF one
  <2>2. QED BY <1>1, <1>2, <1>3, <2>1, OneOfClass
<1>8. 1 \in DOMAIN bs[1].actions
  <2>1. DOMAIN bs[1].actions = 1..Len(bs[1].actions) /\ Len(bs[1].actions) \in Nat
    BY <1>1, ListPlaces
  <2>2. i + 1 \in 1..Len(bs[1].actions)
    BY <1>7, <2>1
  <2>3. QED BY <2>1, <2>2
<1>9. line[off[one - 1] + 1].beat = bs[1].id /\ off[one - 1] = 0
  <2>1. one - 1 = 0
    OBVIOUS
  <2>2. off[0] = 0
    BY <1>2 DEF Played_, Offsets
  <2>3. line[off[1 - 1] + 1].beat = bs[1].id
    BY <1>1, <1>2, <1>8 DEF Played_
  <2>4. QED BY <2>1, <2>2, <2>3
<1>10. line[1].beat = bs[1].id
  BY <1>9
<1> HIDE DEF k
<1>11. QED BY <1>7, <1>10

\* The place in the last beat where the answer is given, and the one before, if any, where
\* it is worked out.
LEMMA AnswerIsGiven ==
    ASSUME NEW p, NEW goal, NEW bs, NEW bk, NEW line, NEW off, Scheduled(p, goal, bs, bk, line, off),
           Distinct(p), Declared(p)
    PROVE  /\ \E v \in DOMAIN line :
                 /\ ClassIn(p, "value", line) = {v} /\ line[v].beat = p.beats[Len(p.beats)].id
                 /\ ClassIn(p, "work", line) = {} \/ \E w \in 1..(v - 1) : ClassIn(p, "work", line) = {w}
           /\ HasOperation(goal) => ClassIn(p, "work", line) # {}
<1> DEFINE a == ShowStage("value")
           e == ShowStage("work")
           n == Len(bs)
           id == WorkBeat(p, goal)
<1>1. /\ Listed(bs) /\ (\A m \in DOMAIN bs : Listed(bs[m].actions) /\ bs[m].id = p.beats[m].id)
      /\ DOMAIN bs = 1..n /\ n \in DOMAIN bs /\ n \in Nat /\ DOMAIN p.beats = DOMAIN bs /\ Listed(p.beats)
  BY ScheduledBeats
<1>2. Played_(bs, line, off) /\ Admitted(p, goal) /\ n = Len(p.beats)
  BY DEF Scheduled
<1>3. InClass(p, "value", a) /\ InClass(p, "work", e)
  BY AnswerClasses
<1>4. /\ Moves(p, "value") = <<a>> /\ "value" \in Classes
      /\ Moves(p, "work") = <<e>> /\ "work" \in Classes
  BY DEF Moves, Classes
<1>5. "value" \in ClassesOf(p, goal, n) /\ \A m \in DOMAIN bs : m # n => "value" \notin ClassesOf(p, goal, m)
  BY <1>1, <1>2, ClassesAre, LastConcludes
<1> HIDE DEF a, e, n
<1>6. PICK i : RunIn(p, "value", bs, off, n, i, <<a>>)
  <2>1. \E i : RunIn(p, "value", bs, off, n, i, Moves(p, "value"))
    BY <1>1, <1>4, <1>5, ClassRuns
  <2>2. QED BY <1>4, <2>1
<1> DEFINE v == off[n - 1] + (i + 1)
<1>7. /\ i + 1 \in DOMAIN bs[n].actions /\ line[v].beat = bs[n].id
      /\ v \in DOMAIN line /\ ClassIn(p, "value", line) = {v}
  <2>1. n \in DOMAIN bs /\ Listed(bs[n].actions)
    BY <1>1
  <2>2. Listed(bs) /\ Played_(bs, line, off) /\ InClass(p, "value", a)
    BY <1>1, <1>2, <1>3
  <2>3. QED BY <1>6, <2>1, <2>2, OneOfClass
<1>8. \A m : "work" \in ClassesOf(p, goal, m) <=> p.beats[m].id = id
  BY ClassesAre
<1>9. \A m \in DOMAIN bs : p.beats[m].id # None
  BY <1>1, <1>2, IdsOfBeats
<1>10. ASSUME id = None PROVE ClassIn(p, "work", line) = {}
  <2>1. \A m \in DOMAIN bs : "work" \notin ClassesOf(p, goal, m)
    BY <1>8, <1>9, <1>10
  <2>2. Absent(p, "work", FlattenSeq(Acts(bs)))
    BY <1>4, <2>1, ClassAbsent
  <2>3. QED BY <1>2, <2>2, AbsentInLine
<1>11. ASSUME id # None PROVE \E w \in 1..(v - 1) : ClassIn(p, "work", line) = {w}
  <2>1. Worked(p, id)
    BY <1>1, <1>2, <1>11, LastConcludes, WorkSelected
  <2>2. PICK b \in DOMAIN bs : p.beats[b].id = id /\ p.beats[b].kind \in {"organize", "focus", "derive"}
    BY <1>1, <2>1 DEF Worked
  <2>3. b # n /\ b < n
    BY <1>1, <1>2, <2>2, LastConcludes
  <2>4. \A m \in DOMAIN bs : m # b => "work" \notin ClassesOf(p, goal, m)
    BY <1>1, <1>8, <2>2 DEF Distinct
  <2>5. "work" \in ClassesOf(p, goal, b)
    BY <1>8, <2>2
  <2>6. PICK j : RunIn(p, "work", bs, off, b, j, <<e>>)
    <3>1. \E j : RunIn(p, "work", bs, off, b, j, Moves(p, "work"))
      BY <1>4, <2>4, <2>5, ClassRuns
    <3>2. QED BY <1>4, <3>1
  <2> DEFINE w == off[b - 1] + (j + 1)
  <2>7. /\ j + 1 \in DOMAIN bs[b].actions
        /\ w \in DOMAIN line /\ ClassIn(p, "work", line) = {w}
    <3>1. b \in DOMAIN bs /\ Listed(bs[b].actions)
      BY <1>1
    <3>2. Listed(bs) /\ Played_(bs, line, off) /\ InClass(p, "work", e)
      BY <1>1, <1>2, <1>3
    <3>3. QED BY <2>6, <3>1, <3>2, OneOfClass
  <2>8. w < v
    BY <1>1, <1>2, <1>7, <2>3, <2>7, PlayedBefore
  <2>9. DOMAIN line = 1..off[Len(bs)] /\ off[Len(bs)] \in Nat
    BY <1>1, <1>2, <1>7, PlayedBefore DEF Played_
  <2> HIDE DEF w, v
  <2>10. w \in 1..(v - 1)
    BY <1>7, <2>7, <2>8, <2>9
  <2>11. QED BY <2>7, <2>10
<1>12. ASSUME HasOperation(goal) PROVE id # None
  <2>1. BeatsThat(p, Works) # {} /\ BeatsThat(p, Works) \subseteq DOMAIN p.beats
    BY <1>2, LastConcludes DEF BeatsThat
  <2>2. Max(BeatsThat(p, Works)) \in DOMAIN p.beats
    BY <1>1, <2>1, LatestOf
  <2>3. id = p.beats[Max(BeatsThat(p, Works))].id
    BY <1>12 DEF WorkBeat
  <2>4. QED BY <1>1, <1>9, <2>2, <2>3
<1> HIDE DEF v, id
<1>13. \E x \in DOMAIN line :
          /\ ClassIn(p, "value", line) = {x} /\ line[x].beat = p.beats[Len(p.beats)].id
          /\ ClassIn(p, "work", line) = {} \/ \E w \in 1..(x - 1) : ClassIn(p, "work", line) = {w}
  BY <1>1, <1>2, <1>7, <1>10, <1>11
<1>14. HasOperation(goal) => ClassIn(p, "work", line) # {}
  BY <1>11, <1>12
<1>15. QED BY <1>13, <1>14

\* The answer is posed, worked out and given, in this order.
LEMMA AnswerStaged ==
    ASSUME NEW p, NEW goal, NEW bs, NEW bk, NEW program_, NEW off,
           Scheduled(p, goal, bs, bk, program_.timeline, off), Distinct(p), Answer \notin Refs(p)
    PROVE  AnswerTiming(p, program_) /\ WorkShown(p, goal, program_)
<1> DEFINE line == program_.timeline
<1>1. /\ Poses(program_) = ClassIn(p, "posed", line)
      /\ Stages(program_, "value") = ClassIn(p, "value", line)
      /\ Stages(program_, "work") = ClassIn(p, "work", line)
  BY AnswerClasses
<1>2. AnswerTiming(p, program_)
  <2>1. SUFFICES ASSUME Declared(p) PROVE AnswerTiming(p, program_)
    BY DEF AnswerTiming
  <2>2. \E k \in DOMAIN line : Poses(program_) = {k} /\ line[k].beat = line[1].beat
    BY <1>1, <2>1, AnswerIsPosed
  <2>3. \E v \in DOMAIN line :
           /\ Stages(program_, "value") = {v} /\ line[v].beat = p.beats[Len(p.beats)].id
           /\ Stages(program_, "work") = {} \/ \E w \in 1..(v - 1) : Stages(program_, "work") = {w}
    BY <1>1, <2>1, AnswerIsGiven
  <2>4. QED BY <2>2, <2>3 DEF AnswerTiming
<1>3. WorkShown(p, goal, program_)
  <2>1. SUFFICES ASSUME Declared(p), HasOperation(goal)
                 PROVE \E e \in Range(line) : e.action = ShowStage("work")
    BY DEF WorkShown
  <2>2. Stages(program_, "work") # {}
    BY <1>1, <2>1, AnswerIsGiven
  <2>3. PICK k \in DOMAIN line : line[k].action = ShowStage("work")
    BY <2>2 DEF Stages
  <2>4. line[k] \in Range(line)
    BY DEF Range
  <2>5. QED BY <2>3, <2>4
<1>4. QED BY <1>2, <1>3

-----------------------------------------------------------------------------
(* The life of a plan.                                                      *)

Compiled == phase \in {"compiled", "judged", "playing", "approved"}

\* What holds from the first step to the last.
CompilerInv ==
    /\ ValidDocument(plan)
    /\ BeatsStaged(plan, answer, beats, books)
    /\ phase \in {"received", "expanding", "compiled", "judged", "playing", "approved", "refused"}
    /\ phase \notin {"received", "refused"} => Admissible
    /\ Compiled =>
          /\ Len(beats) = Len(plan.beats) /\ Schedulable
          /\ program = [timeline |-> Schedule(beats), relations |-> books.relations,
                        total |-> SceneLength(beats)]
    /\ Accepted => QualityPassed(plan, answer, program)

LEMMA AdmissibleIsAdmitted ==
    ASSUME ValidDocument(plan), Admissible
    PROVE  Admitted(plan, answer)
BY DEF Admissible, Admitted

LEMMA CompilerInit == Init => CompilerInv
<1> SUFFICES ASSUME Init PROVE CompilerInv
  OBVIOUS
<1>1. ValidDocument(plan)
  BY RequestsAssumption DEF Init
<1>2. Listed(plan.beats)
  BY <1>1 DEF ValidDocument
<1>3. BeatsStaged(plan, answer, beats, books)
  BY <1>2, NoBeats DEF Init
<1>4. phase = "received"
  BY DEF Init
<1>5. QED BY <1>1, <1>3, <1>4 DEF CompilerInv, Compiled, Accepted

LEMMA CompilerStep == CompilerInv /\ [Next]_vars => CompilerInv'
<1> SUFFICES ASSUME CompilerInv, [Next]_vars PROVE CompilerInv'
  OBVIOUS
<1> USE DEF playback
<1>1. CASE Validate
  <2>1. /\ phase = "received" /\ phase' \in {"expanding", "refused"}
        /\ phase' = "expanding" => Admissible
        /\ UNCHANGED <<plan, answer, books, beats, program>>
    BY <1>1 DEF Validate
  <2>2. Admissible => Admissible'
    BY <2>1 DEF Admissible
  <2>3. QED BY <2>1, <2>2 DEF CompilerInv, Compiled, Accepted
<1>2. CASE Expand
  <2> DEFINE n == Len(beats) + 1
             e == Expanded(plan, plan.beats[n], books'.actions)
  <2>1. /\ phase = "expanding" /\ Len(beats) < Len(plan.beats)
        /\ books' = ExpandBeat(plan, answer, books, n) /\ beats' = Append(beats, e)
        /\ UNCHANGED <<plan, answer, phase, program>>
    BY <1>2 DEF Expand
  <2>2. Admissible /\ ValidDocument(plan) /\ BeatsStaged(plan, answer, beats, books)
    BY <2>1 DEF CompilerInv
  <2>3. Admitted(plan, answer)
    BY <2>2, AdmissibleIsAdmitted
  <2>4. e.id = plan.beats[n].id /\ e.actions = books'.actions
    BY DEF Expanded
  <2> HIDE DEF e, n
  <2>5. BeatsStaged(plan, answer, Append(beats, e), books')
    <3>1. n = Len(beats) + 1
      BY DEF n
    <3> DEFINE d == books'
    <3>2. d = ExpandBeat(plan, answer, books, n) /\ e.actions = d.actions
      BY <2>1, <2>4
    <3> HIDE DEF d
    <3>3. BeatsStaged(plan, answer, Append(beats, e), d)
      BY <2>1, <2>2, <2>3, <2>4, <3>1, <3>2, BeatsGrow
    <3>4. QED BY <3>3 DEF d
  <2>6. BeatsStaged(plan, answer, beats, books)'
    BY <2>1, <2>5
  <2>7. Admissible'
    BY <2>1, <2>2 DEF Admissible
  <2>8. QED BY <2>1, <2>2, <2>6, <2>7 DEF CompilerInv, Compiled, Accepted
<1>3. CASE Compile
  <2>1. /\ phase = "expanding" /\ Len(beats) = Len(plan.beats)
        /\ phase' \in {"compiled", "refused"}
        /\ phase' = "compiled" =>
              /\ Schedulable
              /\ program' = [timeline |-> Schedule(beats), relations |-> books.relations,
                             total |-> SceneLength(beats)]
        /\ UNCHANGED <<plan, answer, books, beats>>
    BY <1>3 DEF Compile
  <2>2. Admissible /\ ValidDocument(plan) /\ BeatsStaged(plan, answer, beats, books)
    BY <2>1 DEF CompilerInv
  <2>3. Admissible' /\ BeatsStaged(plan, answer, beats, books)'
    BY <2>1, <2>2 DEF Admissible
  <2>4. Schedulable => Schedulable'
    BY <2>1 DEF Schedulable
  <2>5. QED BY <2>1, <2>2, <2>3, <2>4 DEF CompilerInv, Compiled, Accepted
<1>4. CASE Judge
  <2>1. /\ phase = "compiled" /\ phase' \in {"judged", "refused"}
        /\ phase' = "judged" => QualityPassed(plan, answer, program)
        /\ UNCHANGED <<plan, answer, books, beats, program>>
    BY <1>4 DEF Judge
  <2>2. Admissible => Admissible'
    BY <2>1 DEF Admissible
  <2>3. Schedulable => Schedulable'
    BY <2>1 DEF Schedulable
  <2>4. QED BY <2>1, <2>2, <2>3 DEF CompilerInv, Compiled, Accepted
<1>5. ASSUME /\ phase \in {"judged", "playing"} /\ phase' \in {"playing", "approved", "refused"}
             /\ UNCHANGED <<plan, answer, books, beats, program>>
      PROVE  CompilerInv'
  <2>1. Admissible => Admissible'
    BY <1>5 DEF Admissible
  <2>2. Schedulable => Schedulable'
    BY <1>5 DEF Schedulable
  <2>3. QED BY <1>5, <2>1, <2>2 DEF CompilerInv, Compiled, Accepted
<1>6. CASE Resolve
  BY <1>5, <1>6 DEF Resolve
<1>7. CASE PlayGroup
  BY <1>5, <1>7 DEF PlayGroup
<1>8. CASE Finish
  BY <1>5, <1>8 DEF Finish
<1>9. CASE UNCHANGED vars
  <2>1. Admissible => Admissible'
    BY <1>9 DEF Admissible, vars
  <2>2. Schedulable => Schedulable'
    BY <1>9 DEF Schedulable, vars
  <2>3. QED BY <1>9, <2>1, <2>2 DEF CompilerInv, Compiled, Accepted, vars
<1>10. QED BY <1>1, <1>2, <1>3, <1>4, <1>6, <1>7, <1>8, <1>9 DEF Next

LEMMA CompilerAlways == Spec => []CompilerInv
<1>1. QED BY CompilerInit, CompilerStep, PTL DEF Spec

-----------------------------------------------------------------------------
(* What the invariant gives.                                                *)

LEMMA EmittedIs == Emitted = FlattenSeq(Acts(beats))
BY DEF Emitted, Acts

\* A part that the renderer draws is of some class.
LEMMA DrawnTargets ==
    ASSUME NEW p, ValidDocument(p), NEW v \in Range(Visuals(p)), NEW t \in PartsDrawn(v)
    PROVE  IsTarget(t) /\ t.visual \in Refs(p)
<1>1. PICK part \in PartsOf(v.kind) \ {"vertex"} : \E i \in Int : t = Part(v.ref, part, i)
  BY DEF PartsDrawn
<1>2. part \in PartClasses
  <2>1. ValidVisual(v)
    BY DEF ValidDocument
  <2>2. v.kind \in DOMAIN SupportedStrategies
    BY <2>1 DEF ValidVisual
  <2>3. QED BY <1>1, <2>2 DEF SupportedStrategies, PartsOf, PartClasses
<1>3. part # None
  BY <1>2, PartsAssumption
<1>4. QED BY <1>1, <1>3 DEF IsTarget, Part, Refs

\* What the books can tell of a target is what it shows.
LEMMA FollowedShows ==
    ASSUME NEW p, NEW s, NEW t, Followed(p, s, t)
    PROVE  ShownRole(p, s, t) = RoleAfter(p, s, t)
<1>1. CASE Reaching(p, s, t) = {}
  <2>1. BuiltAsWhole(p, t)
    BY <1>1 DEF Followed, Reaching
  <2>2. ShownRole(p, s, t) = InitialRoles(p)[Whole(t.visual)]
    BY <1>1, <2>1 DEF ShownRole, Reaching, BuiltRole
  <2>3. QED BY <1>1, <2>2 DEF RoleAfter
<1>2. CASE Reaching(p, s, t) # {}
  BY <1>2 DEF ShownRole, RoleAfter, Reaching
<1>3. QED BY <1>1, <1>2

LEMMA RolesOfBooks == CompilerInv => RolesAsPlayed
<1> SUFFICES ASSUME CompilerInv, NEW t \in Targets, Followed(plan, Emitted, t)
             PROVE CurrentRole(books, t) = ShownRole(plan, Emitted, t)
  BY DEF RolesAsPlayed
<1> DEFINE s == FlattenSeq(Acts(beats))
           f == Fresh(books)
           e == <<>>
           roles == books.roles
<1>1. Agree(plan, s, f) /\ Booked(books)
  BY DEF CompilerInv, BeatsStaged
<1>2. f.actions = e /\ f.roles = roles
  <2>1. f = [books EXCEPT !.actions = e]
    BY DEF Fresh
  <2> HIDE DEF f, e
  <2>2. QED BY <1>1, <2>1, ActionsWritten
<1> HIDE DEF f
<1>3. Listed(s) /\ s \o e = s
  BY <1>1, JoinedWithNone DEF Agree
<1>4. RolesKept(plan, roles, s)
  BY <1>1, <1>2, <1>3 DEF Agree
<1>5. Emitted = s
  BY EmittedIs
<1> HIDE DEF s
<1>6. ShownRole(plan, s, t) = RoleAfter(plan, s, t)
  BY <1>5, FollowedShows
<1>7. CASE t \in DOMAIN roles
  BY <1>4, <1>5, <1>6, <1>7 DEF RolesKept, CurrentRole
<1>8. CASE t \notin DOMAIN roles
  <2>1. ASSUME NEW k \in DOMAIN s, s[k].kind = "set_role", s[k].targets[1] = t
        PROVE  Colourable(plan, t) /\ ~Deferred(plan, t)
    BY <1>4, <1>8, <2>1 DEF RolesKept
  <2>2. ~Deferred(plan, t)
    <3>1. CASE BuiltAsWhole(plan, t)
      BY <3>1 DEF BuiltAsWhole
    <3>2. CASE \E k \in DOMAIN s : Reaches(plan, s[k], t)
      BY <2>1, <3>2 DEF Reaches
    <3>3. QED BY <1>5, <3>1, <3>2 DEF Followed
  <2>3. Colourable(plan, t)
    <3>1. CASE t \in {Whole(ref) : ref \in Refs(plan) \cup (IF Declared(plan) THEN {Answer} ELSE {})}
      BY <3>1 DEF Colourable, KnownRefs, IsTarget, Whole, Part
    <3>2. CASE t \in UNION {PartsDrawn(v) : v \in Range(Visuals(plan))}
      <4>1. PICK v \in Range(Visuals(plan)) : t \in PartsDrawn(v)
        BY <3>2
      <4>2. ValidDocument(plan)
        BY DEF CompilerInv
      <4>3. IsTarget(t) /\ t.visual \in Refs(plan)
        BY <4>1, <4>2, DrawnTargets
      <4>4. QED BY <4>3 DEF Colourable, KnownRefs
    <3>3. CASE t \in Recoloured
      <4>1. PICK a \in Range(s) : a.kind = "set_role" /\ a.targets[1] = t
        BY <1>5, <3>3 DEF Recoloured
      <4>2. PICK k \in DOMAIN s : s[k] = a
        BY <4>1 DEF Range
      <4>3. QED BY <2>1, <4>1, <4>2
    <3>4. \/ t \in {Whole(ref) : ref \in Refs(plan) \cup (IF Declared(plan) THEN {Answer} ELSE {})}
          \/ t \in UNION {PartsDrawn(v) : v \in Range(Visuals(plan))}
          \/ t \in {r \in Recoloured : r.part # "vertex"}
      BY Zenon DEF Targets
    <3>5. t \in {r \in Recoloured : r.part # "vertex"} => t \in Recoloured
      OBVIOUS
    <3>6. QED BY <3>1, <3>2, <3>3, <3>4, <3>5
  <2>4. RoleAfter(plan, s, t) = roles[Whole(t.visual)]
    BY <1>4, <1>8, <2>2, <2>3 DEF RolesKept
  <2>5. QED BY <1>5, <1>6, <1>8, <2>4 DEF CurrentRole
<1>9. QED BY <1>7, <1>8

LEMMA CompiledIsScheduled ==
    ASSUME CompilerInv, Compiled
    PROVE  /\ \E off : Scheduled(plan, answer, beats, books, program.timeline, off)
           /\ program.timeline = Schedule(beats)
<1>1. /\ Len(beats) = Len(plan.beats) /\ program.timeline = Schedule(beats)
      /\ BeatsStaged(plan, answer, beats, books)
      /\ Admitted(plan, answer)
  <2>1. Admissible /\ ValidDocument(plan)
    BY DEF CompilerInv, Compiled
  <2>2. Admitted(plan, answer)
    BY <2>1, AdmissibleIsAdmitted
  <2>3. QED BY <2>2 DEF CompilerInv
<1>2. Listed(beats) /\ \A b \in DOMAIN beats : Listed(beats[b].actions)
  BY <1>1 DEF BeatsStaged, BeatStaged
<1>3. \E off : Played_(beats, Schedule(beats), off)
  BY <1>2, SchedulePlays
<1>4. QED BY <1>1, <1>3 DEF Scheduled

LEMMA AnswerInTime == CompilerInv => CompilerStagesAnswer
<1> SUFFICES ASSUME CompilerInv, phase = "compiled", UniqueIds, Answer \notin Refs(plan)
             PROVE AnswerTiming(plan, program) /\ WorkShown(plan, answer, program)
  BY DEF CompilerStagesAnswer
<1>1. PICK off : Scheduled(plan, answer, beats, books, program.timeline, off)
  BY CompiledIsScheduled DEF Compiled
<1>2. Distinct(plan)
  BY DEF UniqueIds, Distinct
<1> DEFINE p == plan
           goal == answer
           bs == beats
           bk == books
           pr == program
<1>3. Scheduled(p, goal, bs, bk, pr.timeline, off) /\ Distinct(p) /\ Answer \notin Refs(p)
  BY <1>1, <1>2
<1> HIDE DEF p, goal, bs, bk, pr
<1>4. AnswerTiming(p, pr) /\ WorkShown(p, goal, pr)
  BY <1>3, AnswerStaged
<1>5. QED BY <1>4 DEF p, goal, pr

LEMMA ShownInTime == CompilerInv => NothingShownTwice
<1> SUFFICES ASSUME CompilerInv, phase = "compiled", UniqueIds,
                    \A beat \in Range(plan.beats) :
                       /\ NamesOnce(plan, beat.targets)
                       /\ \A a \in Range(beat.custom) : a.kind = "reveal" => NamesOnce(plan, a.targets)
             PROVE NoRepeatedReveal(plan, program)
  BY DEF NothingShownTwice
<1> DEFINE s == FlattenSeq(Acts(beats))
           f == Fresh(books)
           e == <<>>
           revealed == books.revealed
           p == plan
           bs == beats
           pr == program
<1>1. Clean(p)
  BY DEF Clean, UniqueIds
<1>2. Agree(p, s, f) /\ Booked(books)
  BY DEF CompilerInv, BeatsStaged
<1>3. f.actions = e
  <2>1. f = [books EXCEPT !.actions = e]
    BY DEF Fresh
  <2> HIDE DEF f, e
  <2>2. QED BY <1>2, <2>1, ActionsWritten
<1>4. PICK off : Played_(bs, pr.timeline, off)
  BY CompiledIsScheduled DEF Compiled, Scheduled
<1> HIDE DEF f, p
<1>5. Listed(s) /\ s \o e = s
  BY <1>2, JoinedWithNone DEF Agree
<1>6. ShownOnce(p, s)
  BY <1>1, <1>2, <1>3, <1>5 DEF Agree, RevealsKept
<1> HIDE DEF bs, pr
<1>7. ShownOnce(p, FlattenSeq(Acts(bs)))
  BY <1>6 DEF bs
<1>8. NoRepeatedReveal(p, pr)
  BY <1>4, <1>7, ShownOnceInLine
<1>9. QED BY <1>8 DEF p, pr

\* A regroup walk comes after the beat that reveals its whole.
LEMMA RegroupRevealed ==
    ASSUME NEW p, NEW goal, Admitted(p, goal), p.strategy = "regroup",
           NEW b \in DOMAIN p.beats, p.beats[b].id = RegroupBeat(p)
    PROVE  \E c \in 1..(b - 1) : RevealsWhole(p.beats[c], p.primary.ref)
<1>1. RegroupCompatible(p)
  BY DEF Admitted, Compatible
<1>2. PICK c \in DOMAIN p.beats : /\ RevealsWhole(p.beats[c], p.primary.ref)
                                  /\ \A m \in 1..c : p.beats[m].id # RegroupBeat(p)
  BY <1>1 DEF RegroupCompatible
<1>3. DOMAIN p.beats = 1..Len(p.beats) /\ Len(p.beats) \in 3..5
  BY BeatsOfPlan DEF Admitted
<1>4. b \notin 1..c
  BY <1>2
<1>5. c \in 1..(b - 1)
  BY <1>3, <1>4
<1>6. QED BY <1>2, <1>5

LEMMA WalksInTime == CompilerInv => WalksOnScreen
<1> SUFFICES ASSUME CompilerInv, Accepted, plan.strategy \in {"regroup", "unit_rate"}
             PROVE WalksOnScreen
  BY DEF WalksOnScreen
<1> DEFINE p == plan
           goal == answer
           bs == beats
           bk == books
           pr == program
           line == pr.timeline
           ref == p.primary.ref
           id == IF p.strategy = "regroup" THEN RegroupBeat(p) ELSE LabelBeat(p)
<1>1. PICK off : Scheduled(p, goal, bs, bk, line, off)
  BY CompiledIsScheduled DEF Compiled, Accepted
<1>2. NoRepeatedReveal(p, pr)
  BY DEF CompilerInv, QualityPassed
<1>3. p.strategy \in {"regroup", "unit_rate"}
  OBVIOUS
<1>4. SUFFICES ASSUME NEW k \in DOMAIN line, line[k].beat = id, line[k].action.kind = "set_role"
               PROVE \E j \in 1..(k - 1) : Shows(line[j], Whole(ref))
  BY DEF WalksOnScreen
<1> HIDE DEF p, goal, bs, bk, line, id
<1>5. /\ Listed(bs) /\ DOMAIN bs = 1..Len(bs) /\ Len(bs) \in 3..5 /\ DOMAIN p.beats = DOMAIN bs
      /\ Listed(p.beats)
      /\ \A b \in DOMAIN bs : bs[b].id = p.beats[b].id
  BY <1>1, ScheduledBeats
<1>6. Played_(bs, line, off) /\ Admitted(p, goal)
  BY <1>1 DEF Scheduled
<1>7. PICK b \in DOMAIN bs : \E a \in DOMAIN bs[b].actions : k = off[b - 1] + a
  BY <1>6 DEF Played_
<1>8. PICK a \in DOMAIN bs[b].actions : k = off[b - 1] + a
  BY <1>7
<1>9. line[k].action = bs[b].actions[a] /\ line[k].beat = bs[b].id
  BY <1>6, <1>8 DEF Played_
<1>10. p.beats[b].id = id /\ bs[b].actions[a].kind = "set_role"
  BY <1>4, <1>5, <1>9
<1>11. NamesWhole(p.beats[b], ref) \/ \E c \in 1..(b - 1) : RevealsWhole(p.beats[c], ref)
  <2>1. CASE p.strategy = "regroup"
    <3>1. id = RegroupBeat(p)
      BY <2>1 DEF id
    <3>2. QED BY <1>5, <1>6, <1>10, <2>1, <3>1, RegroupRevealed
  <2>2. CASE p.strategy = "unit_rate"
    <3>1. id = LabelBeat(p) /\ id # None
      <4>1. p.beats[b].id # None
        BY <1>5, <1>6, IdsOfBeats
      <4>2. QED BY <1>10, <2>2, <4>1 DEF id
    <3>2. PICK n \in DOMAIN p.beats : p.beats[n].id = LabelBeat(p) /\ OnScreenAt(p, n)
      BY <1>5, <3>1, LabelSelected
    <3>3. n = b
      <4>1. ~(n < b)
        <5>1. SUFFICES ASSUME n < b PROVE FALSE
          OBVIOUS
        <5>2. Scheduled(p, goal, bs, bk, pr.timeline, off)
          BY <1>1 DEF line
        <5> HIDE DEF pr
        <5>3. QED BY <1>2, <1>5, <1>10, <3>1, <3>2, <5>1, <5>2, LabelsNamedOnce
      <4>2. ~(b < n)
        <5>1. SUFFICES ASSUME b < n PROVE FALSE
          OBVIOUS
        <5>2. Scheduled(p, goal, bs, bk, pr.timeline, off)
          BY <1>1 DEF line
        <5> HIDE DEF pr
        <5>3. QED BY <1>2, <1>5, <1>10, <3>1, <3>2, <5>1, <5>2, LabelsNamedOnce
      <4>3. QED BY <1>5, <4>1, <4>2
    <3>4. QED BY <3>2, <3>3 DEF OnScreenAt
  <2>3. QED BY <1>3, <2>1, <2>2
<1> HIDE DEF ref
<1>12. \E j \in 1..((off[b - 1] + a) - 1) : Shows(line[j], Whole(ref))
  BY <1>1, <1>10, <1>11, WalkShown
<1>13. QED BY <1>8, <1>12

LEMMA NoneIsStaged ==
    ASSUME NEW p, NEW c, NEW s, Listed(s), Absent(p, c, s)
    PROVE  \E i \in 0..Len(s) :
               /\ i + Len(<<>>) <= Len(s)
               /\ \A j \in DOMAIN <<>> : s[i + j] = <<>>[j]
               /\ \A k \in DOMAIN s : InClass(p, c, s[k]) => k \in (i + 1)..(i + Len(<<>>))
<1>1. Len(s) \in Nat
  BY ListPlaces
<1>2. 0 \in 0..Len(s) /\ 0 + 0 <= Len(s)
  BY <1>1
<1>3. QED BY <1>2, EmptyList DEF Absent

\* The moves of a class that the beat of one id stages.
StagedIn(p, c, s, moves) ==
    \E i \in 0..Len(s) :
        /\ i + Len(moves) <= Len(s)
        /\ \A j \in DOMAIN moves : s[i + j] = moves[j]
        /\ \A k \in DOMAIN s : InClass(p, c, s[k]) => k \in (i + 1)..(i + Len(moves))

LEMMA ClassStagedIn ==
    ASSUME NEW p, NEW goal, NEW bs, NEW bk, NEW line, NEW off, Scheduled(p, goal, bs, bk, line, off),
           Distinct(p), NEW c \in Classes, NEW id, id # None => Worked(p, id),
           \A n : c \in ClassesOf(p, goal, n) <=> p.beats[n].id = id,
           NEW moves, moves = Moves(p, c)
    PROVE  StagedIn(p, c, FlattenSeq(Acts(bs)), IF id = None THEN <<>> ELSE moves)
<1> DEFINE s == FlattenSeq(Acts(bs))
<1>1. /\ id = None => Absent(p, c, s)
      /\ id # None => RunsOnce(p, c, bs, moves)
  BY ClassOfId
<1>2. Listed(s)
  BY DEF Scheduled, Played_
<1> HIDE DEF s
<1>3. CASE id = None
  <2>1. \E i \in 0..Len(s) :
           /\ i + Len(<<>>) <= Len(s)
           /\ \A j \in DOMAIN <<>> : s[i + j] = <<>>[j]
           /\ \A k \in DOMAIN s : InClass(p, c, s[k]) => k \in (i + 1)..(i + Len(<<>>))
    BY <1>1, <1>2, <1>3, NoneIsStaged
  <2>2. StagedIn(p, c, s, <<>>)
    BY <2>1 DEF StagedIn
  <2>3. QED BY <1>3, <2>2 DEF s
<1>4. CASE id # None
  <2>1. StagedIn(p, c, s, moves)
    BY <1>1, <1>4 DEF StagedIn, RunsOnce, Run, s
  <2>2. QED BY <1>4, <2>1 DEF s
<1>5. QED BY <1>3, <1>4

\* Which moves every beat of an accepted program stages, class by class.
LEMMA MovesStaged ==
    ASSUME NEW p, NEW goal, NEW bs, NEW bk, NEW line, NEW off, Scheduled(p, goal, bs, bk, line, off),
           Distinct(p)
    PROVE  LET s == FlattenSeq(Acts(bs))
           IN  /\ StagedIn(p, "hop", s, IF HopBeat(p) = None THEN <<>> ELSE Hops(p))
               /\ StagedIn(p, "distance", s, IF DistanceBeat(p) = None THEN <<>> ELSE Distances(p))
               /\ StagedIn(p, "turn", s, IF RotationBeat(p) = None THEN <<>> ELSE Turns(p))
               /\ StagedIn(p, "label", s,
                           IF LabelBeat(p) = None THEN <<>> ELSE <<Reveal(<<Labels(p)>>, "stagger")>>)
               /\ TraceBeat(p) # None => StagedIn(p, "outline", s, <<Trace(OwnPath(p))>>)
<1> DEFINE s == FlattenSeq(Acts(bs))
<1>1. Listed(p.beats)
  BY ScheduledBeats
<1>2. {"hop", "distance", "turn", "label", "outline"} \subseteq Classes
  BY DEF Classes
<1>3. StagedIn(p, "hop", s, IF HopBeat(p) = None THEN <<>> ELSE Hops(p))
  <2> DEFINE id == HopBeat(p)
             moves == Hops(p)
  <2>1. id # None => Worked(p, id)
    BY <1>1, HopSelected
  <2>2. \A n : "hop" \in ClassesOf(p, goal, n) <=> p.beats[n].id = id
    BY ClassesAre
  <2>3. moves = Moves(p, "hop") /\ "hop" \in Classes
    BY <1>2 DEF Moves
  <2> HIDE DEF id, moves
  <2>4. StagedIn(p, "hop", s, IF id = None THEN <<>> ELSE moves)
    BY <2>1, <2>2, <2>3, ClassStagedIn
  <2>5. QED BY <2>4 DEF id, moves
<1>4. StagedIn(p, "distance", s, IF DistanceBeat(p) = None THEN <<>> ELSE Distances(p))
  <2> DEFINE id == DistanceBeat(p)
             moves == Distances(p)
  <2>1. id # None => Worked(p, id)
    BY <1>1, DistanceSelected
  <2>2. \A n : "distance" \in ClassesOf(p, goal, n) <=> p.beats[n].id = id
    BY ClassesAre
  <2>3. moves = Moves(p, "distance") /\ "distance" \in Classes
    BY <1>2 DEF Moves
  <2> HIDE DEF id, moves
  <2>4. StagedIn(p, "distance", s, IF id = None THEN <<>> ELSE moves)
    BY <2>1, <2>2, <2>3, ClassStagedIn
  <2>5. QED BY <2>4 DEF id, moves
<1>5. StagedIn(p, "turn", s, IF RotationBeat(p) = None THEN <<>> ELSE Turns(p))
  <2> DEFINE id == RotationBeat(p)
             moves == Turns(p)
  <2>1. id # None => Worked(p, id)
    BY <1>1, RotationSelected
  <2>2. \A n : "turn" \in ClassesOf(p, goal, n) <=> p.beats[n].id = id
    BY ClassesAre
  <2>3. moves = Moves(p, "turn") /\ "turn" \in Classes
    BY <1>2 DEF Moves
  <2> HIDE DEF id, moves
  <2>4. StagedIn(p, "turn", s, IF id = None THEN <<>> ELSE moves)
    BY <2>1, <2>2, <2>3, ClassStagedIn
  <2>5. QED BY <2>4 DEF id, moves
<1>6. StagedIn(p, "label", s, IF LabelBeat(p) = None THEN <<>> ELSE <<Reveal(<<Labels(p)>>, "stagger")>>)
  <2> DEFINE id == LabelBeat(p)
             moves == <<Reveal(<<Labels(p)>>, "stagger")>>
  <2>1. id # None => Worked(p, id)
    BY <1>1, LabelSelected
  <2>2. \A n : "label" \in ClassesOf(p, goal, n) <=> p.beats[n].id = id
    BY ClassesAre
  <2>3. moves = Moves(p, "label") /\ "label" \in Classes
    BY <1>2 DEF Moves
  <2> HIDE DEF id, moves
  <2>4. StagedIn(p, "label", s, IF id = None THEN <<>> ELSE moves)
    BY <2>1, <2>2, <2>3, ClassStagedIn
  <2>5. QED BY <2>4 DEF id, moves
<1>7. TraceBeat(p) # None => StagedIn(p, "outline", s, <<Trace(OwnPath(p))>>)
  <2> DEFINE id == TraceBeat(p)
             moves == <<Trace(OwnPath(p))>>
  <2>1. id # None => Worked(p, id)
    BY <1>1, TraceSelected
  <2>2. \A n : "outline" \in ClassesOf(p, goal, n) <=> p.beats[n].id = id
    BY ClassesAre
  <2>3. moves = Moves(p, "outline") /\ "outline" \in Classes
    BY <1>2 DEF Moves
  <2> HIDE DEF id, moves
  <2>4. StagedIn(p, "outline", s, IF id = None THEN <<>> ELSE moves)
    BY <2>1, <2>2, <2>3, ClassStagedIn
  <2>5. id # None => StagedIn(p, "outline", s, moves)
    BY <2>4
  <2>6. QED BY <2>5 DEF id, moves
<1>8. QED BY <1>3, <1>4, <1>5, <1>6, <1>7

\* The classes by what their actions are.
LEMMA KindsOfClasses ==
    ASSUME NEW p, NEW a
    PROVE  /\ InClass(p, "hop", a) <=> a.kind = "signed_hop_arrow"
           /\ InClass(p, "distance", a) <=> a.kind = "distance_annotation"
           /\ InClass(p, "turn", a) <=> a.kind = "rotate"
           /\ UnitStrategy(p) =>
                 (InClass(p, "label", a) <=>
                    a.kind = "reveal" /\ \E t \in Range(a.targets) : t.part = "target_label")
           /\ TraceBeat(p) # None =>
                 (InClass(p, "outline", a) <=> a.kind = "trace" /\ a.path = OwnPath(p))
BY DEF InClass

LEMMA MovesInTime == CompilerInv => OwnMoveOnce
<1> SUFFICES ASSUME CompilerInv, UniqueIds, Accepted PROVE OwnMoveOnce
  BY DEF OwnMoveOnce
<1> DEFINE p == plan
           goal == answer
           bs == beats
           bk == books
           line == program.timeline
           s == FlattenSeq(Acts(bs))
           hops == IF HopBeat(p) = None THEN <<>> ELSE Hops(p)
           spans == IF DistanceBeat(p) = None THEN <<>> ELSE Distances(p)
           turns == IF RotationBeat(p) = None THEN <<>> ELSE Turns(p)
           labels == IF LabelBeat(p) = None THEN <<>> ELSE <<Reveal(<<Labels(p)>>, "stagger")>>
           outline == <<Trace(OwnPath(p))>>
<1>1. PICK off : Scheduled(p, goal, bs, bk, line, off)
  BY CompiledIsScheduled DEF Compiled, Accepted
<1>2. Distinct(p)
  BY DEF UniqueIds, Distinct
<1>3. Emitted = s
  BY EmittedIs
<1>4. /\ StagedIn(p, "hop", s, hops) /\ StagedIn(p, "distance", s, spans)
      /\ StagedIn(p, "turn", s, turns) /\ StagedIn(p, "label", s, labels)
      /\ TraceBeat(p) # None => StagedIn(p, "outline", s, outline)
  <2> HIDE DEF p, goal, bs, bk, line
  <2>1. QED BY <1>1, <1>2, MovesStaged
<1> HIDE DEF p, s, hops, spans, turns, labels, outline
<1>5. StagedOnce(LAMBDA a : a.kind = "signed_hop_arrow", hops)
  <2>1. \A a : InClass(p, "hop", a) <=> a.kind = "signed_hop_arrow"
    BY KindsOfClasses
  <2>2. QED BY <1>3, <1>4, <2>1 DEF StagedIn, StagedOnce
<1>6. StagedOnce(LAMBDA a : a.kind = "distance_annotation", spans)
  <2>1. \A a : InClass(p, "distance", a) <=> a.kind = "distance_annotation"
    BY KindsOfClasses
  <2>2. QED BY <1>3, <1>4, <2>1 DEF StagedIn, StagedOnce
<1>7. StagedOnce(LAMBDA a : a.kind = "rotate", turns)
  <2>1. \A a : InClass(p, "turn", a) <=> a.kind = "rotate"
    BY KindsOfClasses
  <2>2. QED BY <1>3, <1>4, <2>1 DEF StagedIn, StagedOnce
<1>8. ASSUME UnitStrategy(p)
      PROVE  StagedOnce(LAMBDA a : a.kind = "reveal" /\ \E t \in Range(a.targets) : t.part = "target_label",
                        labels)
  <2>1. \A a : InClass(p, "label", a) <=>
                  a.kind = "reveal" /\ \E t \in Range(a.targets) : t.part = "target_label"
    BY <1>8, KindsOfClasses
  <2>2. QED BY <1>3, <1>4, <2>1 DEF StagedIn, StagedOnce
<1>9. ASSUME TraceBeat(p) # None
      PROVE  StagedOnce(LAMBDA a : a.kind = "trace" /\ a.path = OwnPath(p), outline)
  <2>1. \A a : InClass(p, "outline", a) <=> a.kind = "trace" /\ a.path = OwnPath(p)
    BY <1>9, KindsOfClasses
  <2>2. QED BY <1>3, <1>4, <1>9, <2>1 DEF StagedIn, StagedOnce
<1>10. QED BY <1>5, <1>6, <1>7, <1>8, <1>9
           DEF OwnMoveOnce, UnitStrategy, p, hops, spans, turns, labels, outline

-----------------------------------------------------------------------------

\* However a plan mixes its targets and actions, after every beat the role on the
\* expander's books of a target is the one that the renderer shows, as long as the
\* books can tell (Followed): a later beat decides what to dim and what to restore
\* from what the learner sees (BeatExpander's _role_change and _clear_descendant_roles).
THEOREM RolesAsPlayedAlways == Spec => []RolesAsPlayed
BY CompilerAlways, RolesOfBooks, PTL

\* In every accepted program whose beats have names of their own, the hops, the
\* spans, the turns, the names of the target unit and the traced boundary of its
\* strategy are staged once each, whole, in order, and by no other beat (the
\* *_beat_id selectors and the custom actions of a beat).
THEOREM OwnMoveOnceAlways == Spec => []OwnMoveOnce
BY CompilerAlways, MovesInTime, PTL

\* In every accepted program, a walk over rows of cells and the focus on a rate's
\* first box begin after the whole they belong to has been revealed.
THEOREM WalksOnScreenAlways == Spec => []WalksOnScreen
BY CompilerAlways, WalksInTime, PTL

\* Every plan that compiles, whose beats have names of their own and whose visuals
\* leave the answer's name alone, poses its question once, substitutes before it
\* answers and answers in its conclusion: the gates on the stages of the answer
\* and on the work that resolves on screen cannot refuse it.
THEOREM CompilerStagesAnswerAlways == Spec => []CompilerStagesAnswer
BY CompilerAlways, AnswerInTime, PTL

\* No plan that compiles reveals a target that is already on screen, when no list
\* of targets asks for it: the gate on repeated reveals cannot refuse it.
THEOREM NothingShownTwiceAlways == Spec => []NothingShownTwice
BY CompilerAlways, ShownInTime, PTL
=============================================================================
