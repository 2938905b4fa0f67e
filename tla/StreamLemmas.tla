---------------------------- MODULE StreamLemmas ----------------------------
(***************************************************************************)
(* Facts about sequences as streams: prefixes, and the flattening of a     *)
(* sequence of sequences, on which the proofs about AirDump and about the  *)
(* SSL client rest.                                                        *)
(***************************************************************************)
EXTENDS Integers, SequencesExt, SequenceTheorems, WellFoundedInduction, TLAPS

\* A prefix, element by element.
LEMMA PrefixByElements ==
    ASSUME NEW S, NEW s \in Seq(S), NEW t \in Seq(S)
    PROVE  IsPrefix(s, t) <=> /\ Len(s) <= Len(t)
                              /\ \A k \in 1..Len(s) : s[k] = t[k]
<1>1. SubSeq(s, 1, Len(s)) = s
  OBVIOUS
<1>2. ASSUME Len(s) <= Len(t)
      PROVE  /\ SubSeq(t, 1, Len(s)) \in Seq(S)
             /\ Len(SubSeq(t, 1, Len(s))) = Len(s)
             /\ \A k \in 1..Len(s) : SubSeq(t, 1, Len(s))[k] = t[k]
  BY <1>2
<1> QED
  BY <1>1, <1>2, SeqEqual DEF IsPrefix

\* What remains when a tail is lost is still a prefix (LoseLink).
LEMMA PrefixOfCut ==
    ASSUME NEW S, NEW s \in Seq(S), NEW t \in Seq(S), NEW u \in Seq(S),
           NEW n \in 0..Len(t), IsPrefix(s \o t, u)
    PROVE  /\ SubSeq(t, 1, n) \in Seq(S)
           /\ IsPrefix(s \o SubSeq(t, 1, n), u)
<1> DEFINE c == SubSeq(t, 1, n)
<1>1. c \in Seq(S) /\ Len(c) = n /\ \A k \in 1..n : c[k] = t[k]
  OBVIOUS
<1> HIDE DEF c
<1>2. /\ s \o c \in Seq(S) /\ Len(s \o c) = Len(s) + n
      /\ s \o t \in Seq(S) /\ Len(s \o t) = Len(s) + Len(t)
  BY <1>1, ConcatProperties
<1>3. \A k \in 1..Len(s) + n : (s \o c)[k] = (s \o t)[k]
  <2> TAKE k \in 1..Len(s) + n
  <2>1. /\ (s \o c)[k] = IF k <= Len(s) THEN s[k] ELSE c[k - Len(s)]
        /\ (s \o t)[k] = IF k <= Len(s) THEN s[k] ELSE t[k - Len(s)]
    BY <1>1, ConcatProperties, LenProperties
  <2>2. k > Len(s) => k - Len(s) \in 1..n
    BY LenProperties
  <2> QED
    BY <1>1, <2>1, <2>2
<1>4. /\ Len(s \o t) <= Len(u)
      /\ \A k \in 1..Len(s \o t) : (s \o t)[k] = u[k]
  <2> DEFINE st == s \o t
  <2>1. st \in Seq(S) /\ IsPrefix(st, u)
    BY <1>2
  <2> HIDE DEF st
  <2>2. Len(st) <= Len(u) /\ \A k \in 1..Len(st) : st[k] = u[k]
    BY <2>1, PrefixByElements
  <2> QED
    BY <2>2 DEF st
<1>5. /\ Len(s \o c) <= Len(u)
      /\ \A k \in 1..Len(s \o c) : (s \o c)[k] = u[k]
  <2>1. Len(s) \in Nat /\ Len(t) \in Nat /\ Len(u) \in Nat
    BY LenProperties
  <2> QED
    BY <1>2, <1>3, <1>4, <2>1
<1>6. IsPrefix(s \o c, u)
  BY <1>2, <1>5, PrefixByElements
<1> QED
  BY <1>1, <1>6 DEF c

\* A stream that grows at its end keeps its prefixes (Taken).
LEMMA PrefixOfLonger ==
    ASSUME NEW S, NEW s \in Seq(S), NEW t \in Seq(S), NEW u \in Seq(S),
           IsPrefix(s, t)
    PROVE  IsPrefix(s, t \o u)
<1>1. Len(s) <= Len(t) /\ \A k \in 1..Len(s) : s[k] = t[k]
  BY PrefixByElements
<1>2. /\ t \o u \in Seq(S) /\ Len(t \o u) = Len(t) + Len(u)
      /\ \A k \in 1..Len(t) : (t \o u)[k] = t[k]
  BY ConcatProperties, LenProperties
<1>3. \A k \in 1..Len(s) : (t \o u)[k] = s[k]
  BY <1>1, <1>2, LenProperties
<1>4. Len(s) <= Len(t \o u)
  BY <1>1, <1>2, LenProperties
<1> QED
  BY <1>2, <1>3, <1>4, PrefixByElements

\* The first part of a concatenation is a prefix of it.
LEMMA PrefixOfConcat ==
    ASSUME NEW S, NEW s \in Seq(S), NEW t \in Seq(S)
    PROVE  IsPrefix(s, s \o t)
<1>1. s \o t \in Seq(S) /\ Len(s) <= Len(s \o t)
  BY ConcatProperties, LenProperties
<1>2. \A k \in 1..Len(s) : s[k] = (s \o t)[k]
  BY ConcatProperties, LenProperties
<1> QED
  BY <1>1, <1>2, PrefixByElements

\* Reading one byte moves it from the head of t to the end of s
\* (ReceiveNote: listaa and wire).
LEMMA MoveHead ==
    ASSUME NEW S, NEW s \in Seq(S), NEW t \in Seq(S), t # <<>>
    PROVE  Append(s, t[1]) \o SubSeq(t, 2, Len(t)) = s \o t
<1> DEFINE a == Append(s, t[1])
           r == SubSeq(t, 2, Len(t))
<1>1. /\ Len(s) \in Nat
      /\ Len(t) \in Nat \ {0}
      /\ t[1] \in S
  BY EmptySeq, LenProperties, ElementOfSeq
<1>2. /\ a \in Seq(S) /\ Len(a) = Len(s) + 1
      /\ a[Len(s) + 1] = t[1]
      /\ \A k \in 1..Len(s) : a[k] = s[k]
  BY <1>1, AppendProperties
<1>3. /\ r \in Seq(S) /\ Len(r) = Len(t) - 1
      /\ \A k \in 1..Len(t) - 1 : r[k] = t[k + 1]
  <2>1. \A k \in 2..Len(t) : t[k] \in S
    BY <1>1, ElementOfSeq
  <2>2. /\ Len(r) = Len(t) - 1
        /\ \A k \in 1..Len(t) - 1 : r[k] = t[k + 1]
    BY <1>1
  <2>3. r \in Seq(S)
    BY <1>1, <2>1
  <2> QED
    BY <2>2, <2>3
<1> HIDE DEF a, r
<1>4. /\ a \o r \in Seq(S) /\ Len(a \o r) = Len(a) + Len(r)
      /\ \A k \in 1..Len(a) + Len(r) :
            (a \o r)[k] = IF k <= Len(a) THEN a[k] ELSE r[k - Len(a)]
  BY <1>2, <1>3, ConcatProperties
<1>5. /\ s \o t \in Seq(S) /\ Len(s \o t) = Len(s) + Len(t)
      /\ \A k \in 1..Len(s) + Len(t) :
            (s \o t)[k] = IF k <= Len(s) THEN s[k] ELSE t[k - Len(s)]
  BY ConcatProperties
<1>6. Len(a \o r) = Len(s \o t)
  BY <1>1, <1>2, <1>3, <1>4, <1>5
<1>7. ASSUME NEW k \in 1..Len(s) + Len(t)
      PROVE  (a \o r)[k] = (s \o t)[k]
  <2>0. k \in Int /\ k >= 1 /\ k \in 1..Len(a) + Len(r)
    BY <1>1, <1>2, <1>3
  <2>1. CASE k <= Len(s)
    BY <1>1, <1>2, <1>4, <1>5, <2>0, <2>1
  <2>2. CASE k = Len(s) + 1
    <3>1. (a \o r)[k] = a[Len(s) + 1]
      BY <1>1, <1>2, <1>4, <2>0, <2>2
    <3>2. (s \o t)[k] = t[1]
      BY <1>1, <1>5, <2>2
    <3> QED
      BY <1>2, <3>1, <3>2
  <2>3. CASE k > Len(s) + 1
    <3>1. (a \o r)[k] = r[k - Len(a)]
      BY <1>1, <1>2, <1>4, <2>0, <2>3
    <3>2. k - Len(a) \in 1..Len(t) - 1 /\ k - Len(a) + 1 = k - Len(s)
      BY <1>1, <1>2, <2>3
    <3>3. r[k - Len(a)] = t[k - Len(s)]
      BY <1>3, <3>2
    <3>4. (s \o t)[k] = t[k - Len(s)]
      BY <1>1, <1>5, <2>3
    <3> QED
      BY <3>1, <3>3, <3>4
  <2> QED
    BY <1>1, <2>0, <2>1, <2>2, <2>3
<1>8. a \o r = s \o t
  BY <1>1, <1>4, <1>5, <1>6, <1>7, SeqEqual
<1> QED
  BY <1>8 DEF a, r

\* Nothing listed and nothing on its way is a prefix of nothing sent.
LEMMA EmptyStream == <<>> \o <<>> = <<>> /\ IsPrefix(<<>>, <<>>)
<1>1. <<>> \in Seq(Nat)
  OBVIOUS
<1>2. <<>> \o <<>> = <<>>
  BY <1>1, ConcatEmptySeq
<1>3. IsPrefix(<<>>, <<>> \o <<>>)
  BY <1>1, PrefixOfConcat
<1> QED
  BY <1>2, <1>3
-----------------------------------------------------------------------------
(* Every set of natural numbers has a least one: what a recursive function *)
(* gives is proved by the least argument for which it would not.           *)

Below == {p \in Nat \X Nat : p[1] < p[2]}

LEMMA LeastElement ==
    ASSUME NEW T, T \subseteq Nat, T # {}
    PROVE  \E x \in T : \A y \in T : x <= y
<1>1. IsWellFoundedOn(Below, Nat)
  BY NatLessThanWellFounded DEF OpToRel, Below
<1>2. PICK x \in T : \A y \in T : ~(<<y, x>> \in Below)
  BY <1>1, WFMin
<1>3. \A y \in T : x <= y
  <2> TAKE y \in T
  <2>1. x \in Nat /\ y \in Nat /\ <<y, x>> \in Nat \X Nat
    OBVIOUS
  <2>2. ~(y < x)
    BY <1>2, <2>1 DEF Below
  <2> QED
    BY <2>1, <2>2
<1> QED
  BY <1>2, <1>3

-----------------------------------------------------------------------------
(* Concatenation under a name of its own, for the steps that need no more  *)
(* of it than these facts.                                                 *)

Joined(a, b) == a \o b

LEMMA JoinedType ==
    ASSUME NEW S, NEW a \in Seq(S), NEW b \in Seq(S)
    PROVE  Joined(a, b) \in Seq(S)
BY ConcatProperties DEF Joined

LEMMA JoinedEmpty ==
    ASSUME NEW S, NEW a \in Seq(S)
    PROVE  Joined(a, <<>>) = a /\ Joined(<<>>, a) = a
BY ConcatEmptySeq DEF Joined

LEMMA JoinedAssociative ==
    ASSUME NEW S, NEW a \in Seq(S), NEW b \in Seq(S), NEW c \in Seq(S)
    PROVE  Joined(Joined(a, b), c) = Joined(a, Joined(b, c))
<1>1. (a \o b) \o c = a \o (b \o c)
  BY ConcatAssociative
<1> QED
  BY <1>1 DEF Joined

LEMMA PrefixOfJoined ==
    ASSUME NEW S, NEW a \in Seq(S), NEW b \in Seq(S)
    PROVE  IsPrefix(a, Joined(a, b))
BY PrefixOfConcat DEF Joined

-----------------------------------------------------------------------------
(* FlattenSeq.                                                             *)

\* g[i] is the flattening of the first i elements of s, for i up to n.
Flattens(g, s, n) ==
    g = [i \in 1..n |-> IF i = 1 THEN s[i] ELSE Joined(g[i - 1], s[i])]

\* The recursive equation.
LEMMA FlattensAt ==
    ASSUME NEW s, NEW n \in Nat, NEW g, Flattens(g, s, n)
    PROVE  \A i \in 1..n : /\ i = 1 => g[i] = s[i]
                           /\ i # 1 => g[i] = Joined(g[i - 1], s[i])
<1> DEFINE k == [j \in 1..n |-> IF j = 1 THEN s[j] ELSE Joined(g[j - 1], s[j])]
<1> TAKE i \in 1..n
<1>1. g = k
  BY Zenon DEF Flattens
<1>2. k[i] = IF i = 1 THEN s[i] ELSE Joined(g[i - 1], s[i])
  BY Zenon
<1>3. g[i] = k[i]
  <2> HIDE DEF k
  <2> QED
    BY <1>1
<1> QED
  BY Zenon, <1>2, <1>3

LEMMA FlattensExists ==
    ASSUME NEW s, NEW n \in Nat
    PROVE  \E g : Flattens(g, s, n)
<1> DEFINE T == {k \in Nat : ~\E g : Flattens(g, s, k)}
<1> SUFFICES ASSUME T # {}
             PROVE  FALSE
  OBVIOUS
<1>1. PICK m \in T : \A k \in T : m <= k
  <2>1. T \subseteq Nat
    OBVIOUS
  <2> HIDE DEF T
  <2> QED
    BY <2>1, LeastElement
<1>2. CASE m = 0
  <2> DEFINE g == [i \in 1..0 |-> 0]
  <2>1. g = [i \in 1..0 |-> IF i = 1 THEN s[i] ELSE Joined(g[i - 1], s[i])]
    OBVIOUS
  <2>2. Flattens(g, s, m)
    BY <1>2, <2>1 DEF Flattens
  <2> QED
    BY <2>2
<1>3. CASE m # 0
  <2>1. m \in Nat \ {0} /\ m - 1 \in Nat /\ m - 1 \notin T
    BY <1>1, <1>3
  <2>2. PICK g : Flattens(g, s, m - 1)
    BY <2>1
  <2>3. \A i \in 1..m - 1 : g[i] = IF i = 1 THEN s[i] ELSE Joined(g[i - 1], s[i])
    BY <2>2 DEF Flattens
  <2> DEFINE last == IF m = 1 THEN s[m] ELSE Joined(g[m - 1], s[m])
             h == [i \in 1..m |-> IF i = m THEN last ELSE g[i]]
             k == [i \in 1..m |-> IF i = 1 THEN s[i] ELSE Joined(h[i - 1], s[i])]
  <2>4. ASSUME NEW i \in 1..m
        PROVE  h[i] = k[i]
    <3>1. CASE i = m
      <4>1. h[i] = last
        BY <3>1
      <4>2. m # 1 => h[m - 1] = g[m - 1]
        BY <2>1
      <4> QED
        BY <3>1, <4>1, <4>2
    <3>2. CASE i # m
      <4>1. i \in 1..m - 1 /\ h[i] = g[i]
        BY <2>1, <3>2
      <4>2. i # 1 => i - 1 \in 1..m /\ i - 1 # m /\ h[i - 1] = g[i - 1]
        BY <2>1, <3>2
      <4> QED
        BY <2>3, <4>1, <4>2
    <3> QED
      BY <3>1, <3>2
  <2>5. h = k
    <3> HIDE DEF last
    <3> QED
      BY <2>4
  <2>6. Flattens(h, s, m)
    BY <2>5 DEF Flattens
  <2> QED
    BY <2>6
<1> QED
  BY <1>2, <1>3

\* FlattenSeq is what such a function gives for all of s.
LEMMA FlattenSeqIs ==
    ASSUME NEW S, NEW s \in Seq(Seq(S)), s # <<>>
    PROVE  \E g : Flattens(g, s, Len(s)) /\ FlattenSeq(s) = g[Len(s)]
<1>1. Len(s) \in Nat /\ Len(s) # 0
  BY EmptySeq, LenProperties
<1>2. \E g : g = [i \in 1..Len(s) |-> IF i = 1 THEN s[i] ELSE Joined(g[i - 1], s[i])]
  BY <1>1, FlattensExists DEF Flattens
<1>3. FlattenSeq(s) = (CHOOSE g : g = [i \in 1..Len(s) |->
                         IF i = 1 THEN s[i] ELSE Joined(g[i - 1], s[i])])[Len(s)]
  BY <1>1 DEF FlattenSeq, Joined
<1> QED
  BY <1>2, <1>3 DEF Flattens

LEMMA FlattensType ==
    ASSUME NEW S, NEW s \in Seq(Seq(S)), NEW g, Flattens(g, s, Len(s))
    PROVE  \A i \in 1..Len(s) : g[i] \in Seq(S)
<1> DEFINE T == {i \in 1..Len(s) : g[i] \notin Seq(S)}
<1> SUFFICES ASSUME T # {}
             PROVE  FALSE
  OBVIOUS
<1>1. PICK m \in T : \A k \in T : m <= k
  <2>1. T \subseteq Nat
    BY LenProperties
  <2> HIDE DEF T
  <2> QED
    BY <2>1, LeastElement
<1>2. m \in 1..Len(s) /\ Len(s) \in Nat /\ s[m] \in Seq(S)
  BY LenProperties, ElementOfSeq
<1>3. /\ m = 1 => g[m] = s[m]
      /\ m # 1 => g[m] = Joined(g[m - 1], s[m])
  BY <1>2, FlattensAt
<1>4. m # 1
  BY <1>3, <1>2
<1>5. m - 1 \in 1..Len(s) /\ m - 1 \notin T
  BY <1>1, <1>2, <1>4
<1>6. Joined(g[m - 1], s[m]) \in Seq(S)
  BY <1>2, <1>5, ConcatProperties DEF Joined
<1> QED
  BY <1>3, <1>4, <1>6

LEMMA FlattenEmpty == FlattenSeq(<<>>) = <<>>
  BY DEF FlattenSeq

LEMMA FlattenType ==
    ASSUME NEW S, NEW s \in Seq(Seq(S))
    PROVE  FlattenSeq(s) \in Seq(S)
<1>1. CASE s = <<>>
  BY <1>1, FlattenEmpty, EmptySeq
<1>2. CASE s # <<>>
  <2>1. Len(s) \in 1..Len(s)
    BY <1>2, EmptySeq
  <2> QED
    BY <1>2, <2>1, FlattenSeqIs, FlattensType
<1> QED
  BY <1>1, <1>2

\* Two such functions agree as far as what they flatten does.
LEMMA FlattensAgree ==
    ASSUME NEW s, NEW t, NEW m \in Nat, NEW n \in Nat, m <= n,
           \A i \in 1..m : s[i] = t[i],
           NEW g, Flattens(g, s, m), NEW h, Flattens(h, t, n)
    PROVE  \A i \in 1..m : g[i] = h[i]
<1> DEFINE T == {i \in 1..m : g[i] # h[i]}
<1> SUFFICES ASSUME T # {}
             PROVE  FALSE
  OBVIOUS
<1>1. PICK k \in T : \A i \in T : k <= i
  <2>1. T \subseteq Nat
    OBVIOUS
  <2> HIDE DEF T
  <2> QED
    BY <2>1, LeastElement
<1>2. k \in 1..m /\ k \in 1..n /\ s[k] = t[k] /\ g[k] # h[k]
  OBVIOUS
<1>3. /\ k = 1 => g[k] = s[k] /\ h[k] = t[k]
      /\ k # 1 => g[k] = Joined(g[k - 1], s[k]) /\ h[k] = Joined(h[k - 1], t[k])
  BY <1>2, FlattensAt
<1>4. k # 1
  BY <1>2, <1>3
<1>5. k - 1 \in 1..m /\ k - 1 \notin T
  BY <1>1, <1>2, <1>4
<1>6. g[k - 1] = h[k - 1]
  BY <1>5
<1> QED
  BY <1>2, <1>3, <1>4, <1>6

\* One more sequence at the end.
LEMMA FlattenAppend ==
    ASSUME NEW S, NEW s \in Seq(Seq(S)), NEW x \in Seq(S)
    PROVE  FlattenSeq(Append(s, x)) = FlattenSeq(s) \o x
<1> DEFINE t == Append(s, x)
<1>1. PICK n \in Nat : n = Len(s)
  BY LenProperties
<1>2. PICK m \in Nat : m = n + 1
  OBVIOUS
<1>3. /\ t \in Seq(Seq(S)) /\ t # <<>> /\ Len(t) = m
      /\ \A i \in 1..n : s[i] = t[i]
      /\ t[m] = x
  BY <1>1, <1>2, AppendProperties
<1> HIDE DEF t
<1>4. PICK h : Flattens(h, t, m) /\ FlattenSeq(t) = h[m]
  BY <1>3, FlattenSeqIs
<1>5. m \in 1..m /\ m - 1 = n /\ n <= m
  BY <1>2
<1>6. /\ m = 1 => h[m] = x
      /\ m # 1 => h[m] = Joined(h[m - 1], x)
  BY <1>2, <1>3, <1>4, <1>5, FlattensAt
<1>7. CASE s = <<>>
  <2>1. m = 1 /\ FlattenSeq(s) = <<>> /\ <<>> \o x = x
    BY <1>1, <1>2, <1>7, FlattenEmpty, ConcatEmptySeq
  <2> QED
    BY <1>4, <1>6, <2>1 DEF t
<1>8. CASE s # <<>>
  <2>1. m # 1 /\ n \in 1..n
    BY <1>1, <1>2, <1>8, EmptySeq
  <2>2. PICK g : Flattens(g, s, n) /\ FlattenSeq(s) = g[n]
    BY <1>1, <1>8, FlattenSeqIs
  <2>3. \A i \in 1..n : g[i] = h[i]
    <3>1. n <= m /\ Flattens(g, s, n) /\ Flattens(h, t, m) /\ \A i \in 1..n : s[i] = t[i]
      BY <1>3, <1>4, <1>5, <2>2
    <3> QED
      BY <3>1, FlattensAgree
  <2>4. h[m - 1] = g[n]
    BY <1>5, <2>1, <2>3
  <2>5. FlattenSeq(t) = Joined(g[n], x)
    BY <1>4, <1>6, <2>1, <2>4
  <2> QED
    BY <2>2, <2>5 DEF t, Joined
<1> QED
  BY <1>7, <1>8

\* The first sequence, and then the others.
LEMMA FlattenHead ==
    ASSUME NEW S, NEW s \in Seq(Seq(S)), s # <<>>
    PROVE  FlattenSeq(s) = Head(s) \o FlattenSeq(Tail(s))
<1> DEFINE t == Tail(s)
<1>1. PICK n \in Nat : n = Len(s)
  BY LenProperties
<1>2. n > 0 /\ s[1] \in Seq(S) /\ Head(s) = s[1]
  BY <1>1, EmptySeq, ElementOfSeq
<1>3. PICK m \in Nat : m = n - 1
  BY <1>2
<1>4. /\ t \in Seq(Seq(S)) /\ Len(t) = m
      /\ \A i \in 1..m : t[i] = s[i + 1] /\ t[i] \in Seq(S)
  <2>1. t \in Seq(Seq(S)) /\ Len(t) = m /\ \A i \in 1..Len(t) : t[i] = s[i + 1]
    BY <1>1, <1>3, HeadTailProperties
  <2> HIDE DEF t
  <2> QED
    BY <2>1, ElementOfSeq
<1> HIDE DEF t
<1>5. PICK g : Flattens(g, s, n) /\ FlattenSeq(s) = g[n]
  BY <1>1, FlattenSeqIs
<1>6. g[1] = s[1] /\ \A i \in 2..n : g[i] = Joined(g[i - 1], s[i])
  <2>1. \A i \in 1..n : /\ i = 1 => g[i] = s[i]
                        /\ i # 1 => g[i] = Joined(g[i - 1], s[i])
    BY <1>5, FlattensAt
  <2> QED
    BY <1>2, <2>1
<1>7. CASE t = <<>>
  <2>1. n = 1 /\ FlattenSeq(t) = <<>> /\ s[1] \o <<>> = s[1]
    BY <1>2, <1>3, <1>4, <1>7, FlattenEmpty, ConcatEmptySeq, EmptySeq
  <2> QED
    BY <1>2, <1>5, <1>6, <2>1 DEF t
<1>8. CASE t # <<>>
  <2>1. m > 0 /\ m \in 1..m
    BY <1>4, <1>8, EmptySeq
  <2>2. PICK h : Flattens(h, t, m) /\ FlattenSeq(t) = h[m]
    BY <1>4, <1>8, FlattenSeqIs
  <2>3. h[1] = t[1] /\ \A i \in 2..m : h[i] = Joined(h[i - 1], t[i])
    <3>1. \A i \in 1..m : /\ i = 1 => h[i] = t[i]
                          /\ i # 1 => h[i] = Joined(h[i - 1], t[i])
      BY <2>2, FlattensAt
    <3> QED
      BY <2>1, <3>1
  <2>4. \A i \in 1..m : h[i] \in Seq(S)
    BY <1>4, <2>2, FlattensType
  <2> DEFINE T == {i \in 1..m : g[i + 1] # Joined(s[1], h[i])}
  <2>5. T = {}
    <3> SUFFICES ASSUME T # {}
                 PROVE  FALSE
      OBVIOUS
    <3>1. PICK k \in T : \A i \in T : k <= i
      <4>1. T \subseteq Nat
        OBVIOUS
      <4> HIDE DEF T
      <4> QED
        BY <4>1, LeastElement
    <3>2. k \in 1..m /\ k + 1 \in 2..n /\ k + 1 - 1 = k
      BY <1>3
    <3>3. t[k] = s[k + 1] /\ t[k] \in Seq(S) /\ g[k + 1] # Joined(s[1], h[k])
      BY <1>4, <3>2
    <3>4. g[k + 1] = Joined(g[k], t[k])
      BY <1>6, <3>2, <3>3
    <3>5. CASE k = 1
      BY <1>6, <2>3, <3>3, <3>4, <3>5
    <3>6. CASE k # 1
      <4>1. k - 1 \in 1..m /\ k - 1 \notin T /\ k - 1 + 1 = k /\ k \in 2..m
        BY <3>1, <3>2, <3>6
      <4>2. g[k] = Joined(s[1], h[k - 1]) /\ h[k] = Joined(h[k - 1], t[k])
        BY <2>3, <4>1
      <4>3. h[k - 1] \in Seq(S)
        BY <2>4, <4>1
      <4>4. Joined(Joined(s[1], h[k - 1]), t[k]) = Joined(s[1], Joined(h[k - 1], t[k]))
        BY <1>2, <3>3, <4>3, JoinedAssociative
      <4> QED
        BY <3>3, <3>4, <4>2, <4>4
    <3> QED
      BY <3>5, <3>6
  <2>6. g[m + 1] = Joined(s[1], h[m]) /\ m + 1 = n
    <3>1. m \notin T
      BY <2>5
    <3> QED
      BY <1>3, <2>1, <3>1
  <2> QED
    BY <1>2, <1>5, <2>2, <2>6 DEF t, Joined
<1> QED
  BY <1>7, <1>8
=============================================================================
