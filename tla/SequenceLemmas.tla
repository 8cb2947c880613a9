--------------------------- MODULE SequenceLemmas ---------------------------
(***************************************************************************)
(* Lemmas about the loops that copy what passes a test from one slice into *)
(* another (OnlyIn of Filtering), cited by the proofs about the services   *)
(* and the sources.  What a loop computes is found by induction on a       *)
(* prefix, with the library's theorem that a set of numbers that is not    *)
(* empty has a least one.                                                  *)
(***************************************************************************)
EXTENDS Filtering, FiniteSetTheorems, SequenceTheorems, WellFoundedInduction,
        TLAPS

-----------------------------------------------------------------------------
(* Sequences and selections from them.                                     *)

\* Induction up to N, over a set.
LEMMA UpTo ==
    ASSUME NEW N \in Nat, NEW T, 0 \in T, \A n \in 0 .. N - 1 : n \in T => n + 1 \in T
    PROVE  0 .. N \subseteq T
<1> DEFINE R == OpToRel(<, Nat)
           rest == (0 .. N) \ T
<1>1. IsWellFoundedOn(R, Nat)
  BY NatLessThanWellFounded
<1>2. \A i, j \in Nat : <<i, j>> \in R <=> i < j
  BY DEF OpToRel
<1> HIDE DEF R
<1> SUFFICES ASSUME rest # {} PROVE FALSE
  OBVIOUS
<1>3. rest \subseteq Nat
  OBVIOUS
<1>4. PICK k \in rest : \A t \in rest : ~(<<t, k>> \in R)
  BY <1>1, <1>3, WFMin
<1>5. k \in 1 .. N
  OBVIOUS
<1>6. k - 1 \in Nat /\ <<k - 1, k>> \in R /\ k - 1 \in 0 .. N - 1
  BY <1>2, <1>5
<1>7. k - 1 \in T
  BY <1>4, <1>6
<1> QED
  BY <1>5, <1>6, <1>7

\* f is what OnlyIn computes of the first n elements.
Prefixes(s, S, f, n) ==
    f = [i \in 0 .. n |-> IF i = 0 THEN <<>>
             ELSE IF s[i] \in S THEN Append(f[i - 1], s[i]) ELSE f[i - 1]]

LEMMA PrefixesExist ==
    ASSUME NEW s, NEW S, NEW N \in Nat
    PROVE  \E f : Prefixes(s, S, f, N)
<1> DEFINE T == {n \in Nat : \E f : Prefixes(s, S, f, n)}
<1>1. 0 \in T
  <2>1. Prefixes(s, S, [i \in 0 .. 0 |-> <<>>], 0)
    BY DEF Prefixes
  <2> QED
    BY <2>1
<1>2. ASSUME NEW n \in 0 .. N - 1, n \in T PROVE n + 1 \in T
  <2>1. PICK f : Prefixes(s, S, f, n)
    BY <1>2
  <2> DEFINE g == [i \in 0 .. n + 1 |-> IF i = n + 1
                     THEN IF s[n + 1] \in S THEN Append(f[n], s[n + 1]) ELSE f[n]
                     ELSE f[i]]
             h == [i \in 0 .. n + 1 |-> IF i = 0 THEN <<>>
                     ELSE IF s[i] \in S THEN Append(g[i - 1], s[i]) ELSE g[i - 1]]
  <2>2. ASSUME NEW i \in 0 .. n + 1 PROVE g[i] = h[i]
    <3>1. CASE i = 0
      BY <2>1, <3>1 DEF Prefixes
    <3>2. CASE i \in 1 .. n
      <4>0. i \in 0 .. n /\ i # 0
        BY <3>2
      <4>1. f[i] = IF s[i] \in S THEN Append(f[i - 1], s[i]) ELSE f[i - 1]
        BY <2>1, <4>0 DEF Prefixes
      <4>2. g[i] = f[i] /\ g[i - 1] = f[i - 1]
        BY <3>2
      <4> QED
        BY <4>1, <4>2, <3>2
    <3>3. CASE i = n + 1
      <4>1. g[n] = f[n]
        OBVIOUS
      <4> QED
        BY <3>3, <4>1
    <3> QED
      BY <3>1, <3>2, <3>3
  <2>3. g = h
    BY <2>2
  <2>4. Prefixes(s, S, g, n + 1)
    BY <2>3 DEF Prefixes
  <2> QED
    BY <2>4
<1>3. 0 .. N \subseteq T
  <2> HIDE DEF T
  <2> QED
    BY <1>1, <1>2, UpTo
<1>4. N \in T
  BY <1>3
<1> QED
  BY <1>4

LEMMA OnlyInIs ==
    ASSUME NEW s, NEW S, Len(s) \in Nat
    PROVE  \E f : Prefixes(s, S, f, Len(s)) /\ OnlyIn(s, S) = f[Len(s)]
<1>1. \E f : Prefixes(s, S, f, Len(s))
  BY PrefixesExist
<1>2. Prefixes(s, S, CHOOSE f : Prefixes(s, S, f, Len(s)), Len(s))
  BY <1>1
<1> QED
  BY <1>2 DEF OnlyIn, Prefixes

\* h says where in s the elements of t come from: they are those of the first
\* i that are in S, in their order.
Follows(h, t, s, S, i) ==
    /\ h \in [1 .. Len(t) -> 1 .. i]
    /\ \A k \in 1 .. Len(t) : t[k] = s[h[k]] /\ t[k] \in S
    /\ \A k, l \in 1 .. Len(t) : k < l => h[k] < h[l]
    /\ \A j \in 1 .. i : s[j] \in S => \E k \in 1 .. Len(t) : h[k] = j

IsPart(t, T, s, S, i) ==
    t \in Seq(T) /\ Len(t) <= i /\ \E h : Follows(h, t, s, S, i)

LEMMA OnlyInParts ==
    ASSUME NEW T, NEW s \in Seq(T), NEW S
    PROVE  IsPart(OnlyIn(s, S), T, s, S, Len(s))
<1>0. Len(s) \in Nat /\ \A i \in 1 .. Len(s) : s[i] \in T
  OBVIOUS
<1>1. PICK f : Prefixes(s, S, f, Len(s)) /\ OnlyIn(s, S) = f[Len(s)]
  BY <1>0, OnlyInIs
<1> DEFINE G == {i \in Nat : IsPart(f[i], T, s, S, i)}
<1>2. 0 \in G
  <2>1. f[0] = <<>>
    BY <1>0, <1>1 DEF Prefixes
  <2>3. Len(<<>>) = 0 /\ <<>> \in Seq(T)
    OBVIOUS
  <2>4. 1 .. 0 = {}
    OBVIOUS
  <2>2. Follows([k \in {} |-> 1], <<>>, s, S, 0)
    BY <2>3, <2>4 DEF Follows
  <2>5. IsPart(<<>>, T, s, S, 0)
    BY <2>2, <2>3 DEF IsPart
  <2> QED
    BY <2>1, <2>5
<1>3. ASSUME NEW n \in 0 .. Len(s) - 1, n \in G PROVE n + 1 \in G
  <2>0. n \in Nat /\ n + 1 \in 1 .. Len(s) /\ s[n + 1] \in T
    BY <1>0
  <2> DEFINE t == f[n]
  <2>1. f[n + 1] = IF s[n + 1] \in S THEN Append(t, s[n + 1]) ELSE t
    <3>1. n + 1 \in 0 .. Len(s) /\ n + 1 # 0 /\ (n + 1) - 1 = n
      BY <2>0
    <3> QED
      BY <1>1, <3>1 DEF Prefixes
  <2>2. t \in Seq(T) /\ Len(t) <= n /\ Len(t) \in Nat
    BY <1>3 DEF IsPart
  <2>6. PICK h : Follows(h, t, s, S, n)
    BY <1>3 DEF IsPart
  <2>3. /\ h \in [1 .. Len(t) -> 1 .. n]
        /\ \A k \in 1 .. Len(t) : t[k] = s[h[k]] /\ t[k] \in S
        /\ \A k, l \in 1 .. Len(t) : k < l => h[k] < h[l]
        /\ \A j \in 1 .. n : s[j] \in S => \E k \in 1 .. Len(t) : h[k] = j
    BY <2>6 DEF Follows
  <2> HIDE DEF t
  <2>4. CASE s[n + 1] \in S
    <3> DEFINE u == Append(t, s[n + 1])
               g == [k \in 1 .. Len(u) |-> IF k = Len(u) THEN n + 1 ELSE h[k]]
    <3>1. u \in Seq(T) /\ Len(u) = Len(t) + 1
      BY <2>0, <2>2
    <3>2. u[Len(u)] = s[n + 1] /\ \A k \in 1 .. Len(t) : u[k] = t[k]
      BY <2>0, <2>2
    <3> HIDE DEF u
    <3>3. \A k \in 1 .. Len(t) : h[k] \in 1 .. n
      BY <2>3
    <3>4. g \in [1 .. Len(u) -> 1 .. n + 1]
      BY <3>1, <3>3, <2>0, <2>2
    <3>5. /\ \A k \in 1 .. Len(t) : g[k] = h[k]
          /\ g[Len(u)] = n + 1
      BY <3>1, <2>2
    <3> HIDE DEF g
    <3>6. \A k \in 1 .. Len(u) : k \in 1 .. Len(t) \/ k = Len(u)
      BY <3>1, <2>2
    <3>7. \A k \in 1 .. Len(u) : u[k] = s[g[k]] /\ u[k] \in S
      BY <3>2, <3>5, <3>6, <2>3, <2>4
    <3>8. \A k, l \in 1 .. Len(u) : k < l => g[k] < g[l]
      <4> SUFFICES ASSUME NEW k \in 1 .. Len(u), NEW l \in 1 .. Len(u), k < l
                   PROVE  g[k] < g[l]
        OBVIOUS
      <4>1. k \in 1 .. Len(t)
        BY <3>1, <2>2
      <4>2. CASE l = Len(u)
        BY <4>1, <4>2, <3>3, <3>5
      <4>3. CASE l \in 1 .. Len(t)
        BY <4>1, <4>3, <2>3, <3>5
      <4> QED
        BY <4>2, <4>3, <3>6
    <3>9. \A j \in 1 .. n + 1 : s[j] \in S => \E k \in 1 .. Len(u) : g[k] = j
      <4> SUFFICES ASSUME NEW j \in 1 .. n + 1, s[j] \in S
                   PROVE  \E k \in 1 .. Len(u) : g[k] = j
        OBVIOUS
      <4>1. CASE j = n + 1
        BY <4>1, <3>1, <3>5, <2>2
      <4>2. CASE j \in 1 .. n
        <5>1. PICK k \in 1 .. Len(t) : h[k] = j
          BY <4>2, <2>3
        <5>2. k \in 1 .. Len(u)
          BY <3>1, <2>2
        <5> QED
          BY <5>1, <5>2, <3>5
      <4> QED
        BY <4>1, <4>2
    <3>10. IsPart(u, T, s, S, n + 1)
      <4>1. Follows(g, u, s, S, n + 1)
        BY <3>4, <3>7, <3>8, <3>9 DEF Follows
      <4>2. Len(u) <= n + 1
        BY <3>1, <2>2
      <4> QED
        BY <4>1, <4>2, <3>1 DEF IsPart
    <3>11. f[n + 1] = u
      BY <2>1, <2>4 DEF u
    <3> QED
      BY <3>10, <3>11
  <2>5. CASE s[n + 1] \notin S
    <3>1. h \in [1 .. Len(t) -> 1 .. n + 1]
      BY <2>3
    <3>2. \A j \in 1 .. n + 1 : s[j] \in S => \E k \in 1 .. Len(t) : h[k] = j
      BY <2>3, <2>5
    <3>3. IsPart(t, T, s, S, n + 1)
      <4>1. Follows(h, t, s, S, n + 1)
        BY <3>1, <3>2, <2>3 DEF Follows
      <4> QED
        BY <4>1, <2>2 DEF IsPart
    <3> QED
      BY <3>3, <2>1, <2>5
  <2> QED
    BY <2>4, <2>5
<1>4. 0 .. Len(s) \subseteq G
  <2> HIDE DEF G
  <2> QED
    BY <1>0, <1>2, <1>3, UpTo
<1>5. Len(s) \in G
  BY <1>0, <1>4
<1> QED
  BY <1>1, <1>5

=============================================================================
