------------------------- MODULE EncodePipelineProofs -------------------------
(***************************************************************************)
(* What `qodec encode` writes decodes to what it read, for every text,      *)
(* every key that legend.rs or rules.rs would load, every set of aliases    *)
(* and every choice of the token meter.                                     *)
(*                                                                         *)
(* Part 1 is about texts: the recursive functions of ArtifactText exist and *)
(* obey their own equations, str::replace is undone by the inverse          *)
(* replacement when the alias is new, and a container that is emitted       *)
(* parses to itself.  Part 2 is about decoding: it ends, since every layer   *)
(* holds fewer newlines than the text it was in, and it gives back what was  *)
(* framed, mined or nested.  Part 3 follows the steps of the encoder; its    *)
(* invariant, EncodeIInv, says at each step what the text so far decodes to. *)
(***************************************************************************)
EXTENDS EncodePipeline, SequenceTheorems, WellFoundedInduction, TLAPS

-----------------------------------------------------------------------------
(* Part 1.  Texts and containers. *)

(* Induction and recursion over texts. *)

(* Every set of numbers that has an element has a least one.                *)
LEMMA NatHasMinimum ==
  ASSUME NEW T, T \subseteq Nat, T # {}
  PROVE  \E x \in T : \A y \in T : x <= y
<1> DEFINE Below == {ss \in Nat \X Nat : ss[1] < ss[2]}
<1>1. IsWellFoundedOn(Below, Nat)
  BY NatLessThanWellFounded, Zenon DEF OpToRel
<1>2. PICK x \in T : \A y \in T : <<y, x>> \notin Below
  BY <1>1, WFMin, Zenon
<1>3. ASSUME NEW y \in T PROVE x <= y
  <2>1. x \in Nat /\ y \in Nat
    OBVIOUS
  <2>2. <<y, x>> \notin Below
    BY <1>2
  <2>3. ~(y < x)
    BY <2>1, <2>2
  <2> QED BY <2>1, <2>3
<1> QED BY <1>3

LEMMA Predecessor ==
  ASSUME NEW n \in Nat, n # 0
  PROVE  n - 1 \in Nat /\ n - 1 < n
OBVIOUS

(* What holds of a thing when it holds of all that measure less holds of    *)
(* everything.                                                              *)
LEMMA SmallerFirst ==
  ASSUME NEW D, NEW m \in [D -> Nat], NEW P,
         \A t \in D : (\A u \in D : m[u] < m[t] => u \in P) => t \in P
  PROVE  \A t \in D : t \in P
<1> DEFINE Bad == {m[t] : t \in {u \in D : u \notin P}}
<1>1. ASSUME Bad # {} PROVE FALSE
  <2>1. Bad \subseteq Nat
    OBVIOUS
  <2>2. PICK x \in Bad : \A y \in Bad : x <= y
    <3> HIDE DEF Bad
    <3> QED BY <1>1, <2>1, NatHasMinimum, Zenon
  <2>3. PICK t \in D : t \notin P /\ x = m[t]
    BY <2>2
  <2>4. ASSUME NEW u \in D, m[u] < m[t] PROVE u \in P
    <3>1. u \notin P => m[t] <= m[u]
      BY <2>2, <2>3
    <3>2. m[u] \in Nat /\ m[t] \in Nat
      OBVIOUS
    <3> HIDE DEF Bad
    <3> QED BY <2>4, <3>1, <3>2
  <2> QED BY <2>3, <2>4
<1> QED BY <1>1

(* A function whose values at a thing are given by its values at smaller    *)
(* things exists.  G is the rule: at t, from the function so far.           *)
Ruled(f, D, G) == \A t \in D : f[t] = G[<<t, f>>]
Local(G, m, D, V) ==
  \A t \in D : \A g, h \in [D -> V] :
     (\A u \in D : m[u] < m[t] => g[u] = h[u]) => G[<<t, g>>] = G[<<t, h>>]
UpTo(g, n, D, m, G) == \A t \in D : m[t] < n => g[t] = G[<<t, g>>]

LEMMA PartsExist ==
  ASSUME NEW D, NEW m \in [D -> Nat], NEW V, NEW v0 \in V,
         NEW G \in [D \X [D -> V] -> V], Local(G, m, D, V)
  PROVE  \A n \in Nat : \E g \in [D -> V] : UpTo(g, n, D, m, G)
<1> DEFINE P == {n \in Nat : \E g \in [D -> V] : UpTo(g, n, D, m, G)}
           id == [n \in Nat |-> n]
<1>1. ASSUME NEW n \in Nat, \A k \in Nat : k < n => k \in P PROVE n \in P
  <2>1. CASE n = 0
    <3> DEFINE g == [t \in D |-> v0]
    <3>1. g \in [D -> V] /\ UpTo(g, n, D, m, G)
      BY <2>1 DEF UpTo
    <3> QED BY <3>1
  <2>2. CASE n # 0
    <3>1. n - 1 \in Nat /\ n - 1 < n
      BY <2>2, Predecessor
    <3>2. PICK g \in [D -> V] : UpTo(g, n - 1, D, m, G)
      BY <1>1, <3>1
    <3> DEFINE h == [t \in D |-> IF m[t] = n - 1 THEN G[<<t, g>>] ELSE g[t]]
    <3>3. \A t \in D : G[<<t, g>>] \in V
      OBVIOUS
    <3>4. h \in [D -> V]
      BY <3>3
    <3>5. ASSUME NEW t \in D, m[t] < n PROVE h[t] = G[<<t, h>>]
      <4>0. m[t] \in Nat
        OBVIOUS
      <4>1. \A u \in D : m[u] < m[t] => g[u] = h[u]
        <5>1. \A u \in D : m[u] \in Nat
          OBVIOUS
        <5> QED BY <1>1, <3>5, <4>0, <5>1
      <4>2. G[<<t, g>>] = G[<<t, h>>]
        <5> HIDE DEF h
        <5> QED BY <3>4, <4>1, Zenon DEF Local
      <4>3. h[t] = G[<<t, g>>]
        <5>1. CASE m[t] = n - 1
          BY <5>1
        <5>2. CASE m[t] # n - 1
          <6>1. m[t] < n - 1
            BY <3>5, <4>0, <5>2
          <6>2. h[t] = g[t]
            BY <5>2
          <6> QED BY <3>2, <6>1, <6>2 DEF UpTo
        <5> QED BY <5>1, <5>2
      <4> QED BY <4>2, <4>3, Zenon
    <3>6. UpTo(h, n, D, m, G)
      <4> HIDE DEF h
      <4> QED BY <3>5, Zenon DEF UpTo
    <3> QED BY <3>4, <3>6, Zenon
  <2> QED BY <2>1, <2>2
<1>2. id \in [Nat -> Nat] /\ \A n \in Nat : id[n] = n
  OBVIOUS
<1>3. \A n \in Nat : n \in P
  <2> HIDE DEF P, id
  <2>1. \A n \in Nat : (\A k \in Nat : id[k] < id[n] => k \in P) => n \in P
    BY <1>1, <1>2
  <2> QED BY <1>2, <2>1, SmallerFirst, Zenon
<1> QED BY <1>3

LEMMA PartsAgree ==
  ASSUME NEW D, NEW m \in [D -> Nat], NEW V, NEW G, Local(G, m, D, V),
         NEW g \in [D -> V], NEW h \in [D -> V], NEW i \in Nat, NEW j \in Nat,
         UpTo(g, i, D, m, G), UpTo(h, j, D, m, G)
  PROVE  \A t \in D : m[t] < i /\ m[t] < j => g[t] = h[t]
<1> DEFINE P == {t \in D : m[t] < i /\ m[t] < j => g[t] = h[t]}
<1>1. ASSUME NEW t \in D, \A u \in D : m[u] < m[t] => u \in P PROVE t \in P
  <2>1. ASSUME m[t] < i, m[t] < j PROVE g[t] = h[t]
    <3>1. \A u \in D : m[u] < m[t] => g[u] = h[u]
      <4>1. \A u \in D : m[u] \in Nat
        OBVIOUS
      <4> QED BY <1>1, <2>1, <4>1
    <3>2. g[t] = G[<<t, g>>] /\ h[t] = G[<<t, h>>]
      BY <2>1 DEF UpTo
    <3> QED BY <3>1, <3>2 DEF Local
  <2> QED BY <2>1
<1>2. \A t \in D : t \in P
  <2> HIDE DEF P
  <2> QED BY <1>1, SmallerFirst
<1> QED BY <1>2

LEMMA RecursionExists ==
  ASSUME NEW D, NEW m \in [D -> Nat], NEW V, NEW v0 \in V,
         NEW G \in [D \X [D -> V] -> V], Local(G, m, D, V)
  PROVE  \E f \in [D -> V] : Ruled(f, D, G)
<1> DEFINE Part(n) == CHOOSE g \in [D -> V] : UpTo(g, n, D, m, G)
           f == [t \in D |-> Part(m[t] + 1)[t]]
<1>1. \A n \in Nat : Part(n) \in [D -> V] /\ UpTo(Part(n), n, D, m, G)
  BY PartsExist, Zenon
<1>2. \A t \in D : m[t] \in Nat /\ m[t] + 1 \in Nat /\ m[t] < m[t] + 1
  OBVIOUS
<1> HIDE DEF Part
<1>3. f \in [D -> V]
  BY <1>1, <1>2
<1>4. ASSUME NEW t \in D PROVE f[t] = G[<<t, f>>]
  <2> DEFINE g == Part(m[t] + 1)
  <2>1. g \in [D -> V] /\ UpTo(g, m[t] + 1, D, m, G)
    BY <1>1, <1>2
  <2>2. g[t] = G[<<t, g>>]
    BY <1>2, <2>1, Zenon DEF UpTo
  <2>3. ASSUME NEW u \in D, m[u] < m[t] PROVE g[u] = f[u]
    <3>1. Part(m[u] + 1) \in [D -> V] /\ UpTo(Part(m[u] + 1), m[u] + 1, D, m, G)
      BY <1>1, <1>2
    <3>2. m[u] < m[t] + 1 /\ m[u] < m[u] + 1 /\ m[t] + 1 \in Nat /\ m[u] + 1 \in Nat
      BY <1>2, <2>3
    <3>3. f[u] = Part(m[u] + 1)[u]
      OBVIOUS
    <3> HIDE DEF f, g
    <3> QED BY <2>1, <3>1, <3>2, <3>3, PartsAgree
  <2>4. f[t] = g[t]
    OBVIOUS
  <2> HIDE DEF f, g
  <2>5. G[<<t, g>>] = G[<<t, f>>]
    BY <1>3, <2>1, <2>3, Zenon DEF Local
  <2> QED BY <2>2, <2>4, <2>5
<1>5. Ruled(f, D, G)
  <2> HIDE DEF f
  <2> QED BY <1>4, Zenon DEF Ruled
<1> QED BY <1>3, <1>5

-----------------------------------------------------------------------------
(* Texts and str::replace. *)

Shorter == [t \in Texts |-> Len(t)]
LEMMA LengthsAreNumbers == Shorter \in [Texts -> Nat] /\ \A t \in Texts : Shorter[t] = Len(t)
BY DEF Shorter, Texts

(* What holds of a text when it holds of all shorter ones holds of all.     *)
LEMMA ShorterFirst ==
  ASSUME NEW P, \A t \in Texts : (\A u \in Texts : Len(u) < Len(t) => u \in P) => t \in P
  PROVE  \A t \in Texts : t \in P
<1>1. \A t \in Texts : (\A u \in Texts : Shorter[u] < Shorter[t] => u \in P) => t \in P
  BY LengthsAreNumbers
<1> QED BY <1>1, LengthsAreNumbers, SmallerFirst, Zenon

(* The pieces of a text that is not empty.                                  *)
LEMMA HeadAndTail ==
  ASSUME NEW t \in Texts, t # << >>
  PROVE  /\ Head(t) \in Symbols /\ Tail(t) \in Texts /\ <<Head(t)>> \in Texts
         /\ Len(Tail(t)) = Len(t) - 1 /\ Len(Tail(t)) < Len(t) /\ Len(t) \in Nat /\ Len(t) >= 1 /\ Head(t) = t[1]
         /\ t = <<Head(t)>> \o Tail(t)
         /\ \A i \in 1..Len(t) - 1 : Tail(t)[i] = t[i + 1]
BY DEF Texts

LEMMA Suffix ==
  ASSUME NEW t \in Texts, NEW i \in 1..Len(t) + 1
  PROVE  /\ SubSeq(t, i, Len(t)) \in Texts /\ Len(SubSeq(t, i, Len(t))) = Len(t) + 1 - i
         /\ \A k \in 1..Len(t) + 1 - i : SubSeq(t, i, Len(t))[k] = t[i + k - 1]
         /\ SubSeq(t, 1, i - 1) \in Texts /\ Len(SubSeq(t, 1, i - 1)) = i - 1
         /\ \A k \in 1..i - 1 : SubSeq(t, 1, i - 1)[k] = t[k]
         /\ t = SubSeq(t, 1, i - 1) \o SubSeq(t, i, Len(t))
<1> USE DEF Texts
<1>1. /\ SubSeq(t, i, Len(t)) \in Texts /\ Len(SubSeq(t, i, Len(t))) = Len(t) + 1 - i
      /\ \A k \in 1..Len(t) + 1 - i : SubSeq(t, i, Len(t))[k] = t[i + k - 1]
  OBVIOUS
<1>2. /\ SubSeq(t, 1, i - 1) \in Texts /\ Len(SubSeq(t, 1, i - 1)) = i - 1
      /\ \A k \in 1..i - 1 : SubSeq(t, 1, i - 1)[k] = t[k]
  OBVIOUS
<1>3. t = SubSeq(t, 1, i - 1) \o SubSeq(t, i, Len(t))
  <2>1. 1 \in 1..Len(t) + 1 /\ i - 1 \in 1 - 1..Len(t) /\ Len(t) \in i - 1..Len(t) /\ (i - 1) + 1 = i
    OBVIOUS
  <2>2. SubSeq(t, 1, i - 1) \o SubSeq(t, (i - 1) + 1, Len(t)) = SubSeq(t, 1, Len(t))
    BY <2>1, ConcatAdjacentSubSeq, Zenon
  <2> QED BY <2>1, <2>2, SubSeqFull, Zenon
<1> QED BY <1>1, <1>2, <1>3, Zenon

LEMMA Joined ==
  ASSUME NEW s \in Texts, NEW t \in Texts
  PROVE  /\ s \o t \in Texts /\ Len(s \o t) = Len(s) + Len(t) /\ Len(s) \in Nat /\ Len(t) \in Nat
         /\ \A i \in 1..Len(s) : (s \o t)[i] = s[i]
         /\ \A i \in 1..Len(t) : (s \o t)[Len(s) + i] = t[i]
         /\ SubSeq(s \o t, 1, Len(s)) = s
         /\ SubSeq(s \o t, Len(s) + 1, Len(s \o t)) = t
<1> USE DEF Texts
<1>1. /\ s \o t \in Texts /\ Len(s \o t) = Len(s) + Len(t) /\ Len(s) \in Nat /\ Len(t) \in Nat
      /\ \A i \in 1..Len(s) : (s \o t)[i] = s[i]
      /\ \A i \in 1..Len(t) : (s \o t)[Len(s) + i] = t[i]
  OBVIOUS
<1>2. SubSeq(s \o t, 1, Len(s)) = s
  OBVIOUS
<1>3. SubSeq(s \o t, Len(s) + 1, Len(s \o t)) = t
  OBVIOUS
<1> QED BY <1>1, <1>2, <1>3

(* str::replace, one symbol after the other.                                *)
Everywhere(p, by) == IF p = << >> THEN by ELSE << >>
ReplaceStep(s, p, by, f) ==
  IF s = << >> THEN Everywhere(p, by)
  ELSE IF p # << >> /\ OccursAt(s, p, 1) THEN by \o f[SubSeq(s, Len(p) + 1, Len(s))]
  ELSE Everywhere(p, by) \o <<Head(s)>> \o f[Tail(s)]

LEMMA ReplaceStepIsAText ==
  ASSUME NEW p \in Texts, NEW by \in Texts, NEW s \in Texts, NEW f \in [Texts -> Texts]
  PROVE  ReplaceStep(s, p, by, f) \in Texts
<1>1. Everywhere(p, by) \in Texts
  <2>1. << >> \in Texts
    BY DEF Texts
  <2> QED BY <2>1 DEF Everywhere
<1>2. CASE s # << >> /\ p # << >> /\ OccursAt(s, p, 1)
  <2>1. Len(p) + 1 \in 1..Len(s) + 1
    BY <1>2 DEF OccursAt, Texts
  <2>2. by \o f[SubSeq(s, Len(p) + 1, Len(s))] \in Texts
    BY <2>1, Suffix, Joined, Zenon
  <2> QED BY <1>2, <2>2 DEF ReplaceStep
<1>3. CASE s # << >> /\ ~(p # << >> /\ OccursAt(s, p, 1))
  <2>1. <<Head(s)>> \in Texts /\ f[Tail(s)] \in Texts
    BY <1>3, HeadAndTail
  <2>2. Everywhere(p, by) \o <<Head(s)>> \in Texts
    BY <1>1, <2>1, Joined
  <2>3. Everywhere(p, by) \o <<Head(s)>> \o f[Tail(s)] \in Texts
    BY <2>1, <2>2, Joined, Zenon
  <2> QED BY <1>3, <2>3 DEF ReplaceStep
<1> QED BY <1>1, <1>2, <1>3 DEF ReplaceStep

LEMMA ReplaceStepIsLocal ==
  ASSUME NEW p \in Texts, NEW by \in Texts, NEW s \in Texts, NEW f, NEW g,
         \A u \in Texts : Len(u) < Len(s) => f[u] = g[u]
  PROVE  ReplaceStep(s, p, by, f) = ReplaceStep(s, p, by, g)
<1>1. CASE s # << >> /\ p # << >> /\ OccursAt(s, p, 1)
  <2>1. Len(p) + 1 \in 1..Len(s) + 1 /\ Len(p) >= 1 /\ Len(s) \in Nat /\ Len(p) \in Nat
    BY <1>1 DEF OccursAt, Texts
  <2>2. SubSeq(s, Len(p) + 1, Len(s)) \in Texts /\ Len(SubSeq(s, Len(p) + 1, Len(s))) < Len(s)
    <3>1. /\ SubSeq(s, Len(p) + 1, Len(s)) \in Texts
          /\ Len(SubSeq(s, Len(p) + 1, Len(s))) = Len(s) + 1 - (Len(p) + 1)
      BY <2>1, Suffix, Zenon
    <3> QED BY <2>1, <3>1
  <2>3. f[SubSeq(s, Len(p) + 1, Len(s))] = g[SubSeq(s, Len(p) + 1, Len(s))]
    BY <2>2, Zenon
  <2> QED BY <1>1, <2>3, Zenon DEF ReplaceStep
<1>2. CASE s # << >> /\ ~(p # << >> /\ OccursAt(s, p, 1))
  <2>1. Tail(s) \in Texts /\ Len(Tail(s)) < Len(s)
    BY <1>2, HeadAndTail, Zenon
  <2>2. f[Tail(s)] = g[Tail(s)]
    BY <2>1, Zenon
  <2> QED BY <1>2, <2>2 DEF ReplaceStep
<1> QED BY <1>1, <1>2 DEF ReplaceStep

LEMMA ReplaceStepsAgree ==
  ASSUME NEW p \in Texts, NEW by \in Texts, NEW f, NEW g,
         \A s \in Texts : f[s] = ReplaceStep(s, p, by, f),
         \A s \in Texts : g[s] = ReplaceStep(s, p, by, g)
  PROVE  \A s \in Texts : f[s] = g[s]
<1> DEFINE P == {s \in Texts : f[s] = g[s]}
<1>1. ASSUME NEW s \in Texts, \A u \in Texts : Len(u) < Len(s) => u \in P PROVE s \in P
  <2>1. \A u \in Texts : Len(u) < Len(s) => f[u] = g[u]
    BY <1>1
  <2>2. ReplaceStep(s, p, by, f) = ReplaceStep(s, p, by, g)
    BY <2>1, ReplaceStepIsLocal
  <2> QED BY <2>2
<1>2. \A s \in Texts : s \in P
  <2> HIDE DEF P
  <2> QED BY <1>1, ShorterFirst
<1> QED BY <1>2

LEMMA ReplaceSteps ==
  ASSUME NEW p \in Texts, NEW by \in Texts
  PROVE  \E f \in [Texts -> Texts] :
           \A s \in Texts : f[s] = Replace(s, p, by) /\ f[s] = ReplaceStep(s, p, by, f)
<1> DEFINE V == Texts
           G == [x \in Texts \X [Texts -> V] |-> ReplaceStep(x[1], p, by, x[2])]
           IsIt(h) == h = [s \in Texts |->
                             IF s = << >> THEN Everywhere(p, by)
                             ELSE IF p # << >> /\ OccursAt(s, p, 1) THEN by \o h[SubSeq(s, Len(p) + 1, Len(s))]
                             ELSE Everywhere(p, by) \o <<Head(s)>> \o h[Tail(s)]]
           f == CHOOSE h : IsIt(h)
<1>1. G \in [Texts \X [Texts -> V] -> V]
  BY ReplaceStepIsAText
<1>2. \A t \in Texts : \A h \in [Texts -> V] : G[<<t, h>>] = ReplaceStep(t, p, by, h)
  OBVIOUS
<1>3. Local(G, Shorter, Texts, V)
  <2> SUFFICES ASSUME NEW t \in Texts, NEW g \in [Texts -> V], NEW h \in [Texts -> V],
                      \A u \in Texts : Shorter[u] < Shorter[t] => g[u] = h[u]
               PROVE  G[<<t, g>>] = G[<<t, h>>]
    BY Zenon DEF Local
  <2>1. \A u \in Texts : Len(u) < Len(t) => g[u] = h[u]
    BY LengthsAreNumbers
  <2>2. ReplaceStep(t, p, by, g) = ReplaceStep(t, p, by, h)
    BY <2>1, ReplaceStepIsLocal
  <2> HIDE DEF G
  <2> QED BY <1>2, <2>2
<1>4. << >> \in V
  BY DEF Texts
<1>5. PICK h \in [Texts -> V] : Ruled(h, Texts, G)
  <2> HIDE DEF G, V
  <2> QED BY <1>1, <1>3, <1>4, LengthsAreNumbers, RecursionExists, Zenon
<1>6. \A s \in Texts : h[s] = ReplaceStep(s, p, by, h)
  <2> HIDE DEF G
  <2> QED BY <1>2, <1>5, Zenon DEF Ruled
<1>7. IsIt(h)
  BY <1>5, <1>6, Zenon DEF ReplaceStep
<1>8. IsIt(f)
  BY <1>7, Zenon
<1>9. \A s \in Texts : f[s] = Replace(s, p, by)
  BY DEF Replace, Everywhere
<1> HIDE DEF f
<1>10. \A s \in Texts : f[s] = ReplaceStep(s, p, by, f)
  BY <1>8, Zenon DEF ReplaceStep
<1>11. PICK k : k = f
  OBVIOUS
<1>12. \A s \in Texts : k[s] = ReplaceStep(s, p, by, k)
  BY <1>10, <1>11
<1>13. \A s \in Texts : k[s] = h[s]
  <2> HIDE DEF V, G, IsIt
  <2>1. ASSUME NEW s \in Texts PROVE k[s] = h[s]
    BY <1>6, <1>12, ReplaceStepsAgree
  <2> QED BY <2>1
<1>14. k = h
  BY <1>5, <1>8, <1>11, <1>13, Zenon
<1> QED BY <1>5, <1>9, <1>11, <1>12, <1>14
(* The laws of str::replace.                                                *)
LEMMA ReplaceLaws ==
  ASSUME NEW p \in Texts, NEW by \in Texts, NEW s \in Texts
  PROVE  /\ Replace(s, p, by) \in Texts
         /\ s = << >> => Replace(s, p, by) = Everywhere(p, by)
         /\ s # << >> /\ p # << >> /\ OccursAt(s, p, 1) =>
              Replace(s, p, by) = by \o Replace(SubSeq(s, Len(p) + 1, Len(s)), p, by)
         /\ s # << >> /\ ~(p # << >> /\ OccursAt(s, p, 1)) =>
              Replace(s, p, by) = Everywhere(p, by) \o <<Head(s)>> \o Replace(Tail(s), p, by)
<1>1. PICK f \in [Texts -> Texts] :
         \A u \in Texts : f[u] = Replace(u, p, by) /\ f[u] = ReplaceStep(u, p, by, f)
  BY ReplaceSteps, Zenon
<1>2. CASE s = << >>
  BY <1>1, <1>2, Zenon DEF ReplaceStep
<1>3. CASE s # << >> /\ p # << >> /\ OccursAt(s, p, 1)
  <2>1. Len(p) + 1 \in 1..Len(s) + 1
    BY <1>3 DEF OccursAt, Texts
  <2>2. SubSeq(s, Len(p) + 1, Len(s)) \in Texts
    BY <2>1, Suffix, Zenon
  <2> QED BY <1>1, <1>3, <2>2, Zenon DEF ReplaceStep
<1>4. CASE s # << >> /\ ~(p # << >> /\ OccursAt(s, p, 1))
  <2>1. Tail(s) \in Texts
    BY <1>4, HeadAndTail, Zenon
  <2> QED BY <1>1, <1>4, <2>1, Zenon DEF ReplaceStep
<1> QED BY <1>2, <1>3, <1>4, Zenon

(* What is prefixed to a text does not hide what occurs in it.              *)
LEMMA HoldsInSuffix ==
  ASSUME NEW x \in Texts, NEW t \in Texts, NEW a \in Texts, Holds(t, a)
  PROVE  Holds(x \o t, a)
<1>1. PICK i \in 1..Len(t) : OccursAt(t, a, i)
  BY DEF Holds
<1>2. /\ Len(x \o t) = Len(x) + Len(t) /\ Len(x) \in Nat /\ Len(t) \in Nat /\ Len(a) \in Nat
      /\ \A k \in 1..Len(t) : (x \o t)[Len(x) + k] = t[k]
  BY Joined DEF Texts
<1>3. i + Len(a) - 1 <= Len(t) /\ \A k \in 1..Len(a) : t[i + k - 1] = a[k]
  BY <1>1 DEF OccursAt
<1>4. Len(x) + i \in 1..Len(x \o t) /\ (Len(x) + i) + Len(a) - 1 <= Len(x \o t)
  BY <1>2, <1>3
<1>5. ASSUME NEW k \in 1..Len(a) PROVE (x \o t)[(Len(x) + i) + k - 1] = a[k]
  <2>1. i + k - 1 \in 1..Len(t) /\ (Len(x) + i) + k - 1 = Len(x) + (i + k - 1)
    BY <1>2, <1>3
  <2> QED BY <1>2, <1>3, <2>1, Zenon
<1>6. OccursAt(x \o t, a, Len(x) + i)
  BY <1>4, <1>5, Zenon DEF OccursAt
<1> QED BY <1>4, <1>6 DEF Holds

(* A text that starts with another is that one and the rest.                *)
LEMMA StartsWith ==
  ASSUME NEW t \in Texts, NEW p \in Texts, OccursAt(t, p, 1)
  PROVE  /\ Len(p) + 1 \in 1..Len(t) + 1
         /\ SubSeq(t, Len(p) + 1, Len(t)) \in Texts
         /\ Len(SubSeq(t, Len(p) + 1, Len(t))) = Len(t) - Len(p)
         /\ t = p \o SubSeq(t, Len(p) + 1, Len(t))
<1>1. Len(p) + 1 \in 1..Len(t) + 1 /\ Len(p) \in Nat /\ Len(t) \in Nat /\ (Len(p) + 1) - 1 = Len(p)
  BY DEF OccursAt, Texts
<1>2. /\ SubSeq(t, Len(p) + 1, Len(t)) \in Texts
      /\ Len(SubSeq(t, Len(p) + 1, Len(t))) = Len(t) + 1 - (Len(p) + 1)
      /\ SubSeq(t, 1, Len(p)) \in Texts /\ Len(SubSeq(t, 1, Len(p))) = Len(p)
      /\ \A k \in 1..Len(p) : SubSeq(t, 1, Len(p))[k] = t[k]
      /\ t = SubSeq(t, 1, Len(p)) \o SubSeq(t, Len(p) + 1, Len(t))
  <2>1. /\ SubSeq(t, 1, (Len(p) + 1) - 1) \in Texts /\ Len(SubSeq(t, 1, (Len(p) + 1) - 1)) = (Len(p) + 1) - 1
        /\ \A k \in 1..(Len(p) + 1) - 1 : SubSeq(t, 1, (Len(p) + 1) - 1)[k] = t[k]
        /\ t = SubSeq(t, 1, (Len(p) + 1) - 1) \o SubSeq(t, Len(p) + 1, Len(t))
        /\ SubSeq(t, Len(p) + 1, Len(t)) \in Texts
        /\ Len(SubSeq(t, Len(p) + 1, Len(t))) = Len(t) + 1 - (Len(p) + 1)
    BY <1>1, Suffix, Zenon
  <2> QED BY <1>1, <2>1, Zenon
<1>3. \A k \in 1..Len(p) : t[k] = p[k]
  <2>1. \A k \in 1..Len(p) : t[1 + k - 1] = p[k] /\ 1 + k - 1 = k
    BY <1>1 DEF OccursAt
  <2> QED BY <2>1
<1>4. SubSeq(t, 1, Len(p)) = p
  BY <1>2, <1>3, SeqEqual, Zenon DEF Texts
<1>5. Len(t) + 1 - (Len(p) + 1) = Len(t) - Len(p)
  BY <1>1
<1> QED BY <1>1, <1>2, <1>4, <1>5, Zenon

LEMMA JoinStarts ==
  ASSUME NEW p \in Texts, NEW t \in Texts
  PROVE  OccursAt(p \o t, p, 1)
<1>1. /\ Len(p \o t) = Len(p) + Len(t) /\ Len(p) \in Nat /\ Len(t) \in Nat
      /\ \A k \in 1..Len(p) : (p \o t)[k] = p[k]
  BY Joined
<1>2. ASSUME NEW k \in 1..Len(p) PROVE (p \o t)[1 + k - 1] = p[k]
  <2>1. 1 + k - 1 = k
    OBVIOUS
  <2> QED BY <1>1, <2>1
<1> QED BY <1>1, <1>2 DEF OccursAt

LEMMA Single ==
  ASSUME NEW S, NEW x \in S
  PROVE  <<x>> \in Seq(S) /\ Len(<<x>>) = 1 /\ <<x>>[1] = x
OBVIOUS

LEMMA OneBefore ==
  ASSUME NEW x \in Symbols, NEW t \in Texts
  PROVE  /\ <<x>> \o t \in Texts /\ <<x>> \o t # << >> /\ Head(<<x>> \o t) = x /\ Tail(<<x>> \o t) = t
         /\ (<<x>> \o t)[1] = x /\ Len(<<x>> \o t) = Len(t) + 1
         /\ \A i \in 1..Len(t) : (<<x>> \o t)[i + 1] = t[i]
<1> USE DEF Texts
<1> DEFINE w == <<x>> \o t
<1>0. <<x>> \in Texts /\ Len(<<x>>) = 1 /\ <<x>>[1] = x /\ Len(t) \in Nat
  <2>1. <<x>> \in Texts /\ Len(<<x>>) = 1 /\ <<x>>[1] = x
    BY Single
  <2>2. Len(t) \in Nat
    OBVIOUS
  <2> QED BY <2>1, <2>2
<1>1. /\ w \in Texts /\ w # << >> /\ w[1] = x /\ Len(w) = Len(t) + 1
      /\ \A i \in 1..Len(t) : w[i + 1] = t[i]
  <2>1. /\ w \in Texts /\ Len(w) = 1 + Len(t)
        /\ \A i \in 1..1 : w[i] = <<x>>[i]
        /\ \A i \in 1..Len(t) : w[1 + i] = t[i]
    BY <1>0, Joined
  <2> HIDE DEF w
  <2>2. w # << >>
    BY <1>0, <2>1
  <2>3. ASSUME NEW i \in 1..Len(t) PROVE w[i + 1] = t[i]
    <3>1. 1 + i = i + 1
      BY <1>0
    <3> QED BY <2>1, <3>1
  <2>4. w[1] = x
    <3>1. 1 \in 1..1
      OBVIOUS
    <3> QED BY <1>0, <2>1, <3>1
  <2>5. Len(w) = Len(t) + 1
    BY <1>0, <2>1
  <2> QED BY <2>1, <2>2, <2>3, <2>4, <2>5
<1> HIDE DEF w
<1>2. Head(w) = x /\ Tail(w) \in Texts /\ Len(Tail(w)) = Len(t) /\ \A i \in 1..Len(t) : Tail(w)[i] = t[i]
  <2>1. /\ Tail(w) \in Texts /\ Len(Tail(w)) = Len(w) - 1 /\ Head(w) = w[1]
        /\ \A i \in 1..Len(w) - 1 : Tail(w)[i] = w[i + 1]
    BY <1>1, HeadAndTail
  <2>2. Len(w) - 1 = Len(t)
    BY <1>0, <1>1
  <2> QED BY <1>1, <2>1, <2>2
<1>3. Tail(w) = t
  BY <1>2, SeqEqual
<1> QED BY <1>1, <1>2, <1>3 DEF w

LEMMA NothingBefore ==
  ASSUME NEW t \in Texts PROVE << >> \in Texts /\ << >> \o t = t /\ t \o << >> = t
BY DEF Texts

(* A marker: its occurrences cannot overlap one another.                    *)
Marker(a) == a \in Texts /\ (Len(a) = 1 \/ (Len(a) = 2 /\ a[1] # a[2]))

(* Replacing a phrase by a marker that the text does not hold is undone by  *)
(* replacing the marker by the phrase.                                      *)
LEMMA ReplaceInverts ==
  ASSUME NEW p \in Texts, p # << >>, NEW a, Marker(a), NEW t0 \in Texts, ~Holds(t0, a)
  PROVE  Replace(Replace(t0, p, a), a, p) = t0
<1> DEFINE P == {t \in Texts : ~Holds(t, a) => Replace(Replace(t, p, a), a, p) = t}
<1>0. a \in Texts /\ a # << >> /\ Len(a) \in Nat /\ Len(a) >= 1 /\ Len(p) \in Nat /\ Len(p) >= 1
  <2>1. a \in Texts /\ Len(a) >= 1
    BY DEF Marker
  <2>2. Len(a) \in Nat /\ a # << >>
    BY <2>1 DEF Texts
  <2>3. Len(p) \in Nat /\ Len(p) >= 1
    BY DEF Texts
  <2> QED BY <2>1, <2>2, <2>3
<1>1. ASSUME NEW t \in Texts, \A u \in Texts : Len(u) < Len(t) => u \in P, ~Holds(t, a)
      PROVE  Replace(Replace(t, p, a), a, p) = t
  <2>0. \A u \in Texts : Len(u) < Len(t) /\ ~Holds(u, a) => Replace(Replace(u, p, a), a, p) = u
    BY <1>1
  <2> HIDE DEF P
  <2>1. CASE t = << >>
    <3>1. Everywhere(p, a) = << >> /\ Everywhere(a, p) = << >>
      BY <1>0 DEF Everywhere
    <3>2. Replace(t, p, a) = << >>
      BY <1>0, <2>1, <3>1, ReplaceLaws, ZenonT(60)
    <3>3. Replace(t, a, p) = << >>
      BY <1>0, <2>1, <3>1, ReplaceLaws, ZenonT(60)
    <3> QED BY <2>1, <3>2, <3>3
  <2>2. CASE t # << >> /\ OccursAt(t, p, 1)
    <3> DEFINE u == SubSeq(t, Len(p) + 1, Len(t))
    <3>1. u \in Texts /\ Len(u) = Len(t) - Len(p) /\ t = p \o u /\ Len(t) \in Nat
      BY <2>2, StartsWith DEF Texts
    <3>2. Replace(t, p, a) = a \o Replace(u, p, a) /\ Replace(u, p, a) \in Texts
      BY <1>0, <2>2, <3>1, ReplaceLaws, ZenonT(60)
    <3> HIDE DEF u
    <3>3. Len(u) < Len(t) /\ ~Holds(u, a)
      <4>1. Holds(u, a) => Holds(t, a)
        BY <1>0, <3>1, HoldsInSuffix
      <4> QED BY <1>0, <1>1, <3>1, <4>1
    <3>4. Replace(Replace(u, p, a), a, p) = u
      BY <2>0, <3>1, <3>3
    <3> DEFINE r == Replace(u, p, a)
               w == a \o r
    <3>5. /\ w \in Texts /\ w # << >> /\ OccursAt(w, a, 1) /\ SubSeq(w, Len(a) + 1, Len(w)) = r
      <4>1. w \in Texts /\ Len(w) = Len(a) + Len(r) /\ Len(r) \in Nat /\ SubSeq(w, Len(a) + 1, Len(w)) = r
        BY <1>0, <3>2, Joined
      <4>2. OccursAt(w, a, 1)
        BY <1>0, <3>2, JoinStarts
      <4>3. w # << >>
        <5>1. Len(w) >= 1
          BY <1>0, <4>1
        <5> QED BY <5>1
      <4> QED BY <4>1, <4>2, <4>3
    <3> HIDE DEF r, w
    <3>6. Replace(w, a, p) = p \o Replace(r, a, p)
      BY <1>0, <3>5, ReplaceLaws, ZenonT(60)
    <3> QED BY <3>1, <3>2, <3>4, <3>6 DEF r, w
  <2>3. CASE t # << >> /\ ~OccursAt(t, p, 1)
    <3> DEFINE u == Tail(t)
               x == Head(t)
    <3>1. /\ u \in Texts /\ x \in Symbols /\ Len(u) < Len(t) /\ t = <<x>> \o u /\ <<x>> \in Texts /\ x = t[1]
          /\ Len(t) \in Nat /\ Len(u) = Len(t) - 1 /\ \A i \in 1..Len(t) - 1 : u[i] = t[i + 1]
      BY <2>3, HeadAndTail
    <3>2. Replace(t, p, a) = <<x>> \o Replace(u, p, a) /\ Replace(u, p, a) \in Texts
      <4>1. Replace(t, p, a) = << >> \o <<x>> \o Replace(u, p, a)
        BY <1>0, <2>3, ReplaceLaws, ZenonT(60) DEF Everywhere
      <4>2. Replace(u, p, a) \in Texts
        BY <1>0, <3>1, ReplaceLaws, Zenon
      <4>3. << >> \o <<x>> = <<x>>
        BY <3>1, NothingBefore
      <4> QED BY <4>1, <4>2, <4>3
    <3> HIDE DEF u, x
    <3>a. /\ u = << >> => Replace(u, p, a) = Everywhere(p, a)
          /\ u # << >> /\ p # << >> /\ OccursAt(u, p, 1) =>
               Replace(u, p, a) = a \o Replace(SubSeq(u, Len(p) + 1, Len(u)), p, a)
          /\ u # << >> /\ ~(p # << >> /\ OccursAt(u, p, 1)) =>
               Replace(u, p, a) = Everywhere(p, a) \o <<Head(u)>> \o Replace(Tail(u), p, a)
      <4>0. a \in Texts /\ u \in Texts
        BY <1>0, <3>1
      <4>1. u = << >> => Replace(u, p, a) = Everywhere(p, a)
        BY <4>0, ReplaceLaws, Zenon
      <4>2. u # << >> /\ p # << >> /\ OccursAt(u, p, 1) =>
               Replace(u, p, a) = a \o Replace(SubSeq(u, Len(p) + 1, Len(u)), p, a)
        BY <4>0, ReplaceLaws, ZenonT(60)
      <4>3. u # << >> /\ ~(p # << >> /\ OccursAt(u, p, 1)) =>
               Replace(u, p, a) = Everywhere(p, a) \o <<Head(u)>> \o Replace(Tail(u), p, a)
        BY <4>0, ReplaceLaws, ZenonT(60)
      <4> QED BY <4>1, <4>2, <4>3, Zenon
    <3>b. Everywhere(p, a) = << >> /\ Everywhere(a, p) = << >>
      BY <1>0 DEF Everywhere
    <3>3. ~Holds(u, a)
      <4>1. Holds(u, a) => Holds(t, a)
        BY <1>0, <3>1, HoldsInSuffix
      <4> QED BY <1>1, <4>1
    <3>4. Replace(Replace(u, p, a), a, p) = u
      BY <2>0, <3>1, <3>3
    <3> DEFINE r == Replace(u, p, a)
               w == <<x>> \o r
    <3>5. /\ w \in Texts /\ w # << >> /\ Head(w) = x /\ Tail(w) = r /\ w[1] = x /\ Len(w) = Len(r) + 1
          /\ \A i \in 1..Len(r) : w[i + 1] = r[i]
      BY <3>1, <3>2, OneBefore, Zenon
    <3>6. ~OccursAt(t, a, 1)
      <4>1. 1 \in 1..Len(t)
        BY <3>1, <2>3 DEF Texts
      <4> QED BY <1>1, <4>1 DEF Holds
    <3>7. r \in Texts /\ Len(r) \in Nat
      BY <3>2 DEF Texts
    <3>8. ~OccursAt(w, a, 1)
      <4>1. SUFFICES ASSUME OccursAt(w, a, 1) PROVE FALSE
        OBVIOUS
      <4>2. Len(a) <= Len(r) + 1 /\ a[1] = x
        <5> HIDE DEF w, r
        <5>1. 1 + Len(a) - 1 <= Len(w) /\ \A k \in 1..Len(a) : w[1 + k - 1] = a[k]
          BY <4>1 DEF OccursAt
        <5>2. w[1 + 1 - 1] = a[1] /\ 1 + 1 - 1 = 1
          BY <1>0, <5>1
        <5> QED BY <1>0, <3>5, <3>7, <5>1, <5>2
      <4>3. CASE Len(a) = 1
        <5>1. OccursAt(t, a, 1)
          <6>1. \A k \in 1..1 : k = 1 /\ 1 + k - 1 = 1
            OBVIOUS
          <6>2. 1 + 1 - 1 <= Len(t)
            BY <2>3, <3>1 DEF Texts
          <6> QED BY <3>1, <4>2, <4>3, <6>1, <6>2 DEF OccursAt
        <5> QED BY <3>6, <5>1
      <4>4. CASE Len(a) = 2 /\ a[1] # a[2]
        <5>1. Len(r) >= 1 /\ r[1] = a[2]
          <6> HIDE DEF w, r
          <6>1. \A k \in 1..2 : w[1 + k - 1] = a[k]
            BY <4>1, <4>4 DEF OccursAt
          <6>2. w[1 + 2 - 1] = a[2] /\ 1 + 2 - 1 = 1 + 1
            BY <6>1
          <6>3. Len(r) >= 1
            BY <4>2, <4>4, <3>7
          <6>4. w[1 + 1] = r[1]
            BY <3>5, <3>7, <6>3
          <6> QED BY <6>2, <6>3, <6>4
        <5>2. CASE u = << >>
          <6>1. r = << >>
            BY <3>a, <3>b, <5>2
          <6> QED BY <5>1, <6>1
        <5>3. CASE u # << >> /\ OccursAt(u, p, 1)
          <6>1. r = a \o Replace(SubSeq(u, Len(p) + 1, Len(u)), p, a)
            BY <3>a, <5>3
          <6>2. SubSeq(u, Len(p) + 1, Len(u)) \in Texts
            BY <3>1, <5>3, StartsWith
          <6>3. Replace(SubSeq(u, Len(p) + 1, Len(u)), p, a) \in Texts
            BY <1>0, <6>2, ReplaceLaws, Zenon
          <6>4. r[1] = a[1]
            <7> HIDE DEF r
            <7> QED BY <1>0, <6>1, <6>3, Joined
          <6> QED BY <4>4, <5>1, <6>4
        <5>4. CASE u # << >> /\ ~OccursAt(u, p, 1)
          <6>1. r = << >> \o <<Head(u)>> \o Replace(Tail(u), p, a)
            BY <3>a, <3>b, <5>4
          <6>2. Head(u) \in Symbols /\ Tail(u) \in Texts /\ Head(u) = u[1] /\ <<Head(u)>> \in Texts /\ Len(u) >= 1
            BY <3>1, <5>4, HeadAndTail
          <6>3. Replace(Tail(u), p, a) \in Texts
            BY <1>0, <6>2, ReplaceLaws, Zenon
          <6>4. r = <<Head(u)>> \o Replace(Tail(u), p, a)
            BY <6>1, <6>2, NothingBefore
          <6>5. r[1] = u[1]
            <7> HIDE DEF r
            <7> QED BY <6>2, <6>3, <6>4, OneBefore
          <6>6. u[1] = t[1 + 1] /\ 1 + 1 <= Len(t)
            BY <3>1, <6>2
          <6>7. \A k \in 1..2 : t[1 + k - 1] = a[k]
            <7>1. t[1] = a[1] /\ t[2] = a[2]
              BY <3>1, <4>2, <5>1, <6>5, <6>6
            <7> QED BY <7>1
          <6>8. OccursAt(t, a, 1)
            BY <3>1, <4>4, <6>6, <6>7 DEF OccursAt
          <6> QED BY <3>6, <6>8
        <5> QED BY <5>2, <5>3, <5>4
      <4> QED BY <4>3, <4>4 DEF Marker
    <3> HIDE DEF r, w
    <3>9. Replace(w, a, p) = <<x>> \o Replace(r, a, p)
      <4>1. Replace(w, a, p) = << >> \o <<x>> \o Replace(r, a, p)
        <5>1. w # << >> /\ ~(a # << >> /\ OccursAt(w, a, 1)) =>
               Replace(w, a, p) = Everywhere(a, p) \o <<Head(w)>> \o Replace(Tail(w), a, p)
          BY <1>0, <3>5, ReplaceLaws, ZenonT(60)
        <5> QED BY <3>5, <3>8, <3>b, <5>1, Zenon
      <4>2. << >> \o <<x>> = <<x>>
        BY <3>1, NothingBefore
      <4> QED BY <4>1, <4>2
    <3> QED BY <3>1, <3>2, <3>4, <3>9, Zenon DEF r, w
  <2> QED BY <2>1, <2>2, <2>3
<1>2. \A t \in Texts : t \in P
  <2>1. \A t \in Texts : (\A u \in Texts : Len(u) < Len(t) => u \in P) => t \in P
    BY <1>1
  <2> HIDE DEF P
  <2> QED BY <2>1, ShorterFirst
<1> QED BY <1>2

(* What str::replace makes of a text: nothing of nothing, the substitute    *)
(* and what it makes of the rest, or a symbol and what it makes of the rest.*)
Replacing(t, p, a) ==
  \/ t = << >> /\ Replace(t, p, a) = << >>
  \/ \E u \in Texts : Len(u) < Len(t) /\ t = p \o u /\ Replace(t, p, a) = a \o Replace(u, p, a)
  \/ \E x \in Symbols, u \in Texts :
       Len(u) < Len(t) /\ t = <<x>> \o u /\ Replace(t, p, a) = <<x>> \o Replace(u, p, a)
LEMMA ReplaceCases ==
  ASSUME NEW p \in Texts, p # << >>, NEW a \in Texts, NEW t \in Texts
  PROVE  Replace(t, p, a) \in Texts /\ Replacing(t, p, a)
<1>0. Everywhere(p, a) = << >>
  BY DEF Everywhere
<1>1. CASE t = << >>
  <2>1. Replace(t, p, a) = Everywhere(p, a)
    BY <1>1, ReplaceLaws, ZenonT(60)
  <2>2. << >> \in Texts
    BY NothingBefore
  <2> QED BY <1>0, <1>1, <2>1, <2>2 DEF Replacing
<1>2. CASE t # << >> /\ OccursAt(t, p, 1)
  <2> DEFINE u == SubSeq(t, Len(p) + 1, Len(t))
  <2>1. u \in Texts /\ Len(u) = Len(t) - Len(p) /\ t = p \o u
    BY <1>2, StartsWith
  <2>2. Replace(t, p, a) = a \o Replace(u, p, a) /\ Replace(t, p, a) \in Texts
    BY <1>2, ReplaceLaws, Zenon
  <2>3. Len(p) \in Nat /\ Len(p) >= 1 /\ Len(t) \in Nat
    BY DEF Texts
  <2> HIDE DEF u
  <2>4. Len(u) < Len(t)
    BY <2>1, <2>3
  <2> QED BY <2>1, <2>2, <2>4, Zenon DEF Replacing
<1>3. CASE t # << >> /\ ~OccursAt(t, p, 1)
  <2>1. /\ Head(t) \in Symbols /\ Tail(t) \in Texts /\ <<Head(t)>> \in Texts /\ Len(Tail(t)) < Len(t)
        /\ t = <<Head(t)>> \o Tail(t)
    BY <1>3, HeadAndTail
  <2>2. Replace(t, p, a) \in Texts
    BY ReplaceLaws, Zenon
  <2>4. Replace(t, p, a) = Everywhere(p, a) \o <<Head(t)>> \o Replace(Tail(t), p, a)
    BY <1>3, ReplaceLaws, Zenon
  <2>3. << >> \o <<Head(t)>> = <<Head(t)>>
    BY <2>1, NothingBefore
  <2> QED BY <1>0, <2>1, <2>2, <2>3, <2>4, Zenon DEF Replacing
<1> QED BY <1>1, <1>2, <1>3

(* What is made of no text.                                                 *)
LEMMA ReplaceNothing ==
  ASSUME NEW p \in Texts, p # << >>, NEW a \in Texts
  PROVE  << >> \in Texts /\ Replace(<< >>, p, a) = << >>
<1>1. << >> \in Texts
  BY NothingBefore
<1>2. Replace(<< >>, p, a) = Everywhere(p, a)
  BY <1>1, ReplaceLaws, Zenon
<1> QED BY <1>1, <1>2 DEF Everywhere

(* Induction along str::replace.                                            *)
LEMMA ReplaceInduction ==
  ASSUME NEW p \in Texts, p # << >>, NEW a \in Texts, NEW P,
         << >> \in P,
         \A u \in Texts : u \in P /\ p \o u \in Texts /\ Replace(u, p, a) \in Texts
                          /\ Replace(p \o u, p, a) = a \o Replace(u, p, a) => p \o u \in P,
         \A x \in Symbols : \A u \in Texts :
            u \in P /\ <<x>> \o u \in Texts /\ Replace(u, p, a) \in Texts
            /\ Replace(<<x>> \o u, p, a) = <<x>> \o Replace(u, p, a) => <<x>> \o u \in P
  PROVE  \A t \in Texts : t \in P
<1>1. ASSUME NEW t \in Texts, \A u \in Texts : Len(u) < Len(t) => u \in P PROVE t \in P
  <2>1. CASE t = << >>
    BY <2>1
  <2>2. ASSUME NEW u \in Texts, Len(u) < Len(t), t = p \o u, Replace(t, p, a) = a \o Replace(u, p, a)
        PROVE  t \in P
    <3>1. u \in P /\ Replace(u, p, a) \in Texts
      BY <1>1, <2>2, ReplaceCases
    <3> QED BY <2>2, <3>1, Zenon
  <2>3. ASSUME NEW x \in Symbols, NEW u \in Texts, Len(u) < Len(t), t = <<x>> \o u,
               Replace(t, p, a) = <<x>> \o Replace(u, p, a)
        PROVE  t \in P
    <3>1. u \in P /\ Replace(u, p, a) \in Texts
      BY <1>1, <2>3, ReplaceCases
    <3> QED BY <2>3, <3>1, Zenon
  <2>4. \/ t = << >> /\ Replace(t, p, a) = << >>
        \/ \E u \in Texts : Len(u) < Len(t) /\ t = p \o u /\ Replace(t, p, a) = a \o Replace(u, p, a)
        \/ \E x \in Symbols, u \in Texts :
             Len(u) < Len(t) /\ t = <<x>> \o u /\ Replace(t, p, a) = <<x>> \o Replace(u, p, a)
    <3>1. Replacing(t, p, a)
      BY ReplaceCases
    <3> QED BY <3>1, Zenon DEF Replacing
  <2> QED BY <2>1, <2>2, <2>3, <2>4, Zenon
<1> QED BY <1>1, ShorterFirst

-----------------------------------------------------------------------------
(* Markers that are in no text yet. *)

SymbolsOf(t) == {t[i] : i \in 1..Len(t)}

LEMMA SymbolsOfJoin ==
  ASSUME NEW s \in Texts, NEW t \in Texts
  PROVE  SymbolsOf(s \o t) = SymbolsOf(s) \cup SymbolsOf(t)
<1>1. /\ Len(s \o t) = Len(s) + Len(t) /\ Len(s) \in Nat /\ Len(t) \in Nat
      /\ \A i \in 1..Len(s) : (s \o t)[i] = s[i]
      /\ \A i \in 1..Len(t) : (s \o t)[Len(s) + i] = t[i]
  BY Joined
<1> DEFINE w == s \o t
<1> HIDE DEF w
<1>2. ASSUME NEW i \in 1..Len(w) PROVE w[i] \in SymbolsOf(s) \cup SymbolsOf(t)
  <2>1. i \in 1..Len(s) \/ (i - Len(s) \in 1..Len(t) /\ Len(s) + (i - Len(s)) = i)
    BY <1>1 DEF w
  <2> QED BY <1>1, <2>1 DEF SymbolsOf, w
<1>3. ASSUME NEW i \in 1..Len(s) PROVE s[i] \in SymbolsOf(w)
  <2>1. i \in 1..Len(w)
    BY <1>1 DEF w
  <2> QED BY <1>1, <2>1 DEF SymbolsOf, w
<1>4. ASSUME NEW i \in 1..Len(t) PROVE t[i] \in SymbolsOf(w)
  <2>1. Len(s) + i \in 1..Len(w)
    BY <1>1 DEF w
  <2> QED BY <1>1, <2>1, Zenon DEF SymbolsOf, w
<1>5. SymbolsOf(w) = SymbolsOf(s) \cup SymbolsOf(t)
  BY <1>2, <1>3, <1>4 DEF SymbolsOf
<1> QED BY <1>5 DEF w

(* str::replace brings in no symbols but those of the substitute.           *)
LEMMA ReplaceSymbols ==
  ASSUME NEW p \in Texts, p # << >>, NEW a \in Texts, NEW t \in Texts
  PROVE  SymbolsOf(Replace(t, p, a)) \subseteq SymbolsOf(t) \cup SymbolsOf(a)
<1> DEFINE P == {u \in Texts : SymbolsOf(Replace(u, p, a)) \subseteq SymbolsOf(u) \cup SymbolsOf(a)}
<1>1. << >> \in P
  <2>1. Replace(<< >>, p, a) = << >> /\ << >> \in Texts
    BY ReplaceNothing
  <2> QED BY <2>1 DEF SymbolsOf
<1>2. ASSUME NEW u \in Texts, u \in P, p \o u \in Texts, Replace(u, p, a) \in Texts,
             Replace(p \o u, p, a) = a \o Replace(u, p, a)
      PROVE  p \o u \in P
  <2>1. SymbolsOf(p \o u) = SymbolsOf(p) \cup SymbolsOf(u)
    BY SymbolsOfJoin
  <2>2. SymbolsOf(a \o Replace(u, p, a)) = SymbolsOf(a) \cup SymbolsOf(Replace(u, p, a))
    BY <1>2, SymbolsOfJoin
  <2> QED BY <1>2, <2>1, <2>2, Zenon
<1>3. ASSUME NEW x \in Symbols, NEW u \in Texts, u \in P, <<x>> \o u \in Texts, Replace(u, p, a) \in Texts,
             Replace(<<x>> \o u, p, a) = <<x>> \o Replace(u, p, a)
      PROVE  <<x>> \o u \in P
  <2>1. <<x>> \in Texts
    BY Single DEF Texts
  <2> QED BY <1>3, <2>1, SymbolsOfJoin, ZenonT(60)
<1>4. \A u \in Texts : u \in P
  <2> HIDE DEF P
  <2> QED BY <1>1, <1>2, <1>3, ReplaceInduction, Zenon
<1> QED BY <1>4

(* Every s in the text that is not its end is followed by one of F.         *)
FollowedBy(t, s, F) == \A i \in 1..Len(t) - 1 : t[i] = s => t[i + 1] \in F

LEMMA FollowedByJoin ==
  ASSUME NEW s, NEW F, NEW x \in Texts, NEW y \in Texts, x # << >>,
         FollowedBy(x, s, F), FollowedBy(y, s, F),
         y # << >> /\ x[Len(x)] = s => y[1] \in F
  PROVE  FollowedBy(x \o y, s, F) /\ (x \o y)[1] = x[1]
<1> DEFINE w == x \o y
<1>1. /\ Len(w) = Len(x) + Len(y) /\ Len(x) \in Nat /\ Len(y) \in Nat /\ Len(x) >= 1
      /\ \A i \in 1..Len(x) : w[i] = x[i]
      /\ \A i \in 1..Len(y) : w[Len(x) + i] = y[i]
  BY Joined DEF Texts
<1> HIDE DEF w
<1>2. ASSUME NEW i \in 1..Len(w) - 1, w[i] = s PROVE w[i + 1] \in F
  <2>0. i \in Nat
    BY <1>1
  <2>1. CASE i < Len(x)
    <3>1. i \in 1..Len(x) - 1 /\ i \in 1..Len(x) /\ i + 1 \in 1..Len(x)
      BY <1>1, <2>1
    <3> QED BY <1>1, <1>2, <3>1 DEF FollowedBy
  <2>2. CASE i = Len(x)
    <3>1. Len(y) >= 1 /\ 1 \in 1..Len(y) /\ i \in 1..Len(x)
      BY <1>1, <2>2
    <3>2. w[Len(x) + 1] = y[1] /\ w[i] = x[i]
      BY <1>1, <3>1
    <3>3. y # << >>
      BY <3>1
    <3> QED BY <1>2, <2>2, <3>2, <3>3
  <2>3. CASE i > Len(x)
    <3>0. i - Len(x) \in Nat
      BY <1>1, <2>0, <2>3
    <3>1. PICK j \in Nat : j = i - Len(x)
      BY <3>0
    <3>2. j \in 1..Len(y) - 1 /\ j \in 1..Len(y) /\ j + 1 \in 1..Len(y) /\ Len(x) + j = i /\ Len(x) + (j + 1) = i + 1
      BY <1>1, <2>3, <3>1
    <3>3. w[i] = y[j] /\ w[i + 1] = y[j + 1]
      BY <1>1, <3>2
    <3> QED BY <1>2, <3>2, <3>3 DEF FollowedBy
  <2> QED BY <1>1, <2>0, <2>1, <2>2, <2>3
<1>3. 1 \in 1..Len(x)
  BY <1>1
<1> QED BY <1>1, <1>2, <1>3 DEF FollowedBy, w

(* str::replace puts nothing new behind an s but the start of a substitute. *)
LEMMA ReplaceFollows ==
  ASSUME NEW p \in Texts, p # << >>, NEW a \in Texts, a # << >>, NEW s, NEW F,
         FollowedBy(a, s, F), a[1] \in F, a[Len(a)] # s,
         NEW t \in Texts, FollowedBy(t, s, F)
  PROVE  FollowedBy(Replace(t, p, a), s, F)
<1> DEFINE R(u) == Replace(u, p, a)
           P == {u \in Texts : FollowedBy(u, s, F) =>
                   /\ FollowedBy(R(u), s, F)
                   /\ R(u) # << >> => u # << >> /\ R(u)[1] \in {u[1], a[1]}}
<1>0. Len(a) \in Nat /\ Len(a) >= 1 /\ Len(p) \in Nat /\ Len(p) >= 1
  BY DEF Texts
<1>1. << >> \in P
  <2>1. Replace(<< >>, p, a) = << >> /\ << >> \in Texts
    BY ReplaceNothing
  <2> QED BY <2>1 DEF FollowedBy
<1>2. ASSUME NEW u \in Texts, u \in P, p \o u \in Texts, R(u) \in Texts, R(p \o u) = a \o R(u)
      PROVE  p \o u \in P
  <2>1. FollowedBy(p \o u, s, F) => FollowedBy(u, s, F)
    <3>1. /\ Len(p \o u) = Len(p) + Len(u) /\ Len(p) \in Nat /\ Len(u) \in Nat
          /\ \A i \in 1..Len(u) : (p \o u)[Len(p) + i] = u[i]
      BY Joined
    <3>2. ASSUME FollowedBy(p \o u, s, F), NEW i \in 1..Len(u) - 1, u[i] = s PROVE u[i + 1] \in F
      <4>1. /\ Len(p) + i \in 1..Len(p \o u) - 1 /\ i \in 1..Len(u) /\ i + 1 \in 1..Len(u)
            /\ (Len(p) + i) + 1 = Len(p) + (i + 1)
        BY <3>1
      <4>2. (p \o u)[Len(p) + i] = u[i] /\ (p \o u)[(Len(p) + i) + 1] = u[i + 1]
        BY <3>1, <4>1
      <4> QED BY <3>2, <4>1, <4>2, Zenon DEF FollowedBy
    <3> QED BY <3>2, Zenon DEF FollowedBy
  <2>2. ASSUME FollowedBy(p \o u, s, F) PROVE FollowedBy(a \o R(u), s, F) /\ (a \o R(u))[1] = a[1]
    <3>1. FollowedBy(R(u), s, F)
      BY <1>2, <2>1, <2>2
    <3> HIDE DEF R, P
    <3> QED BY <1>2, <3>1, FollowedByJoin
  <2>3. p \o u # << >>
    <3>1. Len(p \o u) >= 1
      <4>1. Len(p \o u) = Len(p) + Len(u) /\ Len(u) \in Nat
        BY Joined
      <4> QED BY <1>0, <4>1
    <3> QED BY <3>1
  <2> QED BY <1>2, <2>2, <2>3, Zenon
<1>3. ASSUME NEW x \in Symbols, NEW u \in Texts, u \in P, <<x>> \o u \in Texts, R(u) \in Texts,
             R(<<x>> \o u) = <<x>> \o R(u)
      PROVE  <<x>> \o u \in P
  <2>0. <<x>> \in Texts /\ Len(<<x>>) = 1 /\ <<x>>[1] = x /\ <<x>> # << >>
    <3>1. <<x>> \in Texts /\ Len(<<x>>) = 1 /\ <<x>>[1] = x
      BY Single DEF Texts
    <3> QED BY <3>1
  <2>1. /\ Len(<<x>> \o u) = Len(u) + 1 /\ Len(u) \in Nat /\ (<<x>> \o u)[1] = x /\ <<x>> \o u # << >>
        /\ \A i \in 1..Len(u) : (<<x>> \o u)[i + 1] = u[i]
    BY OneBefore DEF Texts
  <2>2. ASSUME FollowedBy(<<x>> \o u, s, F)
        PROVE  FollowedBy(u, s, F) /\ (u # << >> /\ x = s => u[1] \in F)
    <3>1. ASSUME NEW i \in 1..Len(u) - 1, u[i] = s PROVE u[i + 1] \in F
      <4>1. i + 1 \in 1..Len(<<x>> \o u) - 1 /\ i \in 1..Len(u) /\ i + 1 \in 1..Len(u)
        BY <2>1
      <4>2. (<<x>> \o u)[i + 1] = u[i] /\ (<<x>> \o u)[(i + 1) + 1] = u[i + 1]
        BY <2>1, <4>1
      <4> QED BY <2>2, <3>1, <4>1, <4>2 DEF FollowedBy
    <3>2. ASSUME u # << >>, x = s PROVE u[1] \in F
      <4>1. Len(u) >= 1
        BY <3>2 DEF Texts
      <4>2. 1 \in 1..Len(<<x>> \o u) - 1 /\ 1 \in 1..Len(u)
        BY <2>1, <4>1
      <4>3. (<<x>> \o u)[1 + 1] = u[1]
        BY <2>1, <4>2
      <4> QED BY <2>1, <2>2, <3>2, <4>2, <4>3 DEF FollowedBy
    <3> QED BY <3>1, <3>2 DEF FollowedBy
  <2>3. ASSUME FollowedBy(<<x>> \o u, s, F)
        PROVE  FollowedBy(<<x>> \o R(u), s, F) /\ (<<x>> \o R(u))[1] = x
    <3>1. FollowedBy(R(u), s, F) /\ (R(u) # << >> => u # << >> /\ R(u)[1] \in {u[1], a[1]})
      BY <1>3, <2>2, <2>3
    <3>2. R(u) # << >> /\ <<x>>[Len(<<x>>)] = s => R(u)[1] \in F
      BY <2>0, <2>2, <2>3, <3>1
    <3>3. FollowedBy(<<x>>, s, F)
      BY <2>0 DEF FollowedBy
    <3> HIDE DEF R, P
    <3> QED BY <1>3, <2>0, <3>1, <3>2, <3>3, FollowedByJoin, ZenonT(60)
  <2> QED BY <1>3, <2>1, <2>3, Zenon
<1>4. \A u \in Texts : u \in P
  <2> HIDE DEF P
  <2> QED BY <1>1, <1>2, <1>3, ReplaceInduction, Zenon
<1> QED BY <1>4

-----------------------------------------------------------------------------
(* The dictionary: commits one after the other, undone from the last. *)

(* What holds at first and goes on holding holds up to any number.          *)
LEMMA Climbs ==
  ASSUME NEW hi \in Nat, NEW P, 0 \in P, \A n \in 1..hi : n - 1 \in P => n \in P
  PROVE  \A n \in 0..hi : n \in P
<1> DEFINE Missing == {n \in 0..hi : n \notin P}
<1>1. ASSUME Missing # {} PROVE FALSE
  <2>1. Missing \subseteq Nat
    OBVIOUS
  <2>2. PICK n \in Missing : \A m \in Missing : n <= m
    <3> HIDE DEF Missing
    <3> QED BY <1>1, <2>1, NatHasMinimum, Zenon
  <2>3. n \in 1..hi /\ n - 1 \in 0..hi
    BY <2>2
  <2>4. n - 1 \in P
    BY <2>2, <2>3
  <2> QED BY <2>2, <2>3, <2>4
<1> QED BY <1>1

(* A value computed step by step exists.                                    *)
StepRules(hi, V) == [(1..hi) \X V -> V]
StepRuns(hi, V) == [0..hi -> V]
StepsBy(f, hi, base, G) == f[0] = base /\ \A n \in 1..hi : f[n] = G[<<n, f[n - 1]>>]
LEMMA StepsExist ==
  ASSUME NEW hi \in Nat, NEW V, NEW base \in V, NEW G \in StepRules(hi, V)
  PROVE  \E f \in StepRuns(hi, V) : StepsBy(f, hi, base, G)
<1> USE DEF StepRules, StepRuns, StepsBy
<1> DEFINE D == 0..hi
           m == [n \in D |-> n]
           R == [x \in D \X [D -> V] |-> IF x[1] = 0 THEN base ELSE G[<<x[1], x[2][x[1] - 1]>>]]
<1>1. m \in [D -> Nat] /\ \A n \in D : m[n] = n
  OBVIOUS
<1>2. ASSUME NEW n \in D, n # 0 PROVE n \in 1..hi /\ n - 1 \in D /\ n - 1 < n
  BY <1>2
<1>3. ASSUME NEW n \in D, NEW f \in [D -> V]
      PROVE  (IF n = 0 THEN base ELSE G[<<n, f[n - 1]>>]) \in V
  <2>1. CASE n # 0
    <3>1. f[n - 1] \in V /\ n \in 1..hi
      BY <1>2, <2>1
    <3>2. <<n, f[n - 1]>> \in (1..hi) \X V
      BY <3>1
    <3> HIDE DEF D
    <3> QED BY <2>1, <3>2
  <2> QED BY <2>1
<1>4. /\ R \in [D \X [D -> V] -> V]
      /\ \A n \in D : \A f \in [D -> V] : R[<<n, f>>] = IF n = 0 THEN base ELSE G[<<n, f[n - 1]>>]
  <2> HIDE DEF D, m
  <2> QED BY <1>3, Zenon
<1>5. Local(R, m, D, V)
  <2> HIDE DEF R, m
  <2> SUFFICES ASSUME NEW n \in D, NEW g \in [D -> V], NEW h \in [D -> V],
                      \A k \in D : m[k] < m[n] => g[k] = h[k]
               PROVE  R[<<n, g>>] = R[<<n, h>>]
    BY Zenon DEF Local
  <2>1. n # 0 => g[n - 1] = h[n - 1]
    BY <1>1, <1>2
  <2> HIDE DEF D
  <2> QED BY <1>4, <2>1, ZenonT(60)
<1>6. PICK f \in [D -> V] : Ruled(f, D, R)
  <2> HIDE DEF R, m, D
  <2> QED BY <1>1, <1>4, <1>5, RecursionExists, Zenon
<1>7. \A n \in D : f[n] = IF n = 0 THEN base ELSE G[<<n, f[n - 1]>>]
  <2> HIDE DEF R, m, D
  <2> QED BY <1>4, <1>6, Zenon DEF Ruled
<1>8. 0 \in D /\ \A n \in 1..hi : n \in D /\ n # 0
  OBVIOUS
<1> QED BY <1>7, <1>8, Zenon

(* The texts between the commits.                                           *)
Dictionaries == Seq(Texts \X Texts)
CommitsBy(f, t, es) ==
  /\ f \in [0..Len(es) -> Texts] /\ f[0] = t
  /\ \A n \in 1..Len(es) : f[n] = Replace(f[n - 1], es[n][2], es[n][1])

LEMMA EntriesAreTexts ==
  ASSUME NEW es \in Dictionaries
  PROVE  Len(es) \in Nat /\ \A n \in 1..Len(es) : es[n][1] \in Texts /\ es[n][2] \in Texts
BY DEF Dictionaries

LEMMA CommitSteps ==
  ASSUME NEW t \in Texts, NEW es \in Dictionaries
  PROVE  \E f : CommitsBy(f, t, es) /\ f[Len(es)] = CommitAll(t, es)
<1> DEFINE hi == Len(es)
           G == [x \in (1..hi) \X Texts |-> Replace(x[2], es[x[1]][2], es[x[1]][1])]
           IsIt(h) == h = [n \in 0..Len(es) |-> IF n = 0 THEN t ELSE Replace(h[n - 1], es[n][2], es[n][1])]
           f == CHOOSE h : IsIt(h)
<1>1. hi \in Nat /\ \A n \in 1..hi : es[n][1] \in Texts /\ es[n][2] \in Texts
  BY EntriesAreTexts
<1> HIDE DEF hi
<1>2. \A n \in 1..hi : \A u \in Texts : Replace(u, es[n][2], es[n][1]) \in Texts
  BY <1>1, ReplaceLaws, Zenon
<1>3. G \in [(1..hi) \X Texts -> Texts]
  BY <1>2
<1>4. \A n \in 1..hi : \A u \in Texts : G[<<n, u>>] = Replace(u, es[n][2], es[n][1])
  OBVIOUS
<1>5. PICK h \in [0..hi -> Texts] : h[0] = t /\ \A n \in 1..hi : h[n] = G[<<n, h[n - 1]>>]
  <2> HIDE DEF G
  <2>1. PICK h \in StepRuns(hi, Texts) : StepsBy(h, hi, t, G)
    BY <1>1, <1>3, StepsExist DEF StepRules
  <2> QED BY <2>1, Zenon DEF StepRuns, StepsBy
<1>6. \A n \in 1..hi : n - 1 \in 0..hi
  BY <1>1
<1>7. \A n \in 1..hi : h[n] = Replace(h[n - 1], es[n][2], es[n][1])
  <2> HIDE DEF G
  <2> QED BY <1>4, <1>5, <1>6, Zenon
<1>8. IsIt(h)
  <2>1. \A n \in 0..hi : h[n] = IF n = 0 THEN t ELSE Replace(h[n - 1], es[n][2], es[n][1])
    <3>1. \A n \in 0..hi : n # 0 => n \in 1..hi
      BY <1>1
    <3> QED BY <1>5, <1>7, <3>1
  <2> QED BY <1>5, <2>1 DEF hi
<1>9. IsIt(f)
  BY <1>8, Zenon
<1>10. f[Len(es)] = CommitAll(t, es)
  BY DEF CommitAll
<1>11. PICK k : k = f
  OBVIOUS
<1>12. k = [n \in 0..hi |-> IF n = 0 THEN t ELSE Replace(k[n - 1], es[n][2], es[n][1])]
  BY <1>9, <1>11, Zenon DEF hi
<1> HIDE DEF f, IsIt, G
<1>13. k[0] = h[0] /\ \A n \in 1..hi : k[n - 1] = h[n - 1] => k[n] = h[n]
  <2>1. \A n \in 0..hi : k[n] = IF n = 0 THEN t ELSE Replace(k[n - 1], es[n][2], es[n][1])
    BY <1>12, Zenon
  <2>2. 0 \in 0..hi /\ \A n \in 1..hi : n \in 0..hi /\ n # 0
    BY <1>1
  <2> QED BY <1>5, <1>7, <2>1, <2>2
<1>14. \A n \in 0..hi : k[n] = h[n]
  <2> DEFINE P == {n \in 0..hi : k[n] = h[n]}
  <2>1. 0 \in P /\ \A n \in 1..hi : n - 1 \in P => n \in P
    BY <1>1, <1>13
  <2>2. \A n \in 0..hi : n \in P
    <3> HIDE DEF P
    <3> QED BY <1>1, <2>1, Climbs, Zenon
  <2> QED BY <2>2
<1>15. hi \in 0..hi
  BY <1>1
<1> QED BY <1>5, <1>7, <1>10, <1>11, <1>14, <1>15 DEF CommitsBy, hi

(* The text after the first n commits is what they make on their own.       *)
LEMMA CommitsOfPrefix ==
  ASSUME NEW t \in Texts, NEW es \in Dictionaries, NEW f, CommitsBy(f, t, es), NEW n \in 0..Len(es)
  PROVE  SubSeq(es, 1, n) \in Dictionaries /\ f[n] = CommitAll(t, SubSeq(es, 1, n))
<1> DEFINE pre == SubSeq(es, 1, n)
<1>1. /\ pre \in Dictionaries /\ Len(pre) = n /\ Len(es) \in Nat /\ n \in Nat
      /\ \A i \in 1..n : pre[i] = es[i]
  BY DEF Dictionaries
<1> HIDE DEF pre
<1>2. PICK g : CommitsBy(g, t, pre) /\ g[n] = CommitAll(t, pre)
  BY <1>1, CommitSteps
<1>3. f[0] = g[0] /\ \A i \in 1..n : f[i - 1] = g[i - 1] => f[i] = g[i]
  <2>1. \A i \in 1..n : i \in 1..Len(es)
    BY <1>1
  <2> QED BY <1>1, <1>2, <2>1 DEF CommitsBy
<1>4. \A i \in 0..n : f[i] = g[i]
  <2> DEFINE P == {i \in 0..n : f[i] = g[i]}
  <2>1. 0 \in P /\ \A i \in 1..n : i - 1 \in P => i \in P
    BY <1>1, <1>3
  <2>2. \A i \in 0..n : i \in P
    <3> HIDE DEF P
    <3> QED BY <1>1, <2>1, Climbs, Zenon
  <2> QED BY <2>2
<1>5. n \in 0..n
  BY <1>1
<1> QED BY <1>1, <1>2, <1>4, <1>5 DEF pre

LEMMA CommitOne ==
  ASSUME NEW t \in Texts, NEW es \in Dictionaries, NEW a \in Texts, NEW p \in Texts
  PROVE  /\ CommitAll(t, es) \in Texts /\ CommitAll(t, << >>) = t
         /\ Append(es, <<a, p>>) \in Dictionaries
         /\ CommitAll(t, Append(es, <<a, p>>)) = Replace(CommitAll(t, es), p, a)
<1> DEFINE more == Append(es, <<a, p>>)
<1>1. /\ more \in Dictionaries /\ Len(more) = Len(es) + 1 /\ Len(es) \in Nat
      /\ more[Len(es) + 1] = <<a, p>> /\ SubSeq(more, 1, Len(es)) = es
  <2>1. <<a, p>> \in Texts \X Texts
    OBVIOUS
  <2>2. more \in Dictionaries /\ Len(more) = Len(es) + 1 /\ Len(es) \in Nat /\ more[Len(es) + 1] = <<a, p>>
    BY <2>1, AppendProperties DEF Dictionaries
  <2>3. SubSeq(more, 1, Len(es)) = es
    BY <2>1 DEF Dictionaries
  <2> QED BY <2>2, <2>3
<1> HIDE DEF more
<1>2. PICK f : CommitsBy(f, t, more) /\ f[Len(more)] = CommitAll(t, more)
  BY <1>1, CommitSteps
<1>3. f[Len(es)] = CommitAll(t, es)
  <2>1. Len(es) \in 0..Len(more)
    BY <1>1
  <2>2. f[Len(es)] = CommitAll(t, SubSeq(more, 1, Len(es)))
    BY <1>1, <1>2, <2>1, CommitsOfPrefix
  <2> QED BY <1>1, <2>2, Zenon
<1>4. f[Len(es) + 1] = Replace(f[Len(es)], p, a)
  <2>1. Len(es) + 1 \in 1..Len(more) /\ (Len(es) + 1) - 1 = Len(es)
    BY <1>1
  <2>2. f[Len(es) + 1] = Replace(f[(Len(es) + 1) - 1], more[Len(es) + 1][2], more[Len(es) + 1][1])
    BY <1>2, <2>1 DEF CommitsBy
  <2> QED BY <1>1, <2>1, <2>2
<1>5. CommitAll(t, es) \in Texts
  <2>1. Len(es) \in 0..Len(more)
    BY <1>1
  <2> QED BY <1>2, <1>3, <2>1 DEF CommitsBy
<1>6. CommitAll(t, << >>) = t
  <2>1. << >> \in Dictionaries /\ Len(<< >>) = 0
    BY DEF Dictionaries
  <2>2. PICK g : CommitsBy(g, t, << >>) /\ g[Len(<< >>)] = CommitAll(t, << >>)
    BY <2>1, CommitSteps
  <2> QED BY <2>1, <2>2 DEF CommitsBy
<1> QED BY <1>1, <1>2, <1>3, <1>4, <1>5, <1>6 DEF more

(* Each alias is a marker that the text it is committed to does not hold.   *)
Fresh(t, es) ==
  \A n \in 1..Len(es) : /\ Marker(es[n][1]) /\ es[n][2] # << >>
                        /\ ~Holds(CommitAll(t, SubSeq(es, 1, n - 1)), es[n][1])

(* mine.rs decode undoes mine.rs encode: what was committed one entry after *)
(* the other is expanded from the last to the first.                        *)
LEMMA ExpandInverts ==
  ASSUME NEW t \in Texts, NEW es \in Dictionaries, Fresh(t, es)
  PROVE  ExpandAll(CommitAll(t, es), es) = t
<1> DEFINE hi == Len(es)
<1>1. hi \in Nat /\ \A n \in 1..hi : es[n][1] \in Texts /\ es[n][2] \in Texts
  BY EntriesAreTexts
<1>2. PICK f : CommitsBy(f, t, es) /\ f[hi] = CommitAll(t, es)
  BY CommitSteps
<1>3. PICK body : body = CommitAll(t, es)
  OBVIOUS
<1> DEFINE IsIt(h) == h = [n \in 0..Len(es) |->
                             IF n = 0 THEN body
                             ELSE Replace(h[n - 1], es[Len(es) + 1 - n][1], es[Len(es) + 1 - n][2])]
           g == CHOOSE h : IsIt(h)
           back == [n \in 0..hi |-> f[hi - n]]
<1>4. g[Len(es)] = ExpandAll(body, es)
  BY DEF ExpandAll
<1>5. ASSUME NEW n \in 1..hi PROVE Replace(f[n], es[n][1], es[n][2]) = f[n - 1]
  <2>1. n - 1 \in 0..hi /\ n \in 0..hi
    BY <1>1
  <2>2. f[n - 1] = CommitAll(t, SubSeq(es, 1, n - 1)) /\ f[n - 1] \in Texts
    BY <1>2, <2>1, CommitsOfPrefix, Zenon DEF CommitsBy
  <2>3. Marker(es[n][1]) /\ es[n][2] # << >> /\ ~Holds(f[n - 1], es[n][1])
    BY <2>2 DEF Fresh
  <2>4. f[n] = Replace(f[n - 1], es[n][2], es[n][1])
    BY <1>2 DEF CommitsBy
  <2>5. es[n][2] \in Texts
    BY <1>1
  <2> QED BY <2>2, <2>3, <2>4, <2>5, ReplaceInverts
<1>6. IsIt(back)
  <2>1. ASSUME NEW n \in 1..hi
        PROVE  Replace(f[hi - (n - 1)], es[hi + 1 - n][1], es[hi + 1 - n][2]) = f[hi - n]
    <3>1. PICK m : m = hi + 1 - n
      OBVIOUS
    <3>2. m \in 1..hi /\ hi - (n - 1) = m /\ hi - n = m - 1
      BY <1>1, <3>1
    <3>3. Replace(f[m], es[m][1], es[m][2]) = f[m - 1]
      BY <1>5, <3>2
    <3> QED BY <3>1, <3>2, <3>3
  <2>2. \A n \in 1..hi : n - 1 \in 0..hi
    BY <1>1
  <2>3. \A n \in 0..hi : n # 0 => n \in 1..hi
    BY <1>1
  <2>4. 0 \in 0..hi /\ hi - 0 = hi
    BY <1>1
  <2>5. \A n \in 0..hi : back[n] = IF n = 0 THEN body ELSE Replace(back[n - 1], es[hi + 1 - n][1], es[hi + 1 - n][2])
    <3> HIDE DEF hi
    <3>1. back[0] = body
      BY <1>2, <1>3, <2>4
    <3>2. ASSUME NEW n \in 1..hi
          PROVE  back[n] = Replace(back[n - 1], es[hi + 1 - n][1], es[hi + 1 - n][2])
      <4>1. n \in 0..hi
        BY <1>1
      <4> QED BY <2>1, <2>2, <4>1
    <3> HIDE DEF back
    <3> QED BY <2>3, <3>1, <3>2
  <2> QED BY <2>5, Zenon
<1>7. IsIt(g)
  BY <1>6, Zenon
<1>8. PICK k : k = g
  OBVIOUS
<1>9. k = [n \in 0..hi |-> IF n = 0 THEN body ELSE Replace(k[n - 1], es[hi + 1 - n][1], es[hi + 1 - n][2])]
  BY <1>7, <1>8, Zenon
<1>10. back = [n \in 0..hi |-> IF n = 0 THEN body ELSE Replace(back[n - 1], es[hi + 1 - n][1], es[hi + 1 - n][2])]
  BY <1>6, Zenon
<1>11. 0 \in 0..hi /\ hi \in 0..hi /\ hi - hi = 0 /\ \A n \in 1..hi : n \in 0..hi /\ n # 0
  BY <1>1
<1>12. back[hi] = t
  BY <1>2, <1>11 DEF CommitsBy
<1>13. PICK b : b = back
  BY Zenon
<1> HIDE DEF g, IsIt, hi, back
<1>14. k[0] = b[0] /\ \A n \in 1..hi : k[n - 1] = b[n - 1] => k[n] = b[n]
  <2>1. \A n \in 0..hi : k[n] = IF n = 0 THEN body ELSE Replace(k[n - 1], es[hi + 1 - n][1], es[hi + 1 - n][2])
    BY <1>9, Zenon
  <2>2. \A n \in 0..hi : b[n] = IF n = 0 THEN body ELSE Replace(b[n - 1], es[hi + 1 - n][1], es[hi + 1 - n][2])
    BY <1>10, <1>13, Zenon
  <2> QED BY <1>11, <2>1, <2>2
<1>15. \A n \in 0..hi : k[n] = b[n]
  <2> DEFINE P == {n \in 0..hi : k[n] = b[n]}
  <2>1. 0 \in P /\ \A n \in 1..hi : n - 1 \in P => n \in P
    BY <1>11, <1>14
  <2>2. \A n \in 0..hi : n \in P
    <3> HIDE DEF P
    <3> QED BY <1>1, <2>1, Climbs
  <2> QED BY <2>2
<1> QED BY <1>3, <1>4, <1>8, <1>11, <1>12, <1>13, <1>15 DEF hi

-----------------------------------------------------------------------------
(* Finding and cutting. *)

LEMMA JoinAgain ==
  ASSUME NEW s \in Texts, NEW t \in Texts, NEW u \in Texts
  PROVE  (s \o t) \o u = s \o (t \o u)
BY ConcatAssociative DEF Texts

LEMMA Nothing == << >> \in Texts /\ << >> \in Seq(Texts)
BY DEF Texts

LEMMA Two ==
  ASSUME NEW S, NEW x \in S, NEW y \in S
  PROVE  <<x, y>> \in Seq(S) /\ Len(<<x, y>>) = 2 /\ <<x, y>>[1] = x /\ <<x, y>>[2] = y
OBVIOUS

LEMMA Three ==
  ASSUME NEW S, NEW x \in S, NEW y \in S, NEW z \in S
  PROVE  /\ <<x, y, z>> \in Seq(S) /\ Len(<<x, y, z>>) = 3
         /\ <<x, y, z>>[1] = x /\ <<x, y, z>>[2] = y /\ <<x, y, z>>[3] = z
OBVIOUS

LEMMA SameText ==
  ASSUME NEW s \in Texts, NEW t \in Texts, Len(s) = Len(t), \A i \in 1..Len(t) : s[i] = t[i]
  PROVE  s = t
BY DEF Texts

LEMMA FindLaw ==
  ASSUME NEW t \in Texts, NEW p, NEW from \in Nat \ {0}
  PROVE  /\ Find(t, p, from) = 0 => \A i \in from..Len(t) : ~OccursAt(t, p, i)
         /\ Find(t, p, from) # 0 => /\ Find(t, p, from) \in from..Len(t) /\ OccursAt(t, p, Find(t, p, from))
                                    /\ \A j \in from..Find(t, p, from) - 1 : ~OccursAt(t, p, j)
<1>0. Len(t) \in Nat
  BY DEF Texts
<1>1. CASE \A i \in from..Len(t) : ~OccursAt(t, p, i)
  BY <1>1 DEF Find
<1>2. CASE ~ \A i \in from..Len(t) : ~OccursAt(t, p, i)
  <2> DEFINE At == {i \in from..Len(t) : OccursAt(t, p, i)}
  <2>1. At # {} /\ At \subseteq Nat
    BY <1>0, <1>2
  <2>2. PICK i \in At : \A j \in At : i <= j
    <3> HIDE DEF At
    <3> QED BY <2>1, NatHasMinimum, Zenon
  <2>3. ASSUME NEW j \in from..i - 1 PROVE ~OccursAt(t, p, j)
    <3>1. j \in from..Len(t) /\ ~(i <= j)
      BY <1>0, <2>2
    <3> QED BY <2>2, <3>1
  <2>4. \E k \in from..Len(t) : OccursAt(t, p, k) /\ \A j \in from..k - 1 : ~OccursAt(t, p, j)
    BY <2>2, <2>3
  <2>5. Find(t, p, from) = CHOOSE k \in from..Len(t) : OccursAt(t, p, k) /\ \A j \in from..k - 1 : ~OccursAt(t, p, j)
    BY <1>2 DEF Find
  <2>6. /\ Find(t, p, from) \in from..Len(t) /\ OccursAt(t, p, Find(t, p, from))
        /\ \A j \in from..Find(t, p, from) - 1 : ~OccursAt(t, p, j)
    BY <2>4, <2>5, Zenon
  <2>7. Find(t, p, from) # 0
    BY <1>0, <2>6
  <2> QED BY <2>6, <2>7
<1> QED BY <1>1, <1>2

LEMMA FindsFirst ==
  ASSUME NEW t \in Texts, NEW p, Holds(t, p)
  PROVE  /\ Find(t, p, 1) \in 1..Len(t) /\ OccursAt(t, p, Find(t, p, 1))
         /\ \A j \in 1..Find(t, p, 1) - 1 : ~OccursAt(t, p, j)
<1>1. 1 \in Nat \ {0}
  OBVIOUS
<1>2. \E i \in 1..Len(t) : OccursAt(t, p, i)
  BY DEF Holds
<1> QED BY <1>1, <1>2, FindLaw

(* One symbol occurs where it stands.                                       *)
LEMMA OneOccurs ==
  ASSUME NEW t \in Texts, NEW s
  PROVE  /\ \A i \in 1..Len(t) : OccursAt(t, <<s>>, i) <=> t[i] = s
         /\ Holds(t, <<s>>) <=> \E i \in 1..Len(t) : t[i] = s
<1>1. Len(<<s>>) = 1 /\ <<s>>[1] = s /\ 1..1 = {1} /\ Len(t) \in Nat
  BY DEF Texts
<1>2. ASSUME NEW i \in 1..Len(t) PROVE OccursAt(t, <<s>>, i) <=> t[i] = s
  <2>1. i + 1 - 1 = i /\ i <= Len(t)
    BY <1>1
  <2> QED BY <1>1, <2>1 DEF OccursAt
<1> QED BY <1>2 DEF Holds

(* What is before the first separator and what is after it.                 *)
LEMMA Cut ==
  ASSUME NEW t \in Texts, NEW s \in Symbols
  PROVE  /\ Before(t, s) \in Texts /\ After(t, s) \in Texts
         /\ Len(Before(t, s)) <= Len(t) /\ (t # << >> => Len(After(t, s)) < Len(t))
         /\ ~Holds(Before(t, s), <<s>>)
         /\ Holds(t, <<s>>) => t = Before(t, s) \o (<<s>> \o After(t, s)) /\ Len(After(t, s)) < Len(t)
         /\ ~Holds(t, <<s>>) => Before(t, s) = t /\ After(t, s) = << >>
<1>0. Len(t) \in Nat /\ (t # << >> => Len(t) > 0) /\ << >> \in Texts /\ Len(<< >>) = 0
  BY DEF Texts
<1>1. CASE ~Holds(t, <<s>>)
  BY <1>0, <1>1 DEF Before, After
<1>2. CASE Holds(t, <<s>>)
  <2>1. PICK i : i = Find(t, <<s>>, 1)
    OBVIOUS
  <2>3. i \in 1..Len(t) /\ OccursAt(t, <<s>>, i) /\ \A j \in 1..i - 1 : ~OccursAt(t, <<s>>, j)
    BY <1>2, <2>1, FindsFirst
  <2>4. t[i] = s
    BY <2>3, OneOccurs
  <2>5. Before(t, s) = SubSeq(t, 1, i - 1) /\ After(t, s) = SubSeq(t, i + 1, Len(t))
    BY <1>2, <2>1, Zenon DEF Before, After
  <2>6. i \in 1..Len(t) + 1 /\ i + 1 \in 1..Len(t) + 1 /\ (i + 1) - 1 = i
    BY <1>0, <2>3
  <2>7. /\ SubSeq(t, 1, i - 1) \in Texts /\ Len(SubSeq(t, 1, i - 1)) = i - 1
        /\ \A k \in 1..i - 1 : SubSeq(t, 1, i - 1)[k] = t[k]
    BY <2>6, Suffix, Zenon
  <2>8. /\ SubSeq(t, i + 1, Len(t)) \in Texts /\ Len(SubSeq(t, i + 1, Len(t))) = Len(t) + 1 - (i + 1)
        /\ \A k \in 1..Len(t) + 1 - (i + 1) : SubSeq(t, i + 1, Len(t))[k] = t[(i + 1) + k - 1]
    BY <2>6, Suffix, Zenon
  <2>9. ~Holds(SubSeq(t, 1, i - 1), <<s>>)
    <3>1. ASSUME NEW j \in 1..i - 1, t[j] = s PROVE FALSE
      <4>1. j \in 1..Len(t)
        BY <1>0, <2>3
      <4> QED BY <2>3, <3>1, <4>1, OneOccurs
    <3>2. PICK b \in Texts : b = SubSeq(t, 1, i - 1)
      BY <2>7, Zenon
    <3>3. \A k \in 1..Len(b) : b[k] # s
      BY <2>7, <3>1, <3>2, Zenon
    <3>4. ~Holds(b, <<s>>)
      BY <3>3, OneOccurs
    <3> QED BY <3>2, <3>4
  <2>10. t = SubSeq(t, 1, i - 1) \o (<<s>> \o SubSeq(t, i + 1, Len(t)))
    <3> DEFINE y == SubSeq(t, i + 1, Len(t))
               x == SubSeq(t, 1, i - 1)
    <3>1. /\ <<s>> \o y \in Texts /\ (<<s>> \o y)[1] = s /\ Len(<<s>> \o y) = Len(y) + 1
          /\ \A k \in 1..Len(y) : (<<s>> \o y)[k + 1] = y[k]
      BY <2>8, OneBefore, Zenon
    <3> HIDE DEF x, y
    <3>2. /\ x \o (<<s>> \o y) \in Texts /\ Len(x \o (<<s>> \o y)) = Len(x) + Len(<<s>> \o y)
          /\ \A k \in 1..Len(x) : (x \o (<<s>> \o y))[k] = x[k]
          /\ \A k \in 1..Len(<<s>> \o y) : (x \o (<<s>> \o y))[Len(x) + k] = (<<s>> \o y)[k]
      BY <2>7, <3>1, Joined, Zenon DEF x
    <3>3. Len(x) = i - 1 /\ Len(y) = Len(t) - i /\ Len(x \o (<<s>> \o y)) = Len(t)
      <4>1. Len(x) = i - 1
        BY <2>7, Zenon DEF x
      <4>2. Len(y) = Len(t) + 1 - (i + 1)
        BY <2>8, Zenon DEF y
      <4>3. Len(t) + 1 - (i + 1) = Len(t) - i /\ (i - 1) + ((Len(t) - i) + 1) = Len(t)
        BY <1>0, <2>3
      <4> QED BY <3>1, <3>2, <4>1, <4>2, <4>3
    <3>4. ASSUME NEW k \in 1..Len(t) PROVE (x \o (<<s>> \o y))[k] = t[k]
      <4>1. CASE k <= i - 1
        <5>1. k \in 1..i - 1
          BY <2>3, <4>1
        <5> QED BY <2>7, <3>2, <3>3, <5>1, Zenon DEF x
      <4>2. CASE k = i
        <5>1. Len(x) + 1 = k /\ 1 \in 1..Len(<<s>> \o y)
          BY <1>0, <2>3, <3>1, <3>3, <4>2
        <5>2. (x \o (<<s>> \o y))[Len(x) + 1] = (<<s>> \o y)[1]
          BY <3>2, <5>1
        <5> QED BY <2>4, <3>1, <4>2, <5>1, <5>2
      <4>3. CASE k > i
        <5>0. k - i \in Nat
          BY <2>3, <4>3
        <5>1. PICK j \in Nat : j = k - i
          BY <5>0
        <5>2. /\ j \in 1..Len(y) /\ Len(x) + (j + 1) = k /\ j + 1 \in 1..Len(<<s>> \o y)
              /\ (i + 1) + j - 1 = k
          BY <1>0, <2>3, <3>1, <3>3, <4>3, <5>1
        <5>3. y[j] = t[k]
          <6>1. j \in 1..Len(t) + 1 - (i + 1)
            BY <1>0, <2>3, <3>3, <5>2
          <6> QED BY <2>8, <5>2, <6>1, Zenon DEF y
        <5> QED BY <3>1, <3>2, <5>2, <5>3
      <4>4. k <= i - 1 \/ k = i \/ k > i
        BY <1>0, <2>3
      <4> QED BY <4>1, <4>2, <4>3, <4>4, Zenon
    <3>5. t = x \o (<<s>> \o y)
      <4>1. PICK w \in Texts : w = x \o (<<s>> \o y)
        BY <3>2, Zenon
      <4> QED BY <3>3, <3>4, <4>1, SameText, Zenon
    <3> QED BY <3>5, Zenon DEF x, y
  <2>11. Len(SubSeq(t, i + 1, Len(t))) < Len(t) /\ Len(SubSeq(t, 1, i - 1)) <= Len(t)
    BY <1>0, <2>3, <2>7, <2>8
  <2> QED BY <1>2, <2>5, <2>7, <2>8, <2>9, <2>10, <2>11, Zenon
<1> QED BY <1>1, <1>2

(* Where a text is cut when it is put together around a separator.          *)
LEMMA CutOf ==
  ASSUME NEW x \in Texts, NEW y \in Texts, NEW s \in Symbols, ~Holds(x, <<s>>)
  PROVE  /\ x \o (<<s>> \o y) \in Texts /\ Holds(x \o (<<s>> \o y), <<s>>)
         /\ Before(x \o (<<s>> \o y), s) = x /\ After(x \o (<<s>> \o y), s) = y
<1> DEFINE r == <<s>> \o y
           t == x \o r
<1>1. r \in Texts /\ r[1] = s /\ Len(r) = Len(y) + 1 /\ Tail(r) = y /\ Len(y) \in Nat /\ Len(x) \in Nat
  <2>1. Len(y) \in Nat /\ Len(x) \in Nat
    BY DEF Texts
  <2> QED BY <2>1, OneBefore
<1>2. \A k \in 1..Len(y) : r[k + 1] = y[k]
  BY OneBefore
<1> HIDE DEF r
<1>3. /\ t \in Texts /\ Len(t) = Len(x) + Len(r) /\ \A k \in 1..Len(x) : t[k] = x[k]
      /\ \A k \in 1..Len(r) : t[Len(x) + k] = r[k]
  BY <1>1, Joined, Zenon
<1> HIDE DEF t
<1>4. Len(x) + 1 \in 1..Len(t) /\ 1 \in 1..Len(r)
  BY <1>1, <1>3
<1>5. t[Len(x) + 1] = s
  BY <1>1, <1>3, <1>4
<1>6. Holds(t, <<s>>)
  BY <1>3, <1>4, <1>5, OneOccurs
<1>7. PICK i : i = Find(t, <<s>>, 1)
  OBVIOUS
<1>9. i \in 1..Len(t) /\ OccursAt(t, <<s>>, i) /\ \A j \in 1..i - 1 : ~OccursAt(t, <<s>>, j)
  BY <1>3, <1>6, <1>7, FindsFirst
<1>10. i = Len(x) + 1
  <2>1. ASSUME i < Len(x) + 1 PROVE FALSE
    <3>1. i \in 1..Len(x)
      BY <1>1, <1>9, <2>1
    <3>2. x[i] = s
      BY <1>3, <1>9, <3>1, OneOccurs
    <3> QED BY <3>1, <3>2, OneOccurs
  <2>2. ASSUME Len(x) + 1 < i PROVE FALSE
    <3>1. Len(x) + 1 \in 1..i - 1
      BY <1>1, <1>9, <2>2
    <3>2. ~OccursAt(t, <<s>>, Len(x) + 1)
      BY <1>9, <3>1
    <3> QED BY <1>3, <1>4, <1>5, <3>2, OneOccurs
  <2> QED BY <1>1, <1>9, <2>1, <2>2
<1>11. Before(t, s) = SubSeq(t, 1, Len(x)) /\ After(t, s) = SubSeq(t, Len(x) + 2, Len(t))
  <2>1. i - 1 = Len(x) /\ i + 1 = Len(x) + 2
    BY <1>1, <1>10
  <2> QED BY <1>6, <1>7, <2>1, Zenon DEF Before, After
<1>12. SubSeq(t, 1, Len(x)) = x
  BY <1>1, Joined DEF t
<1>13. SubSeq(t, Len(x) + 2, Len(t)) = y
  <2>1. PICK n : n = Len(x) + 2
    OBVIOUS
  <2>2. n \in 1..Len(t) + 1 /\ Len(t) + 1 - n = Len(y)
    BY <1>1, <1>3, <2>1
  <2>3. /\ SubSeq(t, n, Len(t)) \in Texts /\ Len(SubSeq(t, n, Len(t))) = Len(y)
        /\ \A k \in 1..Len(y) : SubSeq(t, n, Len(t))[k] = t[n + k - 1]
    <3>1. /\ SubSeq(t, n, Len(t)) \in Texts /\ Len(SubSeq(t, n, Len(t))) = Len(t) + 1 - n
          /\ \A k \in 1..Len(t) + 1 - n : SubSeq(t, n, Len(t))[k] = t[n + k - 1]
      BY <1>3, <2>2, Suffix, Zenon
    <3> QED BY <2>2, <3>1
  <2>4. ASSUME NEW k \in 1..Len(y) PROVE t[n + k - 1] = y[k]
    <3>1. n + k - 1 = Len(x) + (k + 1) /\ k + 1 \in 1..Len(r)
      BY <1>1, <2>1
    <3> QED BY <1>2, <1>3, <3>1
  <2>5. SubSeq(t, n, Len(t)) = y
    <3>1. PICK w \in Texts : w = SubSeq(t, n, Len(t))
      BY <2>3, Zenon
    <3> QED BY <2>3, <2>4, <3>1, SameText, Zenon
  <2> QED BY <2>1, <2>5
<1>14. t \in Texts /\ Holds(t, <<s>>) /\ Before(t, s) = x /\ After(t, s) = y
  BY <1>3, <1>6, <1>11, <1>12, <1>13
<1> QED BY <1>14 DEF t, r

-----------------------------------------------------------------------------
(* str::split. *)

Lists == Seq(Texts)

SplitStep(t, s, f) == IF Holds(t, <<s>>) THEN <<Before(t, s)>> \o f[After(t, s)] ELSE <<t>>

LEMMA ListJoin ==
  ASSUME NEW t \in Texts, NEW q \in Lists
  PROVE  /\ <<t>> \in Lists /\ <<t>> \o q \in Lists /\ <<t>> \o q # << >> /\ Len(<<t>>) = 1 /\ <<t>>[1] = t
         /\ Len(<<t>> \o q) = Len(q) + 1 /\ Len(q) \in Nat /\ (<<t>> \o q)[1] = t
         /\ \A i \in 1..Len(q) : (<<t>> \o q)[i + 1] = q[i] /\ q[i] \in Texts
<1>1. <<t>> \in Seq(Texts) /\ Len(<<t>>) = 1 /\ <<t>>[1] = t
  BY Single
<1>2. /\ <<t>> \o q \in Seq(Texts) /\ Len(<<t>> \o q) = Len(<<t>>) + Len(q) /\ Len(q) \in Nat
      /\ \A i \in 1..Len(<<t>>) : (<<t>> \o q)[i] = <<t>>[i]
      /\ \A i \in 1..Len(q) : (<<t>> \o q)[Len(<<t>>) + i] = q[i]
      /\ \A i \in 1..Len(q) : q[i] \in Texts
  <2> HIDE DEF Texts
  <2> QED BY <1>1 DEF Lists
<1>3. 1 \in 1..1 /\ \A i \in 1..Len(q) : 1 + i = i + 1
  BY <1>2
<1>4. Len(<<t>> \o q) = Len(q) + 1 /\ (<<t>> \o q)[1] = t
  BY <1>1, <1>2, <1>3
<1>5. <<t>> \o q # << >>
  BY <1>2, <1>4
<1> QED BY <1>1, <1>2, <1>3, <1>4, <1>5 DEF Lists

LEMMA SplitStepIsLocal ==
  ASSUME NEW s \in Symbols, NEW t \in Texts, NEW f, NEW g,
         \A u \in Texts : Len(u) < Len(t) => f[u] = g[u]
  PROVE  SplitStep(t, s, f) = SplitStep(t, s, g)
<1>1. CASE Holds(t, <<s>>)
  <2>1. After(t, s) \in Texts /\ Len(After(t, s)) < Len(t)
    BY <1>1, Cut, Zenon
  <2>2. f[After(t, s)] = g[After(t, s)]
    BY <2>1
  <2> QED BY <1>1, <2>2 DEF SplitStep
<1> QED BY <1>1 DEF SplitStep

LEMMA SplitStepIsAList ==
  ASSUME NEW s \in Symbols, NEW t \in Texts, NEW f \in [Texts -> Lists]
  PROVE  SplitStep(t, s, f) \in Lists
<1>1. Before(t, s) \in Texts /\ After(t, s) \in Texts
  BY Cut, Zenon
<1>2. f[After(t, s)] \in Lists
  BY <1>1
<1>3. <<t>> \in Lists
  BY Single DEF Lists
<1> QED BY <1>1, <1>2, <1>3, ListJoin DEF SplitStep

LEMMA SplitStepsAgree ==
  ASSUME NEW s \in Symbols, NEW f, NEW g,
         \A t \in Texts : f[t] = SplitStep(t, s, f),
         \A t \in Texts : g[t] = SplitStep(t, s, g)
  PROVE  \A t \in Texts : f[t] = g[t]
<1> DEFINE P == {t \in Texts : f[t] = g[t]}
<1>1. ASSUME NEW t \in Texts, \A u \in Texts : Len(u) < Len(t) => u \in P PROVE t \in P
  <2>1. \A u \in Texts : Len(u) < Len(t) => f[u] = g[u]
    BY <1>1
  <2>2. SplitStep(t, s, f) = SplitStep(t, s, g)
    BY <2>1, SplitStepIsLocal
  <2> QED BY <2>2
<1>2. \A t \in Texts : t \in P
  <2> HIDE DEF P
  <2> QED BY <1>1, ShorterFirst
<1> QED BY <1>2

LEMMA SplitSteps ==
  ASSUME NEW s \in Symbols
  PROVE  \E f \in [Texts -> Lists] : \A t \in Texts : f[t] = Split(t, s) /\ f[t] = SplitStep(t, s, f)
<1> DEFINE V == Lists
           G == [x \in Texts \X [Texts -> V] |-> SplitStep(x[1], s, x[2])]
           IsIt(h) == h = [t \in Texts |-> IF Holds(t, <<s>>) THEN <<Before(t, s)>> \o h[After(t, s)] ELSE <<t>>]
           f == CHOOSE h : IsIt(h)
<1>1. G \in [Texts \X [Texts -> V] -> V]
  BY SplitStepIsAList
<1>2. \A t \in Texts : \A h \in [Texts -> V] : G[<<t, h>>] = SplitStep(t, s, h)
  OBVIOUS
<1>3. Local(G, Shorter, Texts, V)
  <2> SUFFICES ASSUME NEW t \in Texts, NEW g \in [Texts -> V], NEW h \in [Texts -> V],
                      \A u \in Texts : Shorter[u] < Shorter[t] => g[u] = h[u]
               PROVE  G[<<t, g>>] = G[<<t, h>>]
    BY Zenon DEF Local
  <2>1. \A u \in Texts : Len(u) < Len(t) => g[u] = h[u]
    BY LengthsAreNumbers
  <2>2. SplitStep(t, s, g) = SplitStep(t, s, h)
    BY <2>1, SplitStepIsLocal
  <2> HIDE DEF G
  <2> QED BY <1>2, <2>2
<1>4. << >> \in V
  BY DEF Lists
<1>5. PICK h \in [Texts -> V] : Ruled(h, Texts, G)
  <2> HIDE DEF G, V
  <2> QED BY <1>1, <1>3, <1>4, LengthsAreNumbers, RecursionExists, Zenon
<1>6. \A t \in Texts : h[t] = SplitStep(t, s, h)
  <2> HIDE DEF G
  <2> QED BY <1>2, <1>5, ZenonT(60) DEF Ruled
<1>7. IsIt(h)
  BY <1>5, <1>6 DEF SplitStep
<1>8. IsIt(f)
  BY <1>7, Zenon
<1>9. \A t \in Texts : f[t] = Split(t, s)
  BY DEF Split
<1> HIDE DEF f
<1>10. \A t \in Texts : f[t] = SplitStep(t, s, f)
  BY <1>8, Zenon DEF SplitStep
<1>11. PICK k : k = f
  OBVIOUS
<1>12. \A t \in Texts : k[t] = SplitStep(t, s, k)
  BY <1>10, <1>11
<1>13. \A t \in Texts : k[t] = h[t]
  <2> HIDE DEF V, G, IsIt
  <2>1. ASSUME NEW t \in Texts PROVE k[t] = h[t]
    BY <1>6, <1>12, SplitStepsAgree
  <2> QED BY <2>1
<1>14. k = h
  BY <1>5, <1>8, <1>11, <1>13
<1> QED BY <1>5, <1>9, <1>11, <1>12, <1>14

LEMMA SplitLaws ==
  ASSUME NEW s \in Symbols, NEW t \in Texts
  PROVE  /\ Split(t, s) \in Lists
         /\ ~Holds(t, <<s>>) => Split(t, s) = <<t>>
         /\ Holds(t, <<s>>) => Split(t, s) = <<Before(t, s)>> \o Split(After(t, s), s)
<1>1. PICK f \in [Texts -> Lists] : \A u \in Texts : f[u] = Split(u, s) /\ f[u] = SplitStep(u, s, f)
  BY SplitSteps
<1>2. After(t, s) \in Texts
  BY Cut, Zenon
<1> QED BY <1>1, <1>2, Zenon DEF SplitStep

-----------------------------------------------------------------------------
(* Lists of texts, and their concatenation. *)

LEMMA ASequence ==
  ASSUME NEW S, NEW n \in Nat, NEW f \in [1..n -> S]
  PROVE  f \in Seq(S) /\ Len(f) = n
OBVIOUS

LEMMA SameList ==
  ASSUME NEW q \in Lists, NEW r \in Lists, Len(q) = Len(r), \A i \in 1..Len(q) : q[i] = r[i]
  PROVE  q = r
<1> HIDE DEF Texts
<1> QED BY DEF Lists

LEMMA ListEnds ==
  ASSUME NEW q \in Lists, q # << >>
  PROVE  /\ Head(q) \in Texts /\ Tail(q) \in Lists /\ q = <<Head(q)>> \o Tail(q)
         /\ Len(Tail(q)) < Len(q) /\ Len(q) \in Nat
<1> HIDE DEF Texts
<1> QED BY DEF Lists

(* What holds of the empty list, and of a list when it holds of its tail.   *)
LEMMA ListInduction ==
  ASSUME NEW P, << >> \in P, \A t \in Texts : \A q \in Lists : q \in P => <<t>> \o q \in P
  PROVE  \A q \in Lists : q \in P
<1> DEFINE m == [q \in Lists |-> Len(q)]
<1>1. m \in [Lists -> Nat] /\ \A q \in Lists : m[q] = Len(q)
  <2>1. \A q \in Lists : Len(q) \in Nat
    BY DEF Lists
  <2> QED BY <2>1
<1>2. ASSUME NEW q \in Lists, \A r \in Lists : m[r] < m[q] => r \in P PROVE q \in P
  <2>1. CASE q # << >>
    <3>1. Head(q) \in Texts /\ Tail(q) \in Lists /\ q = <<Head(q)>> \o Tail(q) /\ Len(Tail(q)) < Len(q)
      BY <2>1, ListEnds
    <3>2. Tail(q) \in P
      BY <1>1, <1>2, <3>1, Zenon
    <3>3. <<Head(q)>> \o Tail(q) \in P
      BY <3>1, <3>2
    <3> QED BY <3>1, <3>3, Zenon
  <2> QED BY <2>1
<1>3. \A q \in Lists : q \in P
  <2> HIDE DEF m
  <2> QED BY <1>1, <1>2, SmallerFirst, Zenon
<1> QED BY <1>3

FlatBy(f, q) ==
  /\ f \in [0..Len(q) -> Texts] /\ f[0] = << >>
  /\ \A n \in 1..Len(q) : f[n] = f[n - 1] \o q[n]

LEMMA FlatSteps ==
  ASSUME NEW q \in Lists
  PROVE  \E f : FlatBy(f, q) /\ f[Len(q)] = FlattenSeq(q)
<1> DEFINE hi == Len(q)
           G == [x \in (1..hi) \X Texts |-> x[2] \o q[x[1]]]
           IsIt(h) == h = [i \in 1..Len(q) |-> IF i = 1 THEN q[i] ELSE h[i - 1] \o q[i]]
           g == CHOOSE h : IsIt(h)
<1>1. hi \in Nat /\ \A n \in 1..hi : q[n] \in Texts
  BY DEF Lists
<1> HIDE DEF hi
<1>2. << >> \in Texts /\ \A u \in Texts : << >> \o u = u
  <2>1. << >> \in Texts
    BY DEF Texts
  <2> QED BY <2>1, NothingBefore
<1>3. G \in [(1..hi) \X Texts -> Texts]
  BY <1>1, Joined
<1>4. \A n \in 1..hi : \A u \in Texts : G[<<n, u>>] = u \o q[n]
  BY Zenon
<1>5. PICK f \in [0..hi -> Texts] : f[0] = << >> /\ \A n \in 1..hi : f[n] = G[<<n, f[n - 1]>>]
  <2> HIDE DEF G
  <2>1. PICK f \in StepRuns(hi, Texts) : StepsBy(f, hi, << >>, G)
    BY <1>1, <1>2, <1>3, StepsExist, Zenon DEF StepRules
  <2> QED BY <2>1, Zenon DEF StepRuns, StepsBy
<1>6. \A n \in 1..hi : n - 1 \in 0..hi
  BY <1>1
<1>7. \A n \in 1..hi : f[n] = f[n - 1] \o q[n]
  <2> HIDE DEF G
  <2> QED BY <1>4, <1>5, <1>6, Zenon
<1>8. FlatBy(f, q)
  BY <1>5, <1>7, Zenon DEF FlatBy, hi
<1>9. 1 \in 1..hi => f[1] = q[1]
  <2>1. 1 - 1 = 0
    OBVIOUS
  <2> QED BY <1>1, <1>2, <1>5, <1>7, <2>1
<1>10. CASE hi = 0
  <2>1. q = << >>
    BY <1>10 DEF hi, Lists
  <2>2. FlattenSeq(q) = << >>
    BY <1>10, <2>1 DEF FlattenSeq, hi
  <2> QED BY <1>5, <1>8, <1>10, <2>2 DEF hi
<1>11. CASE hi # 0
  <2> DEFINE e == [n \in 1..hi |-> f[n]]
  <2>1. e = [i \in 1..hi |-> IF i = 1 THEN q[i] ELSE e[i - 1] \o q[i]]
    <3>1. ASSUME NEW i \in 1..hi PROVE f[i] = IF i = 1 THEN q[i] ELSE e[i - 1] \o q[i]
      <4>1. CASE i = 1
        BY <1>9, <4>1
      <4>2. CASE i # 1
        <5>1. i - 1 \in 1..hi
          BY <1>1, <4>2
        <5>2. e[i - 1] = f[i - 1]
          BY <5>1
        <5> QED BY <1>7, <4>2, <5>2, Zenon
      <4> QED BY <4>1, <4>2
    <3> QED BY <3>1
  <2>2. IsIt(e)
    BY <2>1, SMTT(30) DEF hi
  <2>3. IsIt(g)
    BY <2>2, Zenon
  <2>4. FlattenSeq(q) = g[Len(q)]
    BY <1>11, SMTT(30) DEF FlattenSeq, hi
  <2>5. PICK k : k = g
    BY Zenon
  <2>6. k = [i \in 1..hi |-> IF i = 1 THEN q[i] ELSE k[i - 1] \o q[i]]
    BY <2>3, <2>5, ZenonT(60) DEF hi
  <2> HIDE DEF g, IsIt, e
  <2>7. \A i \in 1..hi : k[i] = IF i = 1 THEN q[i] ELSE k[i - 1] \o q[i]
    BY <2>6, Zenon
  <2> DEFINE P == {n \in 0..hi : n # 0 => k[n] = f[n]}
  <2>8. ASSUME NEW n \in 1..hi, n - 1 \in P PROVE n \in P
    <3>1. CASE n = 1
      BY <1>1, <1>9, <2>7, <3>1
    <3>2. CASE n # 1
      <4>1. n - 1 \in 1..hi /\ n - 1 # 0
        BY <1>1, <3>2
      <4>2. k[n - 1] = f[n - 1]
        BY <2>8, <4>1
      <4>3. k[n] = k[n - 1] \o q[n]
        BY <2>7, <3>2, Zenon
      <4>4. k[n] = f[n]
        BY <1>7, <4>2, <4>3, Zenon
      <4>5. n \in 0..hi
        BY <1>1
      <4> QED BY <4>4, <4>5
    <3> QED BY <3>1, <3>2
  <2>9. 0 \in P
    BY <1>1
  <2>10. \A n \in 0..hi : n \in P
    <3> HIDE DEF P
    <3> QED BY <1>1, <2>8, <2>9, Climbs, Zenon
  <2>11. k[hi] = f[hi]
    BY <1>1, <1>11, <2>10
  <2> QED BY <1>8, <2>4, <2>5, <2>11 DEF hi
<1> QED BY <1>10, <1>11

LEMMA FlatLaws ==
  ASSUME NEW q \in Lists, NEW x \in Texts
  PROVE  /\ FlattenSeq(q) \in Texts /\ FlattenSeq(<< >>) = << >>
         /\ FlattenSeq(<<x>> \o q) = x \o FlattenSeq(q)
<1>1. Len(q) \in Nat /\ Len(q) \in 0..Len(q) /\ \A n \in 1..Len(q) : q[n] \in Texts
  BY DEF Lists
<1>2. PICK f : FlatBy(f, q) /\ f[Len(q)] = FlattenSeq(q)
  BY FlatSteps
<1>3. FlattenSeq(q) \in Texts
  BY <1>1, <1>2 DEF FlatBy
<1>4. FlattenSeq(<< >>) = << >>
  BY DEF FlattenSeq
<1>5. PICK r : r = <<x>> \o q
  BY Zenon
<1>6. r \in Lists /\ Len(r) = Len(q) + 1 /\ r[1] = x /\ \A i \in 1..Len(q) : r[i + 1] = q[i]
  BY <1>5, ListJoin
<1>7. PICK g : FlatBy(g, r) /\ g[Len(r)] = FlattenSeq(r)
  BY <1>6, FlatSteps
<1> DEFINE P == {n \in 0..Len(q) : g[n + 1] = x \o f[n]}
<1>8. 0 \in P
  <2>1. 1 \in 1..Len(r) /\ 1 - 1 = 0 /\ 0 + 1 = 1
    BY <1>1, <1>6
  <2>2. g[1] = g[0] \o r[1]
    BY <1>7, <2>1, Zenon DEF FlatBy
  <2>3. g[1] = x
    BY <1>6, <1>7, <2>2, NothingBefore DEF FlatBy
  <2>4. f[0] = << >> /\ x \o << >> = x
    BY <1>2, NothingBefore DEF FlatBy
  <2>5. g[0 + 1] = x \o f[0]
    BY <2>3, <2>4
  <2>6. 0 \in 0..Len(q)
    BY <1>1
  <2> QED BY <2>5, <2>6
<1>9. ASSUME NEW n \in 1..Len(q), n - 1 \in P PROVE n \in P
  <2>1. n + 1 \in 1..Len(r) /\ (n + 1) - 1 = n /\ (n - 1) + 1 = n /\ n - 1 \in 0..Len(q) /\ n \in 0..Len(q)
    BY <1>1, <1>6
  <2>2. g[n + 1] = g[n] \o r[n + 1]
    BY <1>7, <2>1 DEF FlatBy
  <2>3. g[n] = x \o f[n - 1]
    BY <1>9, <2>1
  <2>4. f[n] = f[n - 1] \o q[n] /\ f[n - 1] \in Texts /\ q[n] \in Texts
    BY <1>1, <1>2, <2>1, Zenon DEF FlatBy
  <2>5. (x \o f[n - 1]) \o q[n] = x \o (f[n - 1] \o q[n])
    BY <2>4, JoinAgain, Zenon
  <2> QED BY <1>6, <2>1, <2>2, <2>3, <2>4, <2>5, Zenon
<1>10. \A n \in 0..Len(q) : n \in P
  <2> HIDE DEF P
  <2> QED BY <1>1, <1>8, <1>9, Climbs, Zenon
<1>11. g[Len(q) + 1] = x \o f[Len(q)]
  BY <1>1, <1>10, Zenon
<1> QED BY <1>2, <1>3, <1>4, <1>5, <1>6, <1>7, <1>11, Zenon

LEMMA HoldsASymbol ==
  ASSUME NEW s, NEW x \in Texts, NEW y \in Texts
  PROVE  /\ Holds(x, <<s>>) <=> s \in SymbolsOf(x)
         /\ Holds(x \o y, <<s>>) <=> Holds(x, <<s>>) \/ Holds(y, <<s>>)
<1>1. \A t \in Texts : Holds(t, <<s>>) <=> s \in SymbolsOf(t)
  <2>1. ASSUME NEW t \in Texts PROVE Holds(t, <<s>>) <=> s \in SymbolsOf(t)
    BY OneOccurs DEF SymbolsOf
  <2> QED BY <2>1
<1>2. x \o y \in Texts /\ SymbolsOf(x \o y) = SymbolsOf(x) \cup SymbolsOf(y)
  BY Joined, SymbolsOfJoin
<1>3. Holds(x, <<s>>) <=> s \in SymbolsOf(x)
  BY <1>1
<1>4. Holds(y, <<s>>) <=> s \in SymbolsOf(y)
  BY <1>1
<1>5. Holds(x \o y, <<s>>) <=> s \in SymbolsOf(x \o y)
  BY <1>1, <1>2
<1>6. s \in SymbolsOf(x \o y) <=> s \in SymbolsOf(x) \/ s \in SymbolsOf(y)
  BY <1>2
<1> QED BY <1>3, <1>4, <1>5, <1>6

LEMMA HoldsInOne ==
  ASSUME NEW s, NEW x \in Symbols, x # s
  PROVE  <<x>> \in Texts /\ ~Holds(<<x>>, <<s>>)
<1>1. <<x>> \in Texts /\ Len(<<x>>) = 1 /\ <<x>>[1] = x
  BY Single DEF Texts
<1>2. PICK t \in Texts : t = <<x>>
  BY <1>1
<1>3. ASSUME NEW i \in 1..Len(t) PROVE t[i] # s
  <2>1. Len(t) = 1 /\ t[1] = x
    BY <1>1, <1>2
  <2>2. i = 1
    BY <2>1
  <2> QED BY <2>1, <2>2
<1>4. ~Holds(t, <<s>>)
  BY <1>3, OneOccurs
<1> QED BY <1>2, <1>4

(* Each text of a list behind a separator.                                  *)
Led(q, s) == [i \in DOMAIN q |-> <<s>> \o q[i]]
NoneHolds(q, s) == \A i \in 1..Len(q) : ~Holds(q[i], <<s>>)

LEMMA LedList ==
  ASSUME NEW s \in Symbols, NEW q \in Lists, NEW t \in Texts
  PROVE  /\ Led(q, s) \in Lists /\ Led(<< >>, s) = << >>
         /\ Led(<<t>> \o q, s) = <<<<s>> \o t>> \o Led(q, s)
<1>0. ASSUME NEW u \in Texts PROVE <<s>> \o u \in Texts
  BY OneBefore
<1>1. ASSUME NEW r \in Lists
      PROVE  Led(r, s) \in Lists /\ Len(Led(r, s)) = Len(r) /\ \A i \in 1..Len(r) : Led(r, s)[i] = <<s>> \o r[i]
  <2>1. DOMAIN r = 1..Len(r) /\ Len(r) \in Nat /\ \A i \in 1..Len(r) : r[i] \in Texts
    BY DEF Lists
  <2>2. \A i \in 1..Len(r) : <<s>> \o r[i] \in Texts
    BY <1>0, <2>1
  <2>3. Led(r, s) \in [1..Len(r) -> Texts]
    BY <2>1, <2>2 DEF Led
  <2>4. Led(r, s) \in Seq(Texts) /\ Len(Led(r, s)) = Len(r)
    BY <2>1, <2>3, ASequence
  <2> QED BY <2>1, <2>4 DEF Led, Lists
<1>2. << >> \in Lists /\ Led(<< >>, s) = << >>
  <2>1. << >> \in Lists
    BY DEF Lists
  <2> QED BY <2>1 DEF Led
<1>3. PICK r : r = <<t>> \o q
  BY Zenon
<1>4. r \in Lists /\ Len(r) = Len(q) + 1 /\ Len(q) \in Nat /\ r[1] = t /\ \A i \in 1..Len(q) : r[i + 1] = q[i]
  BY <1>3, ListJoin
<1>5. <<s>> \o t \in Texts /\ Led(q, s) \in Lists /\ Len(Led(q, s)) = Len(q)
  BY <1>0, <1>1
<1>6. PICK w : w = <<<<s>> \o t>> \o Led(q, s)
  BY Zenon
<1>7. /\ w \in Lists /\ Len(w) = Len(q) + 1 /\ w[1] = <<s>> \o t
      /\ \A i \in 1..Len(q) : w[i + 1] = Led(q, s)[i]
  <2>1. PICK y \in Texts : y = <<s>> \o t
    BY <1>5, Zenon
  <2>2. PICK l \in Lists : l = Led(q, s)
    BY <1>5
  <2>3. w = <<y>> \o l /\ Len(l) = Len(q)
    BY <1>5, <1>6, <2>1, <2>2
  <2>4. w \in Lists /\ Len(w) = Len(q) + 1 /\ w[1] = y /\ \A i \in 1..Len(q) : w[i + 1] = l[i]
    BY <2>3, ListJoin
  <2> QED BY <2>1, <2>2, <2>4
<1>8. Led(r, s) \in Lists /\ Len(Led(r, s)) = Len(r) /\ \A i \in 1..Len(r) : Led(r, s)[i] = <<s>> \o r[i]
  BY <1>1, <1>4, Zenon
<1>9. ASSUME NEW i \in 1..Len(r) PROVE Led(r, s)[i] = w[i]
  <2>1. CASE i = 1
    BY <1>4, <1>7, <1>8, <2>1, Zenon
  <2>2. CASE i # 1
    <3>1. i - 1 \in 1..Len(q) /\ (i - 1) + 1 = i
      BY <1>4, <2>2
    <3>2. r[i] = q[i - 1] /\ w[i] = Led(q, s)[i - 1]
      BY <1>4, <1>7, <3>1
    <3>3. Led(q, s)[i - 1] = <<s>> \o q[i - 1]
      BY <1>1, <3>1, Zenon
    <3> QED BY <1>8, <3>2, <3>3, Zenon
  <2> QED BY <2>1, <2>2
<1>10. Led(r, s) = w
  <2>1. Len(Led(r, s)) = Len(w)
    BY <1>4, <1>7, <1>8
  <2> QED BY <1>7, <1>8, <1>9, <2>1, SameList
<1> QED BY <1>1, <1>2, <1>3, <1>6, <1>10, Zenon

(* Splitting what was put together around a separator gives the pieces.     *)
LEMMA SplitOfJoin ==
  ASSUME NEW s \in Symbols, NEW q0 \in Lists, NoneHolds(q0, s), NEW w0 \in Texts, ~Holds(w0, <<s>>)
  PROVE  Split(w0 \o FlattenSeq(Led(q0, s)), s) = <<w0>> \o q0
<1> DEFINE P == {q \in Lists : NoneHolds(q, s) => \A w \in Texts : ~Holds(w, <<s>>) =>
                   Split(w \o FlattenSeq(Led(q, s)), s) = <<w>> \o q}
<1>1. << >> \in P
  <2>1. << >> \in Lists
    BY DEF Lists
  <2>2. FlattenSeq(Led(<< >>, s)) = << >>
    BY <2>1, LedList, FlatLaws, NothingBefore, Zenon
  <2>3. ASSUME NEW w \in Texts, ~Holds(w, <<s>>)
        PROVE  Split(w \o FlattenSeq(Led(<< >>, s)), s) = <<w>> \o << >>
    <3>1. w \o << >> = w /\ Split(w, s) = <<w>>
      BY <2>3, NothingBefore, SplitLaws, Zenon
    <3>2. <<w>> \o << >> = <<w>>
      OBVIOUS
    <3> QED BY <2>2, <3>1, <3>2, Zenon
  <2> QED BY <2>1, <2>3
<1>2. ASSUME NEW t \in Texts, NEW q \in Lists, q \in P PROVE <<t>> \o q \in P
  <2>1. PICK r : r = <<t>> \o q
    BY Zenon
  <2>2. r \in Lists /\ Len(r) = Len(q) + 1 /\ Len(q) \in Nat /\ r[1] = t /\ \A i \in 1..Len(q) : r[i + 1] = q[i]
    BY <2>1, ListJoin
  <2>3. ASSUME NoneHolds(r, s), NEW w \in Texts, ~Holds(w, <<s>>)
        PROVE  Split(w \o FlattenSeq(Led(r, s)), s) = <<w>> \o r
    <3>1. ~Holds(t, <<s>>)
      <4>1. 1 \in 1..Len(r)
        BY <2>2
      <4> QED BY <2>2, <2>3, <4>1 DEF NoneHolds
    <3>2. NoneHolds(q, s)
      <4>1. \A i \in 1..Len(q) : i + 1 \in 1..Len(r)
        BY <2>2
      <4> QED BY <2>2, <2>3, <4>1 DEF NoneHolds
    <3>3. PICK rest \in Texts : rest = FlattenSeq(Led(q, s))
      BY LedList, FlatLaws, Zenon
    <3>4. FlattenSeq(Led(r, s)) = (<<s>> \o t) \o rest
      <4>1. Led(q, s) \in Lists /\ <<s>> \o t \in Texts
        BY LedList, OneBefore, Zenon
      <4>2. Led(r, s) = <<<<s>> \o t>> \o Led(q, s)
        BY <2>1, LedList, Zenon
      <4> QED BY <3>3, <4>1, <4>2, FlatLaws, Zenon
    <3>5. (<<s>> \o t) \o rest = <<s>> \o (t \o rest) /\ t \o rest \in Texts
      <4>1. <<s>> \in Texts
        BY Single DEF Texts
      <4>2. (<<s>> \o t) \o rest = <<s>> \o (t \o rest)
        BY <4>1, JoinAgain
      <4> QED BY <4>2, Joined, Zenon
    <3>6. PICK y \in Texts : y = t \o rest
      BY <3>5, Zenon
    <3>7. PICK z \in Texts : z = w \o (<<s>> \o y)
      BY <2>3, <3>6, CutOf, Zenon
    <3>8. Holds(z, <<s>>) /\ Before(z, s) = w /\ After(z, s) = y
      BY <2>3, <3>6, <3>7, CutOf, Zenon
    <3>9. Split(z, s) = <<w>> \o Split(y, s)
      BY <3>8, SplitLaws
    <3>10. Split(y, s) = <<t>> \o q
      BY <1>2, <3>1, <3>2, <3>3, <3>6
    <3> QED BY <2>1, <3>4, <3>5, <3>6, <3>7, <3>9, <3>10, Zenon
  <2> QED BY <2>1, <2>2, <2>3, Zenon
<1>3. \A q \in Lists : q \in P
  <2> HIDE DEF P
  <2> QED BY <1>1, <1>2, ListInduction
<1> QED BY <1>3

-----------------------------------------------------------------------------
(* The lines of a container and its body. *)

Unpackings == [legend : Lists, body : Texts]
UnpackStep(t, f) ==
  IF t = << >> THEN {}
  ELSE IF Before(t, Newline) = Boundary THEN {[legend |-> << >>, body |-> After(t, Newline)]}
  ELSE {[rest EXCEPT !.legend = <<Before(t, Newline)>> \o @] : rest \in f[After(t, Newline)]}

LEMMA NewlineIsASymbol ==
  /\ Newline \in Symbols /\ Space \in Symbols /\ Equals \in Symbols /\ Magic \in Symbols
  /\ Newline # Space /\ Newline # Equals /\ Space # Equals
  /\ Magic # Newline /\ Magic # Space /\ Magic # Equals
BY DEF Newline, Space, Equals, Magic, Symbols

LEMMA UnpackStepIsLocal ==
  ASSUME NEW t \in Texts, NEW f, NEW g,
         \A u \in Texts : Len(u) < Len(t) => f[u] = g[u]
  PROVE  UnpackStep(t, f) = UnpackStep(t, g)
<1>1. CASE t # << >>
  <2>1. After(t, Newline) \in Texts /\ Len(After(t, Newline)) < Len(t)
    BY <1>1, Cut, NewlineIsASymbol, Zenon
  <2>2. f[After(t, Newline)] = g[After(t, Newline)]
    BY <2>1
  <2> QED BY <1>1, <2>2 DEF UnpackStep
<1> QED BY <1>1 DEF UnpackStep

LEMMA UnpackStepIsTyped ==
  ASSUME NEW t \in Texts, NEW f \in [Texts -> SUBSET Unpackings]
  PROVE  UnpackStep(t, f) \in SUBSET Unpackings
<1>1. Before(t, Newline) \in Texts /\ After(t, Newline) \in Texts
  BY Cut, NewlineIsASymbol, Zenon
<1>2. f[After(t, Newline)] \subseteq Unpackings
  BY <1>1
<1>3. [legend |-> << >>, body |-> After(t, Newline)] \in Unpackings
  <2>1. << >> \in Lists
    BY DEF Lists
  <2> QED BY <1>1, <2>1 DEF Unpackings
<1>4. ASSUME NEW rest \in f[After(t, Newline)]
      PROVE  [rest EXCEPT !.legend = <<Before(t, Newline)>> \o @] \in Unpackings
  <2>1. rest \in [legend : Lists, body : Texts]
    BY <1>2 DEF Unpackings
  <2>2. <<Before(t, Newline)>> \o rest.legend \in Lists
    BY <1>1, <2>1, ListJoin
  <2> QED BY <2>1, <2>2, Zenon DEF Unpackings
<1> QED BY <1>3, <1>4, Zenon DEF UnpackStep

LEMMA UnpackStepsAgree ==
  ASSUME NEW f, NEW g, \A t \in Texts : f[t] = UnpackStep(t, f), \A t \in Texts : g[t] = UnpackStep(t, g)
  PROVE  \A t \in Texts : f[t] = g[t]
<1> DEFINE P == {t \in Texts : f[t] = g[t]}
<1>1. ASSUME NEW t \in Texts, \A u \in Texts : Len(u) < Len(t) => u \in P PROVE t \in P
  <2>1. \A u \in Texts : Len(u) < Len(t) => f[u] = g[u]
    BY <1>1
  <2>2. UnpackStep(t, f) = UnpackStep(t, g)
    BY <2>1, UnpackStepIsLocal
  <2> QED BY <2>2
<1>2. \A t \in Texts : t \in P
  <2> HIDE DEF P
  <2> QED BY <1>1, ShorterFirst
<1> QED BY <1>2

LEMMA UnpackSteps ==
  \E f \in [Texts -> SUBSET Unpackings] : \A t \in Texts : f[t] = Unpacked(t) /\ f[t] = UnpackStep(t, f)
<1> DEFINE V == SUBSET Unpackings
           G == [x \in Texts \X [Texts -> V] |-> UnpackStep(x[1], x[2])]
           IsIt(h) == h = [t \in Texts |->
                             IF t = << >> THEN {}
                             ELSE IF Before(t, Newline) = Boundary
                               THEN {[legend |-> << >>, body |-> After(t, Newline)]}
                             ELSE {[rest EXCEPT !.legend = <<Before(t, Newline)>> \o @] :
                                     rest \in h[After(t, Newline)]}]
           f == CHOOSE h : IsIt(h)
<1>1. G \in [Texts \X [Texts -> V] -> V]
  <2>1. ASSUME NEW t \in Texts, NEW h \in [Texts -> V] PROVE UnpackStep(t, h) \in V
    BY UnpackStepIsTyped
  <2> HIDE DEF V
  <2> QED BY <2>1
<1>2. \A t \in Texts : \A h \in [Texts -> V] : G[<<t, h>>] = UnpackStep(t, h)
  OBVIOUS
<1>3. Local(G, Shorter, Texts, V)
  <2> SUFFICES ASSUME NEW t \in Texts, NEW g \in [Texts -> V], NEW h \in [Texts -> V],
                      \A u \in Texts : Shorter[u] < Shorter[t] => g[u] = h[u]
               PROVE  G[<<t, g>>] = G[<<t, h>>]
    BY Zenon DEF Local
  <2>1. \A u \in Texts : Len(u) < Len(t) => g[u] = h[u]
    BY LengthsAreNumbers
  <2>2. UnpackStep(t, g) = UnpackStep(t, h)
    BY <2>1, UnpackStepIsLocal
  <2> HIDE DEF G
  <2> QED BY <1>2, <2>2
<1>4. {} \in V
  OBVIOUS
<1>5. PICK h \in [Texts -> V] : Ruled(h, Texts, G)
  <2> HIDE DEF G, V
  <2> QED BY <1>1, <1>3, <1>4, LengthsAreNumbers, RecursionExists, Zenon
<1>6. \A t \in Texts : h[t] = UnpackStep(t, h)
  <2> HIDE DEF G
  <2> QED BY <1>2, <1>5, Zenon DEF Ruled
<1>7. IsIt(h)
  BY <1>5, <1>6 DEF UnpackStep
<1>8. IsIt(f)
  BY <1>7, Zenon
<1>9. \A t \in Texts : f[t] = Unpacked(t)
  BY DEF Unpacked
<1> HIDE DEF f
<1>10. \A t \in Texts : f[t] = UnpackStep(t, f)
  BY <1>8, Zenon DEF UnpackStep
<1>11. PICK k : k = f
  OBVIOUS
<1>12. \A t \in Texts : k[t] = UnpackStep(t, k)
  BY <1>10, <1>11
<1>13. \A t \in Texts : k[t] = h[t]
  <2> HIDE DEF V, G, IsIt
  <2>1. ASSUME NEW t \in Texts PROVE k[t] = h[t]
    BY <1>6, <1>12, UnpackStepsAgree
  <2> QED BY <2>1
<1>14. k = h
  BY <1>5, <1>8, <1>11, <1>13, Zenon
<1> QED BY <1>5, <1>9, <1>11, <1>12, <1>14

LEMMA UnpackLaws ==
  ASSUME NEW t \in Texts
  PROVE  /\ Unpacked(t) \in SUBSET Unpackings
         /\ t = << >> => Unpacked(t) = {}
         /\ t # << >> /\ Before(t, Newline) = Boundary =>
              Unpacked(t) = {[legend |-> << >>, body |-> After(t, Newline)]}
         /\ t # << >> /\ Before(t, Newline) # Boundary =>
              Unpacked(t) = {[rest EXCEPT !.legend = <<Before(t, Newline)>> \o @] :
                               rest \in Unpacked(After(t, Newline))}
<1>1. PICK f \in [Texts -> SUBSET Unpackings] : \A u \in Texts : f[u] = Unpacked(u) /\ f[u] = UnpackStep(u, f)
  BY UnpackSteps
<1>2. After(t, Newline) \in Texts
  BY Cut, NewlineIsASymbol, Zenon
<1>3. Unpacked(t) = UnpackStep(t, f) /\ f[After(t, Newline)] = Unpacked(After(t, Newline)) /\ f[t] = Unpacked(t)
  BY <1>1, <1>2
<1>4. f[t] \in SUBSET Unpackings
  BY <1>1
<1> QED BY <1>3, <1>4, Zenon DEF UnpackStep

(* Each text of a list before a separator.                                  *)
Ended(q, s) == [i \in DOMAIN q |-> q[i] \o <<s>>]
LEMMA EndedList ==
  ASSUME NEW s \in Symbols, NEW q \in Lists, NEW t \in Texts
  PROVE  /\ Ended(q, s) \in Lists /\ Ended(<< >>, s) = << >>
         /\ Ended(<<t>> \o q, s) = <<t \o <<s>>>> \o Ended(q, s) /\ t \o <<s>> \in Texts
<1>0. ASSUME NEW u \in Texts PROVE u \o <<s>> \in Texts
  <2>1. <<s>> \in Texts
    BY Single DEF Texts
  <2> QED BY <2>1, Joined
<1>1. ASSUME NEW r \in Lists
      PROVE  Ended(r, s) \in Lists /\ Len(Ended(r, s)) = Len(r) /\ \A i \in 1..Len(r) : Ended(r, s)[i] = r[i] \o <<s>>
  <2>1. DOMAIN r = 1..Len(r) /\ Len(r) \in Nat /\ \A i \in 1..Len(r) : r[i] \in Texts
    BY DEF Lists
  <2>2. \A i \in 1..Len(r) : r[i] \o <<s>> \in Texts
    BY <1>0, <2>1
  <2>3. Ended(r, s) \in [1..Len(r) -> Texts]
    BY <2>1, <2>2 DEF Ended
  <2>4. Ended(r, s) \in Seq(Texts) /\ Len(Ended(r, s)) = Len(r)
    BY <2>1, <2>3, ASequence
  <2> QED BY <2>1, <2>4 DEF Ended, Lists
<1>2. << >> \in Lists /\ Ended(<< >>, s) = << >>
  <2>1. << >> \in Lists
    BY DEF Lists
  <2> QED BY <2>1 DEF Ended
<1>3. PICK r : r = <<t>> \o q
  BY Zenon
<1>4. r \in Lists /\ Len(r) = Len(q) + 1 /\ Len(q) \in Nat /\ r[1] = t /\ \A i \in 1..Len(q) : r[i + 1] = q[i]
  BY <1>3, ListJoin
<1>5. PICK y \in Texts : y = t \o <<s>>
  BY <1>0, Zenon
<1>6. PICK l \in Lists : l = Ended(q, s)
  BY <1>1
<1>7. PICK w : w = <<y>> \o l
  BY Zenon
<1>8. w \in Lists /\ Len(w) = Len(l) + 1 /\ w[1] = y /\ \A i \in 1..Len(l) : w[i + 1] = l[i]
  BY <1>7, ListJoin
<1>9. Len(l) = Len(q)
  BY <1>1, <1>6
<1>10. Ended(r, s) \in Lists /\ Len(Ended(r, s)) = Len(r) /\ \A i \in 1..Len(r) : Ended(r, s)[i] = r[i] \o <<s>>
  BY <1>1, <1>4
<1>11. ASSUME NEW i \in 1..Len(r) PROVE Ended(r, s)[i] = w[i]
  <2>1. CASE i = 1
    BY <1>4, <1>5, <1>8, <1>10, <2>1, Zenon
  <2>2. CASE i # 1
    <3>1. i - 1 \in 1..Len(q) /\ (i - 1) + 1 = i
      BY <1>4, <2>2
    <3>2. r[i] = q[i - 1] /\ w[i] = l[i - 1]
      BY <1>4, <1>8, <1>9, <3>1, Zenon
    <3>3. l[i - 1] = q[i - 1] \o <<s>>
      BY <1>1, <1>6, <3>1, Zenon
    <3> QED BY <1>10, <3>2, <3>3, Zenon
  <2> QED BY <2>1, <2>2
<1>12. Ended(r, s) = w
  <2>1. Len(Ended(r, s)) = Len(w)
    BY <1>4, <1>8, <1>9, <1>10
  <2> QED BY <1>8, <1>10, <1>11, <2>1, SameList, Zenon
<1> QED BY <1>0, <1>1, <1>2, <1>3, <1>5, <1>6, <1>7, <1>12, Zenon

(* The legend of a container is read back line by line, and the body after  *)
(* it.                                                                      *)
LEMMA BoundaryIsAText == Boundary \in Texts /\ ~Holds(Boundary, <<Newline>>) /\ ~Holds(Boundary, <<Equals>>)
<1>1. Magic \in Symbols /\ Space \in Symbols /\ "body" \in Symbols
  BY DEF Symbols
<1>2. Boundary \in Texts /\ Len(Boundary) = 3 /\ \A i \in 1..3 : Boundary[i] \in {Magic, Space, "body"}
  BY <1>1 DEF Boundary, Texts
<1>3. \A i \in 1..Len(Boundary) : Boundary[i] # Newline /\ Boundary[i] # Equals
  BY <1>2, Zenon DEF Magic, Space, Newline, Equals
<1> QED BY <1>2, <1>3, OneOccurs

LegendLines(q) == NoneHolds(q, Newline) /\ \A i \in 1..Len(q) : q[i] # Boundary

LEMMA UnpackedBody ==
  ASSUME NEW b \in Texts
  PROVE  /\ Boundary \o (<<Newline>> \o b) \in Texts
         /\ Unpacked(Boundary \o (<<Newline>> \o b)) = {[legend |-> << >>, body |-> b]}
<1>1. PICK t \in Texts : t = Boundary \o (<<Newline>> \o b)
  BY BoundaryIsAText, NewlineIsASymbol, CutOf, Zenon
<1>2. Holds(t, <<Newline>>) /\ Before(t, Newline) = Boundary /\ After(t, Newline) = b
  BY <1>1, BoundaryIsAText, NewlineIsASymbol, CutOf
<1>3. t # << >>
  BY <1>2 DEF Holds
<1> QED BY <1>1, <1>2, <1>3, UnpackLaws, Zenon

LEMMA NewLegend ==
  ASSUME NEW u \in Unpackings, NEW w
  PROVE  [u EXCEPT !.legend = w] = [legend |-> w, body |-> u.body]
BY DEF Unpackings

LEMMA UnpackedOf ==
  ASSUME NEW q0 \in Lists, LegendLines(q0), NEW b \in Texts
  PROVE  Unpacked(FlattenSeq(Ended(q0, Newline)) \o (Boundary \o (<<Newline>> \o b)))
           = {[legend |-> q0, body |-> b]}
<1> DEFINE P == {q \in Lists : LegendLines(q) =>
                   Unpacked(FlattenSeq(Ended(q, Newline)) \o (Boundary \o (<<Newline>> \o b)))
                     = {[legend |-> q, body |-> b]}}
<1>1. PICK last \in Texts : last = Boundary \o (<<Newline>> \o b)
  BY UnpackedBody, Zenon
<1>2. << >> \in P
  <2>1. << >> \in Lists
    BY DEF Lists
  <2>2. FlattenSeq(Ended(<< >>, Newline)) = << >>
    BY <2>1, EndedList, NewlineIsASymbol, NothingBefore, FlatLaws, Zenon
  <2>3. << >> \o last = last
    BY NothingBefore
  <2> QED BY <1>1, <2>1, <2>2, <2>3, UnpackedBody, Zenon
<1>3. ASSUME NEW t \in Texts, NEW q \in Lists, q \in P PROVE <<t>> \o q \in P
  <2>1. PICK r : r = <<t>> \o q
    BY Zenon
  <2>2. r \in Lists /\ Len(r) = Len(q) + 1 /\ Len(q) \in Nat /\ r[1] = t /\ \A i \in 1..Len(q) : r[i + 1] = q[i]
    BY <2>1, ListJoin
  <2>3. ASSUME LegendLines(r)
        PROVE  Unpacked(FlattenSeq(Ended(r, Newline)) \o last) = {[legend |-> r, body |-> b]}
    <3>1. ~Holds(t, <<Newline>>) /\ t # Boundary
      <4>1. 1 \in 1..Len(r)
        BY <2>2
      <4> QED BY <2>2, <2>3, <4>1 DEF NoneHolds, LegendLines
    <3>2. LegendLines(q)
      <4>1. \A i \in 1..Len(q) : i + 1 \in 1..Len(r)
        BY <2>2
      <4> QED BY <2>2, <2>3, <4>1 DEF NoneHolds, LegendLines
    <3>3. Ended(q, Newline) \in Lists
      BY EndedList, NewlineIsASymbol, Zenon
    <3>4. PICK rest \in Texts : rest = FlattenSeq(Ended(q, Newline))
      BY <3>3, FlatLaws, Zenon
    <3>5. Ended(r, Newline) = <<t \o <<Newline>>>> \o Ended(q, Newline) /\ t \o <<Newline>> \in Texts
      BY <2>1, EndedList, NewlineIsASymbol, Zenon
    <3>6. FlattenSeq(Ended(r, Newline)) = (t \o <<Newline>>) \o rest
      BY <3>3, <3>4, <3>5, FlatLaws, Zenon
    <3>7. <<Newline>> \in Texts
      BY NewlineIsASymbol, Single DEF Texts
    <3>8. PICK y \in Texts : y = rest \o last
      BY Joined, Zenon
    <3>9. ((t \o <<Newline>>) \o rest) \o last = t \o (<<Newline>> \o y)
      <4>1. ((t \o <<Newline>>) \o rest) \o last = (t \o <<Newline>>) \o y
        BY <3>5, <3>8, JoinAgain, ZenonT(60)
      <4>2. (t \o <<Newline>>) \o y = t \o (<<Newline>> \o y)
        BY <3>7, JoinAgain
      <4> QED BY <4>1, <4>2, Zenon
    <3>10. PICK z \in Texts : z = t \o (<<Newline>> \o y)
      BY <3>1, NewlineIsASymbol, CutOf, Zenon
    <3>11. Holds(z, <<Newline>>) /\ Before(z, Newline) = t /\ After(z, Newline) = y
      BY <3>1, <3>10, NewlineIsASymbol, CutOf
    <3>12. z # << >>
      BY <3>11 DEF Holds
    <3>13. Unpacked(z) = {[u EXCEPT !.legend = <<t>> \o @] : u \in Unpacked(y)}
      BY <3>1, <3>11, <3>12, UnpackLaws
    <3>14. Unpacked(y) = {[legend |-> q, body |-> b]}
      BY <1>1, <1>3, <3>2, <3>4, <3>8
    <3>15. Unpacked(z) = {[[legend |-> q, body |-> b] EXCEPT !.legend = <<t>> \o @]}
      BY <3>13, <3>14
    <3>16. [[legend |-> q, body |-> b] EXCEPT !.legend = <<t>> \o @] = [legend |-> r, body |-> b]
      <4>1. PICK u : u = [legend |-> q, body |-> b]
        BY Zenon
      <4>2. u \in Unpackings /\ u.legend = q /\ u.body = b
        BY <4>1 DEF Unpackings
      <4>3. [u EXCEPT !.legend = <<t>> \o u.legend] = [legend |-> <<t>> \o u.legend, body |-> u.body]
        BY <4>2, NewLegend, Zenon
      <4> QED BY <2>1, <4>1, <4>2, <4>3
    <3> QED BY <3>6, <3>9, <3>10, <3>15, <3>16, Zenon
  <2> QED BY <1>1, <2>1, <2>2, <2>3, Zenon
<1>4. \A q \in Lists : q \in P
  <2> HIDE DEF P
  <2> QED BY <1>2, <1>3, ListInduction
<1> QED BY <1>4

-----------------------------------------------------------------------------
(* What a container is written as is read as that container. *)

Fields == Seq(Symbols \X Texts)
Plain(t) == t \in Texts /\ ~Holds(t, <<Space>>) /\ ~Holds(t, <<Newline>>)
Named(params) == \A i \in 1..Len(params) : params[i][1] \notin {Space, Equals, Newline} /\ Plain(params[i][2])
Words(params) == [i \in DOMAIN params |-> <<params[i][1]>> \o (<<Equals>> \o params[i][2])]

LEMMA FieldsAreTexts ==
  ASSUME NEW ps \in Fields
  PROVE  /\ Len(ps) \in Nat /\ DOMAIN ps = 1..Len(ps)
         /\ \A i \in 1..Len(ps) : ps[i][1] \in Symbols /\ ps[i][2] \in Texts /\ ps[i] = <<ps[i][1], ps[i][2]>>
BY DEF Fields

LEMMA AWord ==
  ASSUME NEW k \in Symbols, k \notin {Space, Equals, Newline}, NEW v, Plain(v)
  PROVE  /\ Plain(<<k>> \o (<<Equals>> \o v)) /\ Holds(<<k>> \o (<<Equals>> \o v), <<Equals>>)
         /\ SplitOnce(<<k>> \o (<<Equals>> \o v), Equals) = {<<<<k>>, v>>}
         /\ <<Space, k, Equals>> \o v = <<Space>> \o (<<k>> \o (<<Equals>> \o v))
<1> USE NewlineIsASymbol
<1>1. v \in Texts /\ ~Holds(v, <<Space>>) /\ ~Holds(v, <<Newline>>)
  BY DEF Plain
<1>2. <<k>> \in Texts /\ ~Holds(<<k>>, <<Space>>) /\ ~Holds(<<k>>, <<Newline>>) /\ ~Holds(<<k>>, <<Equals>>)
  BY HoldsInOne
<1>3. <<Equals>> \in Texts /\ ~Holds(<<Equals>>, <<Space>>) /\ ~Holds(<<Equals>>, <<Newline>>)
  BY HoldsInOne
<1>4. PICK y \in Texts : y = <<Equals>> \o v
  BY <1>1, <1>3, Joined, Zenon
<1>5. ~Holds(y, <<Space>>) /\ ~Holds(y, <<Newline>>)
  BY <1>1, <1>3, <1>4, HoldsASymbol
<1>6. PICK z \in Texts : z = <<k>> \o y
  BY <1>2, Joined, Zenon
<1>7. ~Holds(z, <<Space>>) /\ ~Holds(z, <<Newline>>)
  BY <1>2, <1>5, <1>6, HoldsASymbol
<1>8. Holds(z, <<Equals>>) /\ Before(z, Equals) = <<k>> /\ After(z, Equals) = v
  BY <1>1, <1>2, <1>4, <1>6, CutOf
<1>9. SplitOnce(z, Equals) = {<<<<k>>, v>>}
  BY <1>8 DEF SplitOnce
<1>10. <<Space, k, Equals>> \o v = <<Space>> \o z
  <2>1. <<Space>> \in Texts
    BY Single DEF Texts
  <2>2. PICK e : e = <<Space, k, Equals>>
    BY Zenon
  <2>4. <<k>> \o <<Equals>> \in Texts
    BY <1>2, <1>3, Joined
  <2>3. e = <<Space>> \o (<<k>> \o <<Equals>>)
    <3>1. e \in Texts /\ Len(e) = 3 /\ e[1] = Space /\ e[2] = k /\ e[3] = Equals
      BY <2>2 DEF Texts
    <3>2. PICK w \in Texts : w = <<k>> \o <<Equals>>
      BY <2>4, Zenon
    <3>3. Len(<<Equals>>) = 1 /\ <<Equals>>[1] = Equals
      OBVIOUS
    <3>4. Len(w) = 2 /\ w[1] = k /\ w[2] = Equals
      <4>1. 1 \in 1..Len(<<Equals>>) /\ 1 + 1 = 2
        BY <3>3
      <4> QED BY <1>3, <3>2, <3>3, <4>1, OneBefore
    <3>5. PICK x \in Texts : x = <<Space>> \o w
      BY OneBefore, Zenon
    <3>6. Len(x) = 3 /\ x[1] = Space /\ x[2] = k /\ x[3] = Equals
      <4>1. 1 \in 1..Len(w) /\ 2 \in 1..Len(w) /\ 1 + 1 = 2 /\ 2 + 1 = 3
        BY <3>4
      <4>2. Len(x) = Len(w) + 1 /\ x[1] = Space /\ \A i \in 1..Len(w) : x[i + 1] = w[i]
        BY <3>5, OneBefore
      <4> QED BY <3>4, <4>1, <4>2
    <3>7. e = x
      <4>1. \A i \in 1..Len(x) : e[i] = x[i]
        BY <3>1, <3>6
      <4> QED BY <3>1, <3>6, <4>1, SameText, Zenon
    <3> QED BY <3>2, <3>5, <3>7
  <2>5. e \o v = <<Space>> \o ((<<k>> \o <<Equals>>) \o v)
    BY <1>1, <2>1, <2>3, <2>4, JoinAgain
  <2>6. (<<k>> \o <<Equals>>) \o v = <<k>> \o (<<Equals>> \o v)
    BY <1>1, <1>2, <1>3, JoinAgain
  <2> QED BY <1>4, <1>6, <2>2, <2>5, <2>6
<1> QED BY <1>4, <1>6, <1>7, <1>8, <1>9, <1>10 DEF Plain

LEMMA FlatHolds ==
  ASSUME NEW s, NEW q0 \in Lists, NoneHolds(q0, s)
  PROVE  ~Holds(FlattenSeq(q0), <<s>>)
<1> DEFINE P == {q \in Lists : NoneHolds(q, s) => ~Holds(FlattenSeq(q), <<s>>)}
<1>1. << >> \in P
  <2>1. << >> \in Lists /\ << >> \in Texts
    BY DEF Lists, Texts
  <2>2. FlattenSeq(<< >>) = << >>
    BY <2>1, FlatLaws, Zenon
  <2>3. ~Holds(<< >>, <<s>>)
    BY <2>1, OneOccurs
  <2> QED BY <2>1, <2>2, <2>3
<1>2. ASSUME NEW t \in Texts, NEW q \in Lists, q \in P PROVE <<t>> \o q \in P
  <2>1. PICK r : r = <<t>> \o q
    BY Zenon
  <2>2. r \in Lists /\ Len(r) = Len(q) + 1 /\ Len(q) \in Nat /\ r[1] = t /\ \A i \in 1..Len(q) : r[i + 1] = q[i]
    BY <2>1, ListJoin
  <2>3. ASSUME NoneHolds(r, s) PROVE ~Holds(FlattenSeq(r), <<s>>)
    <3>1. 1 \in 1..Len(r) /\ \A i \in 1..Len(q) : i + 1 \in 1..Len(r)
      BY <2>2
    <3>2. ~Holds(t, <<s>>) /\ NoneHolds(q, s)
      BY <2>2, <2>3, <3>1 DEF NoneHolds
    <3>3. ~Holds(FlattenSeq(q), <<s>>)
      BY <1>2, <3>2
    <3>4. FlattenSeq(r) = t \o FlattenSeq(q) /\ FlattenSeq(q) \in Texts
      BY <2>1, FlatLaws, Zenon
    <3> QED BY <3>2, <3>3, <3>4, HoldsASymbol
  <2> QED BY <2>1, <2>2, <2>3
<1>3. \A q \in Lists : q \in P
  <2> HIDE DEF P
  <2> QED BY <1>1, <1>2, ListInduction
<1> QED BY <1>3

LEMMA WordsOf ==
  ASSUME NEW ps \in Fields, Named(ps)
  PROVE  /\ Words(ps) \in Lists /\ Len(Words(ps)) = Len(ps)
         /\ \A i \in 1..Len(ps) : /\ Words(ps)[i] = <<ps[i][1]>> \o (<<Equals>> \o ps[i][2])
                                  /\ Plain(Words(ps)[i]) /\ Holds(Words(ps)[i], <<Equals>>)
                                  /\ SplitOnce(Words(ps)[i], Equals) = {<<<<ps[i][1]>>, ps[i][2]>>}
         /\ Led(Words(ps), Space) = [i \in DOMAIN ps |-> <<Space, ps[i][1], Equals>> \o ps[i][2]]
<1>1. /\ Len(ps) \in Nat /\ DOMAIN ps = 1..Len(ps)
      /\ \A i \in 1..Len(ps) : ps[i][1] \in Symbols /\ ps[i][2] \in Texts /\ ps[i] = <<ps[i][1], ps[i][2]>>
  BY FieldsAreTexts
<1>2. ASSUME NEW i \in 1..Len(ps)
      PROVE  /\ Plain(<<ps[i][1]>> \o (<<Equals>> \o ps[i][2]))
             /\ Holds(<<ps[i][1]>> \o (<<Equals>> \o ps[i][2]), <<Equals>>)
             /\ SplitOnce(<<ps[i][1]>> \o (<<Equals>> \o ps[i][2]), Equals) = {<<<<ps[i][1]>>, ps[i][2]>>}
             /\ <<Space, ps[i][1], Equals>> \o ps[i][2] = <<Space>> \o (<<ps[i][1]>> \o (<<Equals>> \o ps[i][2]))
  <2>1. ps[i][1] \in Symbols /\ ps[i][1] \notin {Space, Equals, Newline} /\ Plain(ps[i][2])
    BY <1>1 DEF Named
  <2> QED BY <2>1, AWord, Zenon
<1>3. \A i \in 1..Len(ps) : <<ps[i][1]>> \o (<<Equals>> \o ps[i][2]) \in Texts
  BY <1>2, Zenon DEF Plain
<1>4. Words(ps) \in [1..Len(ps) -> Texts]
  BY <1>1, <1>3 DEF Words
<1>5. Words(ps) \in Lists /\ Len(Words(ps)) = Len(ps)
  BY <1>1, <1>4, ASequence DEF Lists
<1>6. \A i \in 1..Len(ps) : Words(ps)[i] = <<ps[i][1]>> \o (<<Equals>> \o ps[i][2])
  BY <1>1 DEF Words
<1>7. Led(Words(ps), Space) = [i \in DOMAIN ps |-> <<Space, ps[i][1], Equals>> \o ps[i][2]]
  <2>1. DOMAIN Words(ps) = DOMAIN ps
    BY DEF Words
  <2> QED BY <1>1, <1>2, <1>6, <2>1, Zenon DEF Led
<1> QED BY <1>2, <1>5, <1>6, <1>7, Zenon

HeaderLine(codec, ps) == <<Magic, Space, codec>> \o FlattenSeq(Led(Words(ps), Space))

LEMMA HeaderShape ==
  ASSUME NEW codec \in Symbols, codec \notin {Space, Newline}, NEW ps \in Fields, Named(ps)
  PROVE  /\ HeaderLine(codec, ps) \in Texts /\ ~Holds(HeaderLine(codec, ps), <<Newline>>)
         /\ Len(HeaderLine(codec, ps)) >= 2
         /\ HeaderLine(codec, ps)[1] = Magic /\ HeaderLine(codec, ps)[2] = Space
         /\ Split(SubSeq(HeaderLine(codec, ps), 3, Len(HeaderLine(codec, ps))), Space) = <<<<codec>>>> \o Words(ps)
<1> USE NewlineIsASymbol
<1>1. Words(ps) \in Lists /\ Len(Words(ps)) = Len(ps) /\ \A i \in 1..Len(ps) : Plain(Words(ps)[i])
  BY WordsOf, Zenon
<1>2. NoneHolds(Words(ps), Space) /\ NoneHolds(Words(ps), Newline)
  BY <1>1 DEF NoneHolds, Plain
<1>3. PICK w \in Lists : w = Led(Words(ps), Space)
  BY <1>1, LedList, Nothing, Zenon
<1>4. NoneHolds(w, Newline)
  <2>1. DOMAIN Words(ps) = 1..Len(ps) /\ DOMAIN w = 1..Len(w)
    BY <1>1, <1>3 DEF Lists
  <2>2. DOMAIN w = DOMAIN Words(ps)
    BY <1>3 DEF Led
  <2>3. ASSUME NEW i \in 1..Len(w) PROVE ~Holds(w[i], <<Newline>>)
    <3>1. i \in 1..Len(ps) /\ i \in DOMAIN Words(ps)
      BY <2>1, <2>2
    <3>2. w[i] = <<Space>> \o Words(ps)[i]
      BY <1>3, <3>1 DEF Led
    <3>3. Words(ps)[i] \in Texts /\ ~Holds(Words(ps)[i], <<Newline>>)
      BY <1>1, <3>1 DEF Plain
    <3>4. <<Space>> \in Texts /\ ~Holds(<<Space>>, <<Newline>>)
      BY HoldsInOne
    <3> QED BY <3>2, <3>3, <3>4, HoldsASymbol
  <2> QED BY <2>3 DEF NoneHolds
<1>5. PICK flat \in Texts : flat = FlattenSeq(w)
  BY FlatLaws, Nothing, Zenon
<1>6. ~Holds(flat, <<Newline>>)
  BY <1>4, <1>5, FlatHolds
<1>7. PICK m : m = <<Magic, Space>>
  BY Zenon
<1>8. m \in Texts /\ Len(m) = 2 /\ m[1] = Magic /\ m[2] = Space
  BY <1>7, Two DEF Texts
<1>9. <<codec>> \in Texts /\ ~Holds(<<codec>>, <<Newline>>) /\ ~Holds(<<codec>>, <<Space>>)
      /\ Len(<<codec>>) = 1 /\ <<codec>>[1] = codec
  <2>1. Len(<<codec>>) = 1 /\ <<codec>>[1] = codec
    BY Single
  <2> QED BY <2>1, HoldsInOne
<1>10. PICK rest \in Texts : rest = <<codec>> \o flat
  BY <1>9, Joined, Zenon
<1>11. ~Holds(rest, <<Newline>>)
  BY <1>6, <1>9, <1>10, HoldsASymbol
<1>12. PICK h : h = HeaderLine(codec, ps)
  OBVIOUS
<1>13. h = m \o rest
  <2>1. <<Magic, Space, codec>> = m \o <<codec>>
    <3>1. PICK e : e = <<Magic, Space, codec>>
      BY Zenon
    <3>2. e \in Texts /\ Len(e) = 3 /\ e[1] = Magic /\ e[2] = Space /\ e[3] = codec
      BY <3>1, Three DEF Texts
    <3>3. PICK x \in Texts : x = m \o <<codec>>
      BY <1>8, <1>9, Joined, Zenon
    <3>4. Len(x) = 3 /\ x[1] = Magic /\ x[2] = Space /\ x[3] = codec
      <4>1. /\ Len(x) = Len(m) + Len(<<codec>>)
            /\ \A i \in 1..Len(m) : x[i] = m[i]
            /\ \A i \in 1..Len(<<codec>>) : x[Len(m) + i] = <<codec>>[i]
        BY <1>8, <1>9, <3>3, Joined, ZenonT(60)
      <4>2. 1 \in 1..Len(m) /\ 2 \in 1..Len(m) /\ 1 \in 1..Len(<<codec>>) /\ Len(m) + 1 = 3
            /\ Len(m) + Len(<<codec>>) = 3
        BY <1>8, <1>9
      <4> QED BY <1>8, <1>9, <4>1, <4>2
    <3>5. \A i \in 1..Len(x) : e[i] = x[i]
      BY <3>2, <3>4
    <3> QED BY <3>1, <3>2, <3>3, <3>4, <3>5, SameText
  <2>2. (m \o <<codec>>) \o flat = m \o (<<codec>> \o flat)
    BY <1>8, <1>9, JoinAgain
  <2> QED BY <1>3, <1>5, <1>10, <1>12, <2>1, <2>2, Zenon DEF HeaderLine
<1>14. /\ h \in Texts /\ Len(h) = Len(m) + Len(rest) /\ Len(rest) \in Nat
       /\ \A i \in 1..Len(m) : h[i] = m[i]
       /\ SubSeq(h, Len(m) + 1, Len(h)) = rest
  BY <1>8, <1>13, Joined, Zenon
<1>15. SubSeq(h, 3, Len(h)) = rest
  <2>1. Len(m) + 1 = 3
    BY <1>8
  <2> QED BY <1>14, <2>1, Zenon
<1>16. Split(rest, Space) = <<<<codec>>>> \o Words(ps)
  BY <1>1, <1>2, <1>3, <1>5, <1>9, <1>10, SplitOfJoin, Zenon
<1>17. ~Holds(h, <<Newline>>)
  <2>1. \A i \in 1..Len(m) : m[i] # Newline
    BY <1>8
  <2>2. ~Holds(m, <<Newline>>)
    BY <1>8, <2>1, OneOccurs
  <2> QED BY <1>8, <1>11, <1>13, <2>2, HoldsASymbol
<1>18. Len(h) >= 2 /\ h[1] = Magic /\ h[2] = Space
  <2>1. 1 \in 1..Len(m) /\ 2 \in 1..Len(m) /\ Len(m) + Len(rest) >= 2
    BY <1>8, <1>14
  <2> QED BY <1>8, <1>14, <2>1
<1> QED BY <1>12, <1>14, <1>15, <1>16, <1>17, <1>18, Zenon

LEMMA HeaderOf ==
  ASSUME NEW codec \in Symbols, codec \notin {Space, Newline, "body"}, NEW ps \in Fields, Named(ps),
         NEW line, line = HeaderLine(codec, ps)
  PROVE  HeaderParses(line) /\ Header(line).codec = codec /\ Header(line).params = ps
<1>1. PICK words : words = Split(SubSeq(line, 3, Len(line)), Space)
  OBVIOUS
<1>2. words = <<<<codec>>>> \o Words(ps)
  BY <1>1, HeaderShape
<1>3. <<codec>> \in Texts /\ Len(<<codec>>) = 1 /\ <<codec>>[1] = codec
  BY Single DEF Texts
<1>4. /\ Words(ps) \in Lists /\ Len(Words(ps)) = Len(ps)
      /\ \A i \in 1..Len(ps) : /\ Holds(Words(ps)[i], <<Equals>>)
                               /\ SplitOnce(Words(ps)[i], Equals) = {<<<<ps[i][1]>>, ps[i][2]>>}
  BY WordsOf, Zenon
<1>5. PICK c \in Texts : c = <<codec>>
  BY <1>3
<1>6. words = <<c>> \o Words(ps)
  BY <1>2, <1>5
<1>7. /\ words \in Lists /\ Len(words) = Len(ps) + 1 /\ words[1] = c
      /\ \A i \in 1..Len(ps) : words[i + 1] = Words(ps)[i]
  BY <1>4, <1>6, ListJoin
<1>8. /\ Len(ps) \in Nat /\ DOMAIN ps = 1..Len(ps)
      /\ \A i \in 1..Len(ps) : ps[i][1] \in Symbols /\ ps[i] = <<ps[i][1], ps[i][2]>>
  BY FieldsAreTexts
<1>9. HeaderParses(line)
  <2>1. Len(line) >= 2 /\ line[1] = Magic /\ line[2] = Space
    BY HeaderShape, Zenon
  <2>2. words[1] \notin {<< >>, <<"body">>}
    <3>1. <<codec>> # <<"body">>
      <4>1. <<"body">>[1] = "body"
        OBVIOUS
      <4> QED BY <1>3, <4>1
    <3>2. <<codec>> # << >>
      OBVIOUS
    <3> QED BY <1>5, <1>7, <3>1, <3>2
  <2>3. ASSUME NEW i \in 2..Len(words) PROVE Holds(words[i], <<Equals>>)
    <3>1. i - 1 \in 1..Len(ps) /\ (i - 1) + 1 = i
      BY <1>7, <1>8
    <3>2. words[i] = Words(ps)[i - 1]
      BY <1>7, <3>1
    <3> QED BY <1>4, <3>1, <3>2
  <2> QED BY <1>1, <2>1, <2>2, <2>3 DEF HeaderParses
<1>10. Header(line).codec = codec
  <2>1. Header(line).codec = IF Len(words[1]) = 1 THEN words[1][1] ELSE "unknown"
    BY <1>1 DEF Header
  <2> QED BY <1>3, <1>5, <1>7, <2>1
<1>11. Header(line).params = ps
  <2> DEFINE KV(i) == CHOOSE kv \in SplitOnce(words[i + 1], Equals) : TRUE
             F(i) == <<IF Len(KV(i)[1]) = 1 THEN KV(i)[1][1] ELSE "unknown", KV(i)[2]>>
  <2>1. Header(line).params = [i \in 1..Len(words) - 1 |-> F(i)]
    BY <1>1 DEF Header
  <2>2. ASSUME NEW i \in 1..Len(ps) PROVE F(i) = ps[i]
    <3>1. SplitOnce(words[i + 1], Equals) = {<<<<ps[i][1]>>, ps[i][2]>>}
      BY <1>4, <1>7
    <3>2. KV(i) = <<<<ps[i][1]>>, ps[i][2]>>
      BY <3>1
    <3> HIDE DEF KV
    <3>3. KV(i)[1] = <<ps[i][1]>> /\ KV(i)[2] = ps[i][2]
      BY <3>2
    <3>4. Len(<<ps[i][1]>>) = 1 /\ <<ps[i][1]>>[1] = ps[i][1]
      OBVIOUS
    <3>5. F(i) = <<ps[i][1], ps[i][2]>>
      BY <3>3, <3>4
    <3> QED BY <1>8, <3>5
  <2>3. Len(words) - 1 = Len(ps)
    BY <1>7, <1>8
  <2>4. [i \in 1..Len(ps) |-> ps[i]] = ps
    BY <1>8 DEF Fields
  <2> HIDE DEF F
  <2> QED BY <2>1, <2>2, <2>3, <2>4
<1> QED BY <1>9, <1>10, <1>11

WellFormed(codec, ps, lines, body) ==
  /\ codec \in Symbols /\ codec \notin {Space, Newline, "body"}
  /\ ps \in Fields /\ Named(ps)
  /\ lines \in Lists /\ LegendLines(lines) /\ body \in Texts

SixAgree(x, n, l, b, y) == (((((x \o n) \o l) \o b) \o n) \o y) = x \o (n \o (l \o (b \o (n \o y))))

LEMMA SixJoined ==
  ASSUME NEW x \in Texts, NEW n \in Texts, NEW l \in Texts, NEW b \in Texts, NEW y \in Texts
  PROVE  /\ l \o (b \o (n \o y)) \in Texts /\ x \o (n \o (l \o (b \o (n \o y)))) \in Texts
         /\ SixAgree(x, n, l, b, y)
<1>1. n \o y \in Texts
  BY Joined
<1>2. x \o n \in Texts
  BY Joined
<1>3. b \o (n \o y) \in Texts
  BY <1>1, Joined
<1>4. (x \o n) \o l \in Texts
  BY <1>2, Joined
<1>5. l \o (b \o (n \o y)) \in Texts
  BY <1>3, Joined
<1>6. ((x \o n) \o l) \o b \in Texts
  BY <1>4, Joined
<1>7. n \o (l \o (b \o (n \o y))) \in Texts
  BY <1>5, Joined
<1>8. x \o (n \o (l \o (b \o (n \o y)))) \in Texts
  BY <1>7, Joined
<1>9. (((((x \o n) \o l) \o b) \o n) \o y) = (((x \o n) \o l) \o b) \o (n \o y)
  BY <1>6, JoinAgain, ZenonT(60)
<1>10. (((x \o n) \o l) \o b) \o (n \o y) = ((x \o n) \o l) \o (b \o (n \o y))
  BY <1>1, <1>4, JoinAgain, ZenonT(60)
<1>11. ((x \o n) \o l) \o (b \o (n \o y)) = (x \o n) \o (l \o (b \o (n \o y)))
  BY <1>2, <1>3, JoinAgain, ZenonT(60)
<1>12. (x \o n) \o (l \o (b \o (n \o y))) = x \o (n \o (l \o (b \o (n \o y))))
  BY <1>5, JoinAgain, ZenonT(60)
<1> QED BY <1>5, <1>8, <1>9, <1>10, <1>11, <1>12 DEF SixAgree

LEMMA EmitShape ==
  ASSUME NEW codec, NEW ps, NEW lines, NEW body, WellFormed(codec, ps, lines, body)
  PROVE  \E tail \in Texts :
           /\ tail = FlattenSeq(Ended(lines, Newline)) \o (Boundary \o (<<Newline>> \o body))
           /\ Emit(Container(codec, ps, lines, body)) = HeaderLine(codec, ps) \o (<<Newline>> \o tail)
           /\ Emit(Container(codec, ps, lines, body)) \in Texts
<1> USE NewlineIsASymbol
<1>1. /\ codec \in Symbols /\ codec \notin {Space, Newline} /\ ps \in Fields /\ Named(ps) /\ lines \in Lists
      /\ body \in Texts
  BY DEF WellFormed
<1>2. PICK x \in Texts : x = HeaderLine(codec, ps)
  BY <1>1, HeaderShape, Zenon
<1>3. PICK n \in Texts : n = <<Newline>>
  <2>1. <<Newline>> \in Texts
    BY Single DEF Texts
  <2> QED BY <2>1
<1>4. PICK l \in Texts : l = FlattenSeq(Ended(lines, Newline))
  <2>1. Ended(lines, Newline) \in Lists
    BY <1>1, EndedList, Zenon
  <2>2. FlattenSeq(Ended(lines, Newline)) \in Texts
    BY <1>1, <2>1, FlatLaws, Zenon
  <2> QED BY <2>2
<1>5. PICK b \in Texts : b = Boundary
  BY BoundaryIsAText
<1>6. Emit(Container(codec, ps, lines, body)) = (((((x \o n) \o l) \o b) \o n) \o body)
  <2>1. Led(Words(ps), Space) = [i \in DOMAIN ps |-> <<Space, ps[i][1], Equals>> \o ps[i][2]]
    BY <1>1, WordsOf
  <2>2. x = <<Magic, Space, codec>> \o FlattenSeq([i \in DOMAIN ps |-> <<Space, ps[i][1], Equals>> \o ps[i][2]])
    BY <1>2, <2>1 DEF HeaderLine
  <2>3. l = FlattenSeq([i \in DOMAIN lines |-> lines[i] \o <<Newline>>])
    BY <1>4 DEF Ended
  <2> QED BY <1>3, <1>5, <2>2, <2>3, Zenon DEF Emit, Container
<1>7. PICK tail \in Texts : tail = l \o (b \o (n \o body))
  BY <1>1, <1>3, <1>4, <1>5, SixJoined, Zenon
<1>8. (((((x \o n) \o l) \o b) \o n) \o body) = x \o (n \o tail) /\ x \o (n \o tail) \in Texts
  <2>1. body \in Texts
    BY <1>1
  <2>2. (((((x \o n) \o l) \o b) \o n) \o body) = x \o (n \o (l \o (b \o (n \o body))))
    <3>1. SixAgree(x, n, l, b, body)
      BY <2>1, SixJoined, Zenon
    <3> QED BY <3>1 DEF SixAgree
  <2>3. x \o (n \o (l \o (b \o (n \o body)))) \in Texts
    BY <2>1, SixJoined, Zenon
  <2> QED BY <1>7, <2>2, <2>3
<1>9. tail = FlattenSeq(Ended(lines, Newline)) \o (Boundary \o (<<Newline>> \o body))
  BY <1>3, <1>4, <1>5, <1>7
<1> QED BY <1>2, <1>3, <1>6, <1>7, <1>8, <1>9, Zenon

LEMMA ParseEmit ==
  ASSUME NEW codec, NEW ps, NEW lines, NEW body, WellFormed(codec, ps, lines, body)
  PROVE  /\ Emit(Container(codec, ps, lines, body)) \in Texts
         /\ Parse(Emit(Container(codec, ps, lines, body))) = {Container(codec, ps, lines, body)}
<1>1. /\ codec \in Symbols /\ codec \notin {Space, Newline, "body"} /\ ps \in Fields /\ Named(ps) /\ lines \in Lists
      /\ body \in Texts /\ LegendLines(lines)
  BY DEF WellFormed
<1>2. PICK text \in Texts : text = Emit(Container(codec, ps, lines, body))
  <2>1. Emit(Container(codec, ps, lines, body)) \in Texts
    BY EmitShape, Zenon
  <2> QED BY <2>1
<1>3. PICK tail \in Texts :
        /\ tail = FlattenSeq(Ended(lines, Newline)) \o (Boundary \o (<<Newline>> \o body))
        /\ Emit(Container(codec, ps, lines, body)) = HeaderLine(codec, ps) \o (<<Newline>> \o tail)
        /\ Emit(Container(codec, ps, lines, body)) \in Texts
  BY EmitShape, Zenon
<1>4. PICK line \in Texts : line = HeaderLine(codec, ps)
  BY <1>1, HeaderShape, Zenon
<1>5. ~Holds(line, <<Newline>>)
  BY <1>1, <1>4, HeaderShape, Zenon
<1>6. Before(text, Newline) = line /\ After(text, Newline) = tail
  <2>1. text = line \o (<<Newline>> \o tail)
    BY <1>2, <1>3, <1>4
  <2>2. Newline \in Symbols
    BY NewlineIsASymbol
  <2>3. /\ Before(line \o (<<Newline>> \o tail), Newline) = line
        /\ After(line \o (<<Newline>> \o tail), Newline) = tail
    BY <1>5, <2>2, CutOf
  <2> QED BY <2>1, <2>3
<1>7. HeaderParses(line) /\ Header(line).codec = codec /\ Header(line).params = ps
  BY <1>1, <1>4, HeaderOf
<1>8. Unpacked(tail) = {[legend |-> lines, body |-> body]}
  BY <1>1, <1>3, UnpackedOf
<1>9. Parse(text) = {Container(Header(line).codec, Header(line).params, rest.legend, rest.body) :
                       rest \in Unpacked(tail)}
  BY <1>6, <1>7 DEF Parse
<1>10. Parse(text) = {Container(codec, ps, lines, body)}
  <2>1. PICK u : u = [legend |-> lines, body |-> body]
    BY Zenon
  <2>2. u.legend = lines /\ u.body = body
    BY <2>1
  <2>3. Parse(text) = {Container(codec, ps, rest.legend, rest.body) : rest \in {u}}
    BY <1>7, <1>8, <1>9, <2>1
  <2> QED BY <2>2, <2>3
<1> QED BY <1>2, <1>10

-----------------------------------------------------------------------------
(* Part 2.  Decoding. *)

(* The newlines of a text, which every layer that is taken off has fewer of. *)

Newlines(t) == Len(Split(t, Newline)) - 1

LEMMA NewlinesLaws ==
  ASSUME NEW t \in Texts
  PROVE  /\ Newlines(t) \in Nat
         /\ ~Holds(t, <<Newline>>) => Newlines(t) = 0
         /\ Holds(t, <<Newline>>) => Newlines(t) = 1 + Newlines(After(t, Newline))
<1> USE NewlineIsASymbol
<1>1. ASSUME NEW u \in Texts PROVE Split(u, Newline) \in Lists /\ Len(Split(u, Newline)) \in Nat
  <2>1. Split(u, Newline) \in Lists
    BY SplitLaws, Zenon
  <2> QED BY <2>1 DEF Lists
<1>2. ASSUME NEW u \in Texts, ~Holds(u, <<Newline>>) PROVE Newlines(u) = 0
  <2>1. Split(u, Newline) = <<u>>
    BY <1>2, SplitLaws, Zenon
  <2> QED BY <2>1 DEF Newlines
<1>3. ASSUME NEW u \in Texts, Holds(u, <<Newline>>)
      PROVE  Newlines(u) = 1 + Newlines(After(u, Newline)) /\ Len(Split(u, Newline)) >= 1
  <2>1. Before(u, Newline) \in Texts /\ After(u, Newline) \in Texts
    BY Cut, Zenon
  <2>2. Split(u, Newline) = <<Before(u, Newline)>> \o Split(After(u, Newline), Newline)
    BY <1>3, SplitLaws
  <2>3. PICK q \in Lists : q = Split(After(u, Newline), Newline)
    BY <1>1, <2>1
  <2>4. Len(<<Before(u, Newline)>> \o q) = Len(q) + 1 /\ Len(q) \in Nat
    BY <2>1, ListJoin
  <2> QED BY <2>2, <2>3, <2>4 DEF Newlines
<1>4. Newlines(t) \in Nat
  <2>1. CASE Holds(t, <<Newline>>)
    <3>1. Len(Split(t, Newline)) \in Nat /\ Len(Split(t, Newline)) >= 1
      BY <1>1, <1>3, <2>1
    <3> QED BY <3>1 DEF Newlines
  <2>2. CASE ~Holds(t, <<Newline>>)
    BY <1>2, <2>2
  <2> QED BY <2>1, <2>2
<1> QED BY <1>2, <1>3, <1>4

LEMMA NewlinesOfJoin ==
  ASSUME NEW x0 \in Texts, NEW y \in Texts
  PROVE  Newlines(x0 \o y) = Newlines(x0) + Newlines(y)
<1> USE NewlineIsASymbol
<1> DEFINE P == {x \in Texts : Newlines(x \o y) = Newlines(x) + Newlines(y)}
<1>1. ASSUME NEW x \in Texts, \A u \in Texts : Len(u) < Len(x) => u \in P PROVE x \in P
  <2>0. Newlines(x) \in Nat /\ Newlines(y) \in Nat /\ x \o y \in Texts
    BY Joined, NewlinesLaws
  <2>1. CASE Holds(x, <<Newline>>)
    <3>1. PICK b \in Texts : b = Before(x, Newline)
      BY Cut, Zenon
    <3>2. PICK a \in Texts : a = After(x, Newline)
      BY Cut, Zenon
    <3>3. ~Holds(b, <<Newline>>) /\ x = b \o (<<Newline>> \o a) /\ Len(a) < Len(x)
      BY <2>1, <3>1, <3>2, Cut, Zenon
    <3>4. a \o y \in Texts
      BY Joined
    <3>5. x \o y = b \o (<<Newline>> \o (a \o y))
      <4>1. <<Newline>> \in Texts
        BY Single DEF Texts
      <4>4. <<Newline>> \o a \in Texts
        BY OneBefore
      <4>2. (b \o (<<Newline>> \o a)) \o y = b \o ((<<Newline>> \o a) \o y)
        BY <4>4, JoinAgain, ZenonT(60)
      <4>3. (<<Newline>> \o a) \o y = <<Newline>> \o (a \o y)
        BY <4>1, JoinAgain, ZenonT(60)
      <4> QED BY <3>3, <4>2, <4>3, Zenon
    <3>6. Holds(x \o y, <<Newline>>) /\ After(x \o y, Newline) = a \o y
      <4>1. /\ Holds(b \o (<<Newline>> \o (a \o y)), <<Newline>>)
            /\ After(b \o (<<Newline>> \o (a \o y)), Newline) = a \o y
        BY <3>3, <3>4, CutOf, Zenon
      <4> QED BY <3>5, <4>1, Zenon
    <3>7. Newlines(x \o y) = 1 + Newlines(a \o y)
      BY <2>0, <3>6, NewlinesLaws, Zenon
    <3>8. Newlines(x) = 1 + Newlines(a) /\ Newlines(a) \in Nat
      BY <2>1, <3>2, NewlinesLaws
    <3>9. Newlines(a \o y) = Newlines(a) + Newlines(y)
      BY <1>1, <3>3
    <3> QED BY <2>0, <3>7, <3>8, <3>9
  <2>2. CASE ~Holds(x, <<Newline>>) /\ Holds(y, <<Newline>>)
    <3>1. PICK b \in Texts : b = Before(y, Newline)
      BY Cut, Zenon
    <3>2. PICK a \in Texts : a = After(y, Newline)
      BY Cut, Zenon
    <3>3. ~Holds(b, <<Newline>>) /\ y = b \o (<<Newline>> \o a)
      BY <2>2, <3>1, <3>2, Cut, Zenon
    <3>4. x \o b \in Texts /\ ~Holds(x \o b, <<Newline>>)
      BY <2>2, <3>3, Joined, HoldsASymbol
    <3>5. x \o y = (x \o b) \o (<<Newline>> \o a)
      <4>1. <<Newline>> \o a \in Texts
        BY OneBefore
      <4>2. PICK r \in Texts : r = <<Newline>> \o a
        BY <4>1, Zenon
      <4>3. (x \o b) \o r = x \o (b \o r)
        BY <3>1, JoinAgain, SMTT(30)
      <4> QED BY <3>3, <4>2, <4>3, Zenon
    <3>6. Holds(x \o y, <<Newline>>) /\ After(x \o y, Newline) = a
      <4>1. /\ Holds((x \o b) \o (<<Newline>> \o a), <<Newline>>)
            /\ After((x \o b) \o (<<Newline>> \o a), Newline) = a
        BY <3>4, CutOf
      <4> QED BY <3>5, <4>1
    <3>7. Newlines(x \o y) = 1 + Newlines(a) /\ Newlines(y) = 1 + Newlines(a) /\ Newlines(x) = 0
      BY <2>0, <2>2, <3>2, <3>6, NewlinesLaws
    <3> QED BY <2>0, <3>7
  <2>3. CASE ~Holds(x, <<Newline>>) /\ ~Holds(y, <<Newline>>)
    <3>1. ~Holds(x \o y, <<Newline>>)
      BY <2>3, HoldsASymbol
    <3>2. Newlines(x \o y) = 0 /\ Newlines(x) = 0 /\ Newlines(y) = 0
      BY <2>0, <2>3, <3>1, NewlinesLaws
    <3> QED BY <3>2
  <2> QED BY <2>1, <2>2, <2>3
<1>2. \A x \in Texts : x \in P
  <2> HIDE DEF P
  <2> QED BY <1>1, ShorterFirst
<1> QED BY <1>2

LEMMA ReplaceLater ==
  ASSUME NEW p \in Texts, NEW by \in Texts, NEW s \in Texts, s # << >>, ~(p # << >> /\ OccursAt(s, p, 1))
  PROVE  Replace(s, p, by) = Everywhere(p, by) \o <<Head(s)>> \o Replace(Tail(s), p, by)
<1>1. PICK f \in [Texts -> Texts] : \A u \in Texts : f[u] = Replace(u, p, by) /\ f[u] = ReplaceStep(u, p, by, f)
  BY ReplaceSteps, Zenon
<1>2. Tail(s) \in Texts
  BY HeadAndTail, Zenon
<1>3. f[Tail(s)] = Replace(Tail(s), p, by) /\ Replace(s, p, by) = ReplaceStep(s, p, by, f)
  BY <1>1, <1>2
<1>4. ReplaceStep(s, p, by, f) = Everywhere(p, by) \o <<Head(s)>> \o f[Tail(s)]
  BY Zenon DEF ReplaceStep
<1> QED BY <1>3, <1>4

(* What replaces and what is replaced are of one line each.                 *)
LEMMA ReplaceNewlines ==
  ASSUME NEW p \in Texts, NEW by \in Texts, ~Holds(p, <<Newline>>), ~Holds(by, <<Newline>>), NEW t0 \in Texts
  PROVE  Newlines(Replace(t0, p, by)) = Newlines(t0)
<1> DEFINE P == {t \in Texts : Newlines(Replace(t, p, by)) = Newlines(t)}
<1>0. Everywhere(p, by) \in Texts /\ Newlines(Everywhere(p, by)) = 0 /\ Newlines(by) = 0 /\ Newlines(p) = 0
  <2>1. << >> \in Texts /\ Len(<< >>) = 0
    BY Nothing
  <2>2. ~Holds(<< >>, <<Newline>>)
    BY <2>1, OneOccurs
  <2> QED BY <2>1, <2>2, NewlinesLaws DEF Everywhere
<1>1. ASSUME NEW t \in Texts, \A u \in Texts : Len(u) < Len(t) => u \in P PROVE t \in P
  <2>0. Newlines(t) \in Nat /\ Replace(t, p, by) \in Texts
    BY NewlinesLaws, ReplaceLaws, Zenon
  <2>1. CASE t = << >>
    <3>1. Replace(t, p, by) = Everywhere(p, by)
      BY <2>1, ReplaceLaws, ZenonT(60)
    <3>2. ~Holds(t, <<Newline>>)
      <4>1. Len(t) = 0
        BY <2>1
      <4> QED BY <4>1, OneOccurs
    <3>3. Newlines(t) = 0
      BY <3>2, NewlinesLaws
    <3> QED BY <1>0, <3>1, <3>3
  <2>2. CASE t # << >> /\ p # << >> /\ OccursAt(t, p, 1)
    <3>1. PICK u : u = SubSeq(t, Len(p) + 1, Len(t))
      BY Zenon
    <3>2. u \in Texts /\ Len(u) = Len(t) - Len(p) /\ t = p \o u
      BY <2>2, <3>1, StartsWith
    <3>3. Len(p) \in Nat /\ Len(p) >= 1 /\ Len(t) \in Nat
      BY <2>2 DEF Texts
    <3>4. Len(u) < Len(t)
      BY <3>2, <3>3
    <3>5. Replace(t, p, by) = by \o Replace(u, p, by)
      BY <2>2, <3>1, ReplaceLaws, ZenonT(60)
    <3>6. PICK r \in Texts : r = Replace(u, p, by)
      BY <3>2, ReplaceLaws, Zenon
    <3>7. Newlines(by \o r) = Newlines(by) + Newlines(r) /\ Newlines(p \o u) = Newlines(p) + Newlines(u)
      BY <3>2, NewlinesOfJoin
    <3>8. Newlines(r) = Newlines(u)
      BY <1>1, <3>2, <3>4, <3>6
    <3> QED BY <1>0, <3>2, <3>5, <3>6, <3>7, <3>8, Zenon
  <2>3. CASE t # << >> /\ ~(p # << >> /\ OccursAt(t, p, 1))
    <3>1. PICK u : u = Tail(t)
      BY Zenon
    <3>2. u \in Texts /\ Len(u) < Len(t) /\ t = <<Head(t)>> \o u /\ <<Head(t)>> \in Texts
      BY <2>3, <3>1, HeadAndTail
    <3>3. PICK h \in Texts : h = <<Head(t)>>
      BY <3>2
    <3>4. PICK e \in Texts : e = Everywhere(p, by)
      BY <1>0
    <3>5. PICK r \in Texts : r = Replace(u, p, by)
      BY <3>2, ReplaceLaws, Zenon
    <3>6. Replace(t, p, by) = (e \o h) \o r
      <4>1. Replace(t, p, by) = Everywhere(p, by) \o <<Head(t)>> \o Replace(Tail(t), p, by)
        BY <2>3, ReplaceLater
      <4> QED BY <3>1, <3>3, <3>4, <3>5, <4>1
    <3>7. e \o h \in Texts
      BY Joined
    <3>8. /\ Newlines((e \o h) \o r) = Newlines(e \o h) + Newlines(r) /\ Newlines(e \o h) = Newlines(e) + Newlines(h)
          /\ Newlines(h \o u) = Newlines(h) + Newlines(u)
      BY <3>2, <3>7, NewlinesOfJoin
    <3>9. Newlines(r) = Newlines(u)
      BY <1>1, <3>2, <3>5
    <3>10. Newlines(e) = 0 /\ Newlines(h) \in Nat /\ Newlines(u) \in Nat
      BY <1>0, <3>2, <3>4, NewlinesLaws
    <3>11. Newlines(Replace(t, p, by)) = 0 + Newlines(h) + Newlines(u) /\ Newlines(t) = Newlines(h) + Newlines(u)
      <4>1. t = h \o u
        BY <3>2, <3>3
      <4> QED BY <3>6, <3>8, <3>9, <3>10, <4>1
    <3> QED BY <3>10, <3>11
  <2> QED BY <2>1, <2>2, <2>3
<1>2. \A t \in Texts : t \in P
  <2> HIDE DEF P
  <2> QED BY <1>1, ShorterFirst
<1> QED BY <1>2

-----------------------------------------------------------------------------
(* The texts between the expansions. *)

LEMMA SameSteps ==
  ASSUME NEW hi \in Nat, NEW k, NEW h, k[0] = h[0], \A n \in 1..hi : k[n - 1] = h[n - 1] => k[n] = h[n]
  PROVE  k[hi] = h[hi]
<1> DEFINE P == {n \in 0..hi : k[n] = h[n]}
<1>1. 0 \in P /\ \A n \in 1..hi : n - 1 \in P => n \in P
  OBVIOUS
<1>2. \A n \in 0..hi : n \in P
  <2> HIDE DEF P
  <2> QED BY <1>1, Climbs
<1>3. hi \in 0..hi
  OBVIOUS
<1> QED BY <1>2, <1>3

(* The entry that is expanded at the nth step: the last first.              *)
At(es, n) == es[Len(es) + 1 - n]
ExpandsBy(f, t, es) ==
  /\ f \in [0..Len(es) -> Texts] /\ f[0] = t
  /\ \A n \in 1..Len(es) : f[n] = Replace(f[n - 1], At(es, n)[1], At(es, n)[2])

LEMMA ExpandSteps ==
  ASSUME NEW t \in Texts, NEW es \in Dictionaries
  PROVE  \E f : ExpandsBy(f, t, es) /\ f[Len(es)] = ExpandAll(t, es)
<1> DEFINE hi == Len(es)
           G == [x \in (1..hi) \X Texts |-> Replace(x[2], At(es, x[1])[1], At(es, x[1])[2])]
           IsIt(h) == h = [n \in 0..Len(es) |->
                             IF n = 0 THEN t
                             ELSE Replace(h[n - 1], es[Len(es) + 1 - n][1], es[Len(es) + 1 - n][2])]
           f == CHOOSE h : IsIt(h)
<1>1. hi \in Nat /\ \A n \in 1..hi : At(es, n)[1] \in Texts /\ At(es, n)[2] \in Texts
  <2>1. hi \in Nat /\ \A n \in 1..hi : es[n][1] \in Texts /\ es[n][2] \in Texts
    BY EntriesAreTexts
  <2>2. \A n \in 1..hi : hi + 1 - n \in 1..hi
    BY <2>1
  <2> QED BY <2>1, <2>2 DEF At
<1> HIDE DEF hi
<1>2. \A n \in 1..hi : \A u \in Texts : Replace(u, At(es, n)[1], At(es, n)[2]) \in Texts
  BY <1>1, ReplaceLaws, Zenon
<1>3. G \in [(1..hi) \X Texts -> Texts]
  BY <1>2
<1>4. \A n \in 1..hi : \A u \in Texts : G[<<n, u>>] = Replace(u, At(es, n)[1], At(es, n)[2])
  OBVIOUS
<1>5. PICK h \in [0..hi -> Texts] : h[0] = t /\ \A n \in 1..hi : h[n] = G[<<n, h[n - 1]>>]
  <2> HIDE DEF G
  <2>1. PICK h \in StepRuns(hi, Texts) : StepsBy(h, hi, t, G)
    BY <1>1, <1>3, StepsExist DEF StepRules
  <2> QED BY <2>1, Zenon DEF StepRuns, StepsBy
<1>6. \A n \in 1..hi : n - 1 \in 0..hi
  BY <1>1
<1>7. \A n \in 1..hi : h[n] = Replace(h[n - 1], At(es, n)[1], At(es, n)[2])
  <2> HIDE DEF G
  <2> QED BY <1>4, <1>5, <1>6, Zenon
<1>8. IsIt(h)
  <2>1. \A n \in 0..hi : h[n] = IF n = 0 THEN t ELSE Replace(h[n - 1], At(es, n)[1], At(es, n)[2])
    <3>1. \A n \in 0..hi : n # 0 => n \in 1..hi
      BY <1>1
    <3> QED BY <1>5, <1>7, <3>1
  <2> QED BY <1>5, <2>1 DEF hi, At
<1>9. IsIt(f)
  BY <1>8, Zenon
<1>10. f[Len(es)] = ExpandAll(t, es)
  BY DEF ExpandAll
<1>11. PICK k : k = f
  OBVIOUS
<1>12. k = [n \in 0..hi |-> IF n = 0 THEN t ELSE Replace(k[n - 1], At(es, n)[1], At(es, n)[2])]
  BY <1>9, <1>11, Zenon DEF hi, At
<1> HIDE DEF f, IsIt, G
<1>13. k[0] = h[0] /\ \A n \in 1..hi : k[n - 1] = h[n - 1] => k[n] = h[n]
  <2>1. \A n \in 0..hi : k[n] = IF n = 0 THEN t ELSE Replace(k[n - 1], At(es, n)[1], At(es, n)[2])
    BY <1>12, Zenon
  <2>2. 0 \in 0..hi /\ \A n \in 1..hi : n \in 0..hi /\ n # 0
    BY <1>1
  <2> QED BY <1>5, <1>7, <2>1, <2>2
<1>14. k[hi] = h[hi]
  BY <1>1, <1>13, SameSteps, Zenon
<1> QED BY <1>5, <1>7, <1>10, <1>11, <1>14, Zenon DEF ExpandsBy, hi

OneLiners(es) ==
  \A n \in 1..Len(es) : ~Holds(es[n][1], <<Newline>>) /\ ~Holds(es[n][2], <<Newline>>)

LEMMA ExpandNewlines ==
  ASSUME NEW t \in Texts, NEW es \in Dictionaries, OneLiners(es)
  PROVE  ExpandAll(t, es) \in Texts /\ Newlines(ExpandAll(t, es)) = Newlines(t)
<1>1. PICK f : ExpandsBy(f, t, es) /\ f[Len(es)] = ExpandAll(t, es)
  BY ExpandSteps
<1>2. PICK hi \in Nat : hi = Len(es)
  BY EntriesAreTexts
<1> DEFINE P == {n \in 0..hi : Newlines(f[n]) = Newlines(t)}
<1>3. 0 \in P
  BY <1>1, <1>2 DEF ExpandsBy
<1>4. ASSUME NEW n \in 1..hi, n - 1 \in P PROVE n \in P
  <2>1. Newlines(f[n - 1]) = Newlines(t) /\ n - 1 \in 0..hi
    BY <1>4
  <2>2. f[n - 1] \in Texts
    BY <1>1, <1>2, <2>1 DEF ExpandsBy
  <2>3. PICK m \in 1..hi : m = Len(es) + 1 - n
    BY <1>2, SMTT(30)
  <2>4. es[m][1] \in Texts /\ es[m][2] \in Texts
    BY <1>2, <2>3, EntriesAreTexts
  <2>5. ~Holds(es[m][1], <<Newline>>) /\ ~Holds(es[m][2], <<Newline>>)
    BY <1>2, <2>3 DEF OneLiners
  <2>6. f[n] = Replace(f[n - 1], es[m][1], es[m][2])
    BY <1>1, <1>2, <2>3 DEF ExpandsBy, At
  <2>7. Newlines(f[n]) = Newlines(f[n - 1])
    BY <2>2, <2>4, <2>5, <2>6, ReplaceNewlines
  <2> QED BY <2>1, <2>7
<1>5. \A n \in 0..hi : n \in P
  <2> HIDE DEF P
  <2> QED BY <1>2, <1>3, <1>4, Climbs, Zenon
<1>6. hi \in 0..hi
  BY <1>2
<1>7. Newlines(f[hi]) = Newlines(t) /\ f[hi] \in Texts
  BY <1>1, <1>2, <1>5, <1>6 DEF ExpandsBy
<1> QED BY <1>1, <1>2, <1>7

-----------------------------------------------------------------------------
(* What is parsed: the lines hold no newline, and the body has fewer of     *)
(* them than the text.                                                      *)

LEMMA UnpackedIs ==
  ASSUME NEW t0 \in Texts
  PROVE  \A rest \in Unpacked(t0) :
           /\ rest.legend \in Lists /\ NoneHolds(rest.legend, Newline)
           /\ rest.body \in Texts /\ Newlines(rest.body) <= Newlines(t0)
<1> USE NewlineIsASymbol
<1> DEFINE Good(t, rest) == /\ rest.legend \in Lists /\ NoneHolds(rest.legend, Newline)
                            /\ rest.body \in Texts /\ Newlines(rest.body) <= Newlines(t)
           P == {t \in Texts : \A rest \in Unpacked(t) : Good(t, rest)}
<1>1. ASSUME NEW t \in Texts, \A u \in Texts : Len(u) < Len(t) => u \in P, NEW rest \in Unpacked(t)
      PROVE  Good(t, rest)
  <2>0. t # << >>
    BY <1>1, UnpackLaws, Zenon
  <2>1. PICK b \in Texts : b = Before(t, Newline)
    BY Cut, Zenon
  <2>2. PICK a \in Texts : a = After(t, Newline)
    BY Cut, Zenon
  <2>3. Len(a) < Len(t) /\ ~Holds(b, <<Newline>>)
    BY <2>0, <2>1, <2>2, Cut
  <2>4. Newlines(a) <= Newlines(t) /\ Newlines(a) \in Nat /\ Newlines(t) \in Nat
    <3>1. CASE Holds(t, <<Newline>>)
      <4>1. Newlines(t) = 1 + Newlines(a) /\ Newlines(a) \in Nat
        BY <2>2, <3>1, NewlinesLaws
      <4> QED BY <4>1
    <3>2. CASE ~Holds(t, <<Newline>>)
      <4>1. a = << >>
        BY <2>2, <3>2, Cut
      <4>2. Len(a) = 0
        BY <4>1
      <4>3. ~Holds(a, <<Newline>>)
        BY <4>2, OneOccurs
      <4>4. Newlines(a) = 0 /\ Newlines(t) \in Nat
        BY <4>3, NewlinesLaws
      <4> QED BY <4>4
    <3> QED BY <3>1, <3>2
  <2>5. CASE b = Boundary
    <3>1. Unpacked(t) = {[legend |-> << >>, body |-> a]}
      BY <2>0, <2>1, <2>2, <2>5, UnpackLaws, Zenon
    <3>2. rest.legend = << >> /\ rest.body = a
      BY <1>1, <3>1
    <3>3. << >> \in Lists
      BY Nothing DEF Lists
    <3>4. NoneHolds(<< >>, Newline)
      BY DEF NoneHolds
    <3> QED BY <2>4, <3>2, <3>3, <3>4
  <2>6. CASE b # Boundary
    <3>1. Unpacked(t) = {[r EXCEPT !.legend = <<b>> \o @] : r \in Unpacked(a)}
      BY <2>0, <2>1, <2>2, <2>6, UnpackLaws, Zenon
    <3>2. PICK r \in Unpacked(a) : rest = [r EXCEPT !.legend = <<b>> \o @]
      BY <1>1, <3>1, Zenon
    <3>3. r \in Unpackings
      BY <3>2, UnpackLaws, Zenon
    <3>4. Good(a, r)
      BY <1>1, <2>3, <3>2
    <3>5. rest.legend = <<b>> \o r.legend /\ rest.body = r.body
      BY <3>2, <3>3 DEF Unpackings
    <3>6. <<b>> \o r.legend \in Lists /\ NoneHolds(<<b>> \o r.legend, Newline)
      <4>1. PICK q \in Lists : q = r.legend
        BY <3>4
      <4>2. /\ <<b>> \o q \in Lists /\ Len(<<b>> \o q) = Len(q) + 1 /\ Len(q) \in Nat /\ (<<b>> \o q)[1] = b
            /\ \A i \in 1..Len(q) : (<<b>> \o q)[i + 1] = q[i]
        BY ListJoin
      <4>3. ASSUME NEW i \in 1..Len(<<b>> \o q) PROVE ~Holds((<<b>> \o q)[i], <<Newline>>)
        <5>1. CASE i = 1
          BY <2>3, <4>2, <5>1
        <5>2. CASE i # 1
          <6>1. PICK j \in 1..Len(q) : i = j + 1
            <7>1. i - 1 \in 1..Len(q) /\ i = (i - 1) + 1
              BY <4>2, <5>2
            <7> QED BY <7>1
          <6> QED BY <3>4, <4>1, <4>2, <6>1 DEF NoneHolds
        <5> QED BY <5>1, <5>2
      <4> QED BY <4>1, <4>2, <4>3 DEF NoneHolds
    <3>7. Newlines(r.body) <= Newlines(t)
      <4>1. Newlines(r.body) <= Newlines(a) /\ Newlines(r.body) \in Nat
        BY <3>4, NewlinesLaws
      <4> QED BY <2>4, <4>1
    <3> QED BY <3>4, <3>5, <3>6, <3>7
  <2> QED BY <2>5, <2>6
<1>2. \A t \in Texts : t \in P
  <2>1. ASSUME NEW t \in Texts, \A u \in Texts : Len(u) < Len(t) => u \in P PROVE t \in P
    BY <1>1, <2>1
  <2> HIDE DEF P
  <2> QED BY <2>1, ShorterFirst
<1> QED BY <1>2

LEMMA ParsedIs ==
  ASSUME NEW t \in Texts, NEW c \in Parse(t)
  PROVE  /\ c.legend \in Lists /\ NoneHolds(c.legend, Newline)
         /\ c.body \in Texts /\ Newlines(c.body) < Newlines(t) /\ Newlines(c.body) \in Nat /\ Newlines(t) \in Nat
<1> USE NewlineIsASymbol
<1>1. PICK a \in Texts : a = After(t, Newline)
  BY Cut, Zenon
<1>2. PICK rest \in Unpacked(a) :
        c = Container(Header(Before(t, Newline)).codec, Header(Before(t, Newline)).params, rest.legend, rest.body)
  BY <1>1 DEF Parse
<1>3. c.legend = rest.legend /\ c.body = rest.body
  BY <1>2 DEF Container
<1>4. /\ rest.legend \in Lists /\ NoneHolds(rest.legend, Newline)
      /\ rest.body \in Texts /\ Newlines(rest.body) <= Newlines(a)
  BY <1>1, <1>2, UnpackedIs
<1>5. Holds(t, <<Newline>>)
  <2>1. ASSUME ~Holds(t, <<Newline>>) PROVE FALSE
    <3>1. a = << >>
      BY <1>1, <2>1, Cut
    <3>2. Unpacked(a) = {}
      BY <1>1, <3>1, UnpackLaws, Zenon
    <3> QED BY <1>2, <3>2
  <2> QED BY <2>1
<1>6. Newlines(t) = 1 + Newlines(a) /\ Newlines(a) \in Nat
  BY <1>1, <1>5, NewlinesLaws
<1>7. Newlines(rest.body) \in Nat
  BY <1>4, NewlinesLaws
<1>8. Newlines(rest.body) < Newlines(t) /\ Newlines(t) \in Nat
  BY <1>4, <1>6, <1>7
<1> QED BY <1>3, <1>4, <1>7, <1>8

-----------------------------------------------------------------------------
(* One layer of an artifact. *)

LEMMA EntriesSplit ==
  ASSUME NEW line \in Texts, ~Holds(line, <<Newline>>), SplitOnce(line, Equals) # {}
  PROVE  \E a \in Texts, p \in Texts :
           /\ SplitOnce(line, Equals) = {<<a, p>>}
           /\ ~Holds(a, <<Newline>>) /\ ~Holds(p, <<Newline>>)
<1> USE NewlineIsASymbol
<1>1. Holds(line, <<Equals>>)
  BY DEF SplitOnce
<1>2. PICK a \in Texts : a = Before(line, Equals)
  BY Cut, Zenon
<1>3. PICK p \in Texts : p = After(line, Equals)
  BY Cut, Zenon
<1>4. line = a \o (<<Equals>> \o p)
  BY <1>1, <1>2, <1>3, Cut, Zenon
<1>5. <<Equals>> \in Texts /\ <<Equals>> \o p \in Texts
  BY OneBefore, Single DEF Texts
<1>6. ~Holds(a, <<Newline>>) /\ ~Holds(<<Equals>> \o p, <<Newline>>)
  BY <1>4, <1>5, HoldsASymbol
<1>7. ~Holds(p, <<Newline>>)
  BY <1>5, <1>6, HoldsASymbol
<1>8. SplitOnce(line, Equals) = {<<a, p>>}
  BY <1>1, <1>2, <1>3 DEF SplitOnce
<1> QED BY <1>6, <1>7, <1>8

LEMMA MineDecodes ==
  ASSUME NEW c, c.legend \in Lists, NoneHolds(c.legend, Newline), c.body \in Texts, NEW o \in MineDecode(c)
  PROVE  o \in Texts /\ Newlines(o) = Newlines(c.body)
<1> DEFINE es == [i \in DOMAIN c.legend |-> CHOOSE e \in SplitOnce(c.legend[i], Equals) : TRUE]
<1>1. /\ \A i \in DOMAIN c.legend : SplitOnce(c.legend[i], Equals) # {}
      /\ o = ExpandAll(c.body, es)
  BY DEF MineDecode
<1>2. Len(c.legend) \in Nat /\ DOMAIN c.legend = 1..Len(c.legend)
      /\ \A i \in 1..Len(c.legend) : c.legend[i] \in Texts
  BY DEF Lists
<1>3. ASSUME NEW i \in 1..Len(c.legend)
      PROVE  es[i] \in Texts \X Texts /\ ~Holds(es[i][1], <<Newline>>) /\ ~Holds(es[i][2], <<Newline>>)
  <2>1. c.legend[i] \in Texts /\ ~Holds(c.legend[i], <<Newline>>) /\ SplitOnce(c.legend[i], Equals) # {}
    BY <1>1, <1>2 DEF NoneHolds
  <2>2. PICK a \in Texts, p \in Texts :
          /\ SplitOnce(c.legend[i], Equals) = {<<a, p>>}
          /\ ~Holds(a, <<Newline>>) /\ ~Holds(p, <<Newline>>)
    BY <2>1, EntriesSplit
  <2>3. PICK e : e = es[i]
    OBVIOUS
  <2>4. e = <<a, p>>
    BY <1>2, <2>2, <2>3, Zenon
  <2>5. e \in Texts \X Texts /\ e[1] = a /\ e[2] = p
    BY <2>2, <2>4
  <2> HIDE DEF es
  <2> QED BY <2>2, <2>3, <2>5
<1>4. es \in [1..Len(c.legend) -> Texts \X Texts]
  <2>1. es = [i \in 1..Len(c.legend) |-> es[i]]
    BY <1>2
  <2> HIDE DEF es
  <2> QED BY <1>3, <2>1, Zenon
<1> HIDE DEF es
<1>5. es \in Dictionaries /\ Len(es) = Len(c.legend)
  BY <1>2, <1>4, ASequence, Zenon DEF Dictionaries
<1>6. OneLiners(es)
  BY <1>3, <1>5 DEF OneLiners
<1> QED BY <1>1, <1>5, <1>6, ExpandNewlines

LEMMA FlatDecodes ==
  ASSUME NEW c, c.legend \in Lists, NoneHolds(c.legend, Newline), c.body \in Texts, NEW o \in DecodeFlat(c)
  PROVE  o \in Texts /\ Newlines(o) = Newlines(c.body)
<1>1. CASE c.codec \in {"raw", "identity"}
  BY <1>1 DEF DecodeFlat
<1>2. CASE c.codec = "mine" /\ c.codec \notin {"raw", "identity"}
  BY <1>2, MineDecodes DEF DecodeFlat
<1>3. CASE c.codec # "mine" /\ c.codec \notin {"raw", "identity"}
  BY <1>3 DEF DecodeFlat
<1> QED BY <1>1, <1>2, <1>3

(* mosaic.rs: the frames of a body.                                         *)
Framed(t, n) == SubSeq(After(t, Newline), 1, n)
Beyond(t, n) == SubSeq(After(t, Newline), n + 1, Len(After(t, Newline)))
Frames(t) == IF Holds(t, <<Newline>>) THEN Spelled(Before(t, Newline), Len(After(t, Newline))) ELSE {}
FirstOf(t, n, tails) == {<<Framed(t, n)>> \o segs : segs \in tails}
SegStep(t, f) ==
  IF t = << >> THEN {<< >>}
  ELSE UNION {FirstOf(t, n, f[Beyond(t, n)]) : n \in Frames(t)}

LEMMA FrameIs ==
  ASSUME NEW t \in Texts, t # << >>, NEW n \in Frames(t)
  PROVE  /\ Holds(t, <<Newline>>) /\ Before(t, Newline) = Number(n) /\ n \in 0..Len(After(t, Newline)) /\ n \in Nat
         /\ After(t, Newline) \in Texts
         /\ Framed(t, n) \in Texts /\ Len(Framed(t, n)) = n
         /\ Beyond(t, n) \in Texts /\ Len(Beyond(t, n)) < Len(t)
         /\ After(t, Newline) = Framed(t, n) \o Beyond(t, n)
<1> USE NewlineIsASymbol
<1>1. PICK a \in Texts : a = After(t, Newline)
  BY Cut, Zenon
<1>2. Holds(t, <<Newline>>) /\ n \in 0..Len(a) /\ Before(t, Newline) = Number(n)
  BY <1>1 DEF Frames, Spelled
<1>3. Len(a) \in Nat /\ Len(t) \in Nat /\ Len(a) < Len(t)
  <2>1. Len(a) < Len(t)
    BY <1>1, <1>2, Cut, Zenon
  <2>2. Len(a) \in Nat /\ Len(t) \in Nat
    BY <1>1 DEF Texts
  <2> QED BY <2>1, <2>2
<1>4. n + 1 \in 1..Len(a) + 1 /\ (n + 1) - 1 = n /\ n \in Nat
  BY <1>2, <1>3
<1>5. /\ SubSeq(a, n + 1, Len(a)) \in Texts /\ Len(SubSeq(a, n + 1, Len(a))) = Len(a) + 1 - (n + 1)
      /\ SubSeq(a, 1, (n + 1) - 1) \in Texts /\ Len(SubSeq(a, 1, (n + 1) - 1)) = (n + 1) - 1
      /\ a = SubSeq(a, 1, (n + 1) - 1) \o SubSeq(a, n + 1, Len(a))
  BY <1>4, Suffix, Zenon
<1>6. Len(a) + 1 - (n + 1) < Len(t)
  BY <1>3, <1>4
<1> QED BY <1>1, <1>2, <1>4, <1>5, <1>6, Zenon DEF Framed, Beyond

LEMMA SegStepIsLocal ==
  ASSUME NEW t \in Texts, NEW f, NEW g, \A u \in Texts : Len(u) < Len(t) => f[u] = g[u]
  PROVE  SegStep(t, f) = SegStep(t, g)
<1>1. CASE t # << >>
  <2>1. ASSUME NEW n \in Frames(t) PROVE f[Beyond(t, n)] = g[Beyond(t, n)]
    <3>1. Beyond(t, n) \in Texts /\ Len(Beyond(t, n)) < Len(t)
      BY <1>1, FrameIs
    <3> QED BY <3>1
  <2> QED BY <1>1, <2>1 DEF SegStep
<1> QED BY <1>1 DEF SegStep

LEMMA SegStepIsTyped ==
  ASSUME NEW t \in Texts, NEW f \in [Texts -> SUBSET Lists]
  PROVE  SegStep(t, f) \in SUBSET Lists
<1>1. CASE t # << >>
  <2>1. ASSUME NEW n \in Frames(t), NEW segs \in f[Beyond(t, n)] PROVE <<Framed(t, n)>> \o segs \in Lists
    <3>1. Beyond(t, n) \in Texts /\ Framed(t, n) \in Texts
      BY <1>1, FrameIs
    <3>2. segs \in Lists
      BY <3>1
    <3> QED BY <3>1, <3>2, ListJoin
  <2>2. ASSUME NEW n \in Frames(t) PROVE FirstOf(t, n, f[Beyond(t, n)]) \subseteq Lists
    BY <2>1, Zenon DEF FirstOf
  <2> QED BY <1>1, <2>2 DEF SegStep
<1>2. << >> \in Lists
  BY Nothing DEF Lists
<1> QED BY <1>1, <1>2 DEF SegStep

LEMMA SegStepsAgree ==
  ASSUME NEW f, NEW g, \A t \in Texts : f[t] = SegStep(t, f), \A t \in Texts : g[t] = SegStep(t, g)
  PROVE  \A t \in Texts : f[t] = g[t]
<1> DEFINE P == {t \in Texts : f[t] = g[t]}
<1>1. ASSUME NEW t \in Texts, \A u \in Texts : Len(u) < Len(t) => u \in P PROVE t \in P
  <2>1. \A u \in Texts : Len(u) < Len(t) => f[u] = g[u]
    BY <1>1
  <2>2. SegStep(t, f) = SegStep(t, g)
    BY <2>1, SegStepIsLocal
  <2> QED BY <2>2
<1>2. \A t \in Texts : t \in P
  <2> HIDE DEF P
  <2> QED BY <1>1, ShorterFirst
<1> QED BY <1>2

LEMMA SegSteps ==
  \E f \in [Texts -> SUBSET Lists] : \A t \in Texts : f[t] = Segments(t) /\ f[t] = SegStep(t, f)
<1> DEFINE V == SUBSET Lists
           G == [x \in Texts \X [Texts -> V] |-> SegStep(x[1], x[2])]
           IsIt(h) == h = [t \in Texts |->
                             LET framed  == After(t, Newline)
                                 lengths == IF Holds(t, <<Newline>>)
                                            THEN Spelled(Before(t, Newline), Len(framed)) ELSE {}
                             IN  IF t = << >> THEN {<< >>}
                                 ELSE UNION {{<<SubSeq(framed, 1, n)>> \o segs :
                                                segs \in h[SubSeq(framed, n + 1, Len(framed))]} : n \in lengths}]
           f == CHOOSE h : IsIt(h)
<1>1. G \in [Texts \X [Texts -> V] -> V]
  <2>1. ASSUME NEW t \in Texts, NEW h \in [Texts -> V] PROVE SegStep(t, h) \in V
    BY SegStepIsTyped
  <2> HIDE DEF V
  <2> QED BY <2>1
<1>2. \A t \in Texts : \A h \in [Texts -> V] : G[<<t, h>>] = SegStep(t, h)
  OBVIOUS
<1>3. Local(G, Shorter, Texts, V)
  <2> SUFFICES ASSUME NEW t \in Texts, NEW g \in [Texts -> V], NEW h \in [Texts -> V],
                      \A u \in Texts : Shorter[u] < Shorter[t] => g[u] = h[u]
               PROVE  G[<<t, g>>] = G[<<t, h>>]
    BY Zenon DEF Local
  <2>1. \A u \in Texts : Len(u) < Len(t) => g[u] = h[u]
    BY LengthsAreNumbers
  <2>2. SegStep(t, g) = SegStep(t, h)
    BY <2>1, SegStepIsLocal
  <2> HIDE DEF G
  <2> QED BY <1>2, <2>2
<1>4. {} \in V
  OBVIOUS
<1>5. PICK h \in [Texts -> V] : Ruled(h, Texts, G)
  <2> HIDE DEF G, V
  <2> QED BY <1>1, <1>3, <1>4, LengthsAreNumbers, RecursionExists, Zenon
<1>6. \A t \in Texts : h[t] = SegStep(t, h)
  <2> HIDE DEF G
  <2> QED BY <1>2, <1>5, Zenon DEF Ruled
<1>7. IsIt(h)
  BY <1>5, <1>6, Zenon DEF SegStep, FirstOf, Frames, Framed, Beyond
<1>8. IsIt(f)
  BY <1>7, ZenonT(60)
<1>9. \A t \in Texts : f[t] = Segments(t)
  BY DEF Segments
<1> HIDE DEF f
<1>10. \A t \in Texts : f[t] = SegStep(t, f)
  BY <1>8, Zenon DEF SegStep, FirstOf, Frames, Framed, Beyond
<1>11. PICK k : k = f
  OBVIOUS
<1>12. \A t \in Texts : k[t] = SegStep(t, k)
  BY <1>10, <1>11
<1>13. \A t \in Texts : k[t] = h[t]
  <2> HIDE DEF V, G, IsIt
  <2>1. ASSUME NEW t \in Texts PROVE k[t] = h[t]
    BY <1>6, <1>12, SegStepsAgree
  <2> QED BY <2>1
<1>14. k = h
  BY <1>5, <1>8, <1>11, <1>13, Zenon
<1> QED BY <1>5, <1>9, <1>11, <1>12, <1>14

LEMMA SegLaws ==
  ASSUME NEW t \in Texts
  PROVE  /\ Segments(t) \in SUBSET Lists
         /\ t = << >> => Segments(t) = {<< >>}
         /\ t # << >> => Segments(t) = UNION {FirstOf(t, n, Segments(Beyond(t, n))) : n \in Frames(t)}
<1>1. PICK f \in [Texts -> SUBSET Lists] : \A u \in Texts : f[u] = Segments(u) /\ f[u] = SegStep(u, f)
  BY SegSteps
<1>2. CASE t # << >>
  <2>1. \A n \in Frames(t) : f[Beyond(t, n)] = Segments(Beyond(t, n))
    BY <1>1, <1>2, FrameIs
  <2>2. SegStep(t, f) = UNION {FirstOf(t, n, Segments(Beyond(t, n))) : n \in Frames(t)}
    BY <1>2, <2>1 DEF SegStep
  <2> QED BY <1>1, <1>2, <2>2
<1>3. CASE t = << >>
  BY <1>1, <1>3 DEF SegStep
<1> QED BY <1>2, <1>3

(* The segments are in the body, in their order.                            *)
LEMMA SegmentsNewlines ==
  ASSUME NEW t0 \in Texts
  PROVE  \A segs \in Segments(t0) : Newlines(FlattenSeq(segs)) <= Newlines(t0)
<1> USE NewlineIsASymbol
<1> DEFINE P == {t \in Texts : \A segs \in Segments(t) : Newlines(FlattenSeq(segs)) <= Newlines(t)}
<1>1. ASSUME NEW t \in Texts, \A u \in Texts : Len(u) < Len(t) => u \in P, NEW segs \in Segments(t)
      PROVE  Newlines(FlattenSeq(segs)) <= Newlines(t)
  <2>1. CASE t = << >>
    <3>1. segs = << >>
      BY <1>1, <2>1, SegLaws
    <3>2. FlattenSeq(segs) = t
      <4>1. << >> \in Lists /\ << >> \in Texts
        BY Nothing DEF Lists
      <4>2. FlattenSeq(<< >>) = << >>
        BY <4>1, FlatLaws, Zenon
      <4> QED BY <2>1, <3>1, <4>2
    <3>3. Newlines(t) \in Nat
      BY NewlinesLaws
    <3> QED BY <3>2, <3>3
  <2>2. CASE t # << >>
    <3>1. PICK n \in Frames(t) : segs \in FirstOf(t, n, Segments(Beyond(t, n)))
      BY <1>1, <2>2, SegLaws
    <3>2. PICK rest \in Segments(Beyond(t, n)) : segs = <<Framed(t, n)>> \o rest
      BY <3>1 DEF FirstOf
    <3>3. PICK a \in Texts : a = After(t, Newline)
      BY Cut, Zenon
    <3>4. PICK x \in Texts : x = Framed(t, n)
      BY <2>2, <3>1, FrameIs
    <3>5. PICK u \in Texts : u = Beyond(t, n)
      BY <2>2, <3>1, FrameIs
    <3>6. Holds(t, <<Newline>>) /\ a = x \o u /\ Len(u) < Len(t)
      BY <2>2, <3>1, <3>3, <3>4, <3>5, FrameIs, Zenon
    <3>7. PICK q \in Lists : q = rest
      BY <3>2, <3>5, SegLaws
    <3>8. FlattenSeq(segs) = x \o FlattenSeq(q) /\ FlattenSeq(q) \in Texts
      <4>1. FlattenSeq(<<x>> \o q) = x \o FlattenSeq(q) /\ FlattenSeq(q) \in Texts
        BY FlatLaws, Zenon
      <4> QED BY <3>2, <3>4, <3>7, <4>1
    <3>9. Newlines(FlattenSeq(q)) <= Newlines(u)
      BY <1>1, <3>2, <3>5, <3>6, <3>7
    <3>10. /\ Newlines(x \o FlattenSeq(q)) = Newlines(x) + Newlines(FlattenSeq(q))
           /\ Newlines(a) = Newlines(x) + Newlines(u)
      BY <3>6, <3>8, NewlinesOfJoin
    <3>11. Newlines(t) = 1 + Newlines(a)
      BY <3>3, <3>6, NewlinesLaws, Zenon
    <3>12. Newlines(x) \in Nat /\ Newlines(u) \in Nat /\ Newlines(FlattenSeq(q)) \in Nat
      BY <3>8, NewlinesLaws
    <3> HIDE DEF P
    <3> QED BY <3>8, <3>9, <3>10, <3>11, <3>12
  <2> QED BY <2>1, <2>2
<1>2. \A t \in Texts : t \in P
  <2>1. ASSUME NEW t \in Texts, \A u \in Texts : Len(u) < Len(t) => u \in P PROVE t \in P
    BY <1>1, <2>1
  <2> HIDE DEF P
  <2> QED BY <2>1, ShorterFirst
<1> QED BY <1>2

-----------------------------------------------------------------------------
(* A mosaic segment by segment. *)

Opened(t) == UNION {DecodeFlat(c) : c \in Parse(t)}
Joins(A, B) == {o[1] \o o[2] : o \in A \X B}
OutStep(q, f) == IF q = << >> THEN {<< >>} ELSE Joins(Opened(Head(q)), f[Tail(q)])
Longer == [q \in Lists |-> Len(q)]

LEMMA ListLengths == Longer \in [Lists -> Nat] /\ \A q \in Lists : Longer[q] = Len(q)
<1>1. \A q \in Lists : Len(q) \in Nat
  BY DEF Lists
<1> QED BY <1>1 DEF Longer

LEMMA OpenedIs ==
  ASSUME NEW t \in Texts, NEW o \in Opened(t)
  PROVE  o \in Texts /\ Newlines(o) < Newlines(t)
<1>1. PICK c \in Parse(t) : o \in DecodeFlat(c)
  BY DEF Opened
<1>2. /\ c.legend \in Lists /\ NoneHolds(c.legend, Newline)
      /\ c.body \in Texts /\ Newlines(c.body) < Newlines(t)
  BY <1>1, ParsedIs
<1>3. o \in Texts /\ Newlines(o) = Newlines(c.body)
  BY <1>1, <1>2, FlatDecodes
<1> QED BY <1>2, <1>3

LEMMA JoinsAreTexts ==
  ASSUME NEW A, NEW B, A \subseteq Texts, B \subseteq Texts
  PROVE  /\ Joins(A, B) \subseteq Texts
         /\ \A o \in Joins(A, B) : \E x \in A, y \in B : o = x \o y
<1>1. ASSUME NEW o \in Joins(A, B) PROVE o \in Texts /\ \E x \in A, y \in B : o = x \o y
  <2>1. PICK z \in A \X B : o = z[1] \o z[2]
    BY Zenon DEF Joins
  <2>2. z[1] \in A /\ z[2] \in B
    OBVIOUS
  <2>3. PICK x \in Texts : x = z[1]
    BY <2>2
  <2>4. PICK y \in Texts : y = z[2]
    BY <2>2
  <2>5. x \o y \in Texts
    BY Joined
  <2> QED BY <2>1, <2>2, <2>3, <2>4, <2>5, Zenon
<1> QED BY <1>1

LEMMA OutStepIsLocal ==
  ASSUME NEW q \in Lists, NEW f, NEW g, \A r \in Lists : Len(r) < Len(q) => f[r] = g[r]
  PROVE  OutStep(q, f) = OutStep(q, g)
<1>1. CASE q # << >>
  <2>1. f[Tail(q)] = g[Tail(q)]
    BY <1>1, ListEnds, Zenon
  <2> QED BY <1>1, <2>1 DEF OutStep
<1> QED BY <1>1 DEF OutStep

LEMMA OutStepIsTyped ==
  ASSUME NEW q \in Lists, NEW f \in [Lists -> SUBSET Texts]
  PROVE  OutStep(q, f) \in SUBSET Texts
<1>1. CASE q # << >>
  <2>1. Head(q) \in Texts /\ Tail(q) \in Lists
    BY <1>1, ListEnds, Zenon
  <2>2. Opened(Head(q)) \subseteq Texts
    BY <2>1, OpenedIs
  <2>3. f[Tail(q)] \subseteq Texts
    BY <2>1
  <2>4. Joins(Opened(Head(q)), f[Tail(q)]) \subseteq Texts
    BY <2>2, <2>3, JoinsAreTexts
  <2> QED BY <1>1, <2>4 DEF OutStep
<1>2. << >> \in Texts
  BY Nothing
<1> QED BY <1>1, <1>2 DEF OutStep

LEMMA OutStepsAgree ==
  ASSUME NEW f, NEW g, \A q \in Lists : f[q] = OutStep(q, f), \A q \in Lists : g[q] = OutStep(q, g)
  PROVE  \A q \in Lists : f[q] = g[q]
<1> DEFINE P == {q \in Lists : f[q] = g[q]}
<1>1. \A q \in Lists : (\A r \in Lists : Longer[r] < Longer[q] => r \in P) => q \in P
  <2>1. ASSUME NEW q \in Lists, \A r \in Lists : Longer[r] < Longer[q] => r \in P PROVE q \in P
    <3>1. \A r \in Lists : Len(r) < Len(q) => f[r] = g[r]
      BY <2>1, ListLengths
    <3>2. OutStep(q, f) = OutStep(q, g)
      BY <3>1, OutStepIsLocal
    <3> QED BY <3>2
  <2> QED BY <2>1
<1>2. \A q \in Lists : q \in P
  <2> HIDE DEF P
  <2> QED BY <1>1, ListLengths, SmallerFirst, Zenon
<1> QED BY <1>2

LEMMA OutSteps ==
  \E f \in [Lists -> SUBSET Texts] : \A q \in Lists : f[q] = DecodeSegments(q) /\ f[q] = OutStep(q, f)
<1> DEFINE V == SUBSET Texts
           G == [x \in Lists \X [Lists -> V] |-> OutStep(x[1], x[2])]
           Body(q, h) == IF q = << >> THEN {<< >>}
                         ELSE {o[1] \o o[2] : o \in (UNION {DecodeFlat(c) : c \in Parse(Head(q))}) \X h[Tail(q)]}
           IsIt(h) == h = [q \in Lists |-> Body(q, h)]
           f == CHOOSE h : IsIt(h)
<1>1. G \in [Lists \X [Lists -> V] -> V]
  <2>1. ASSUME NEW q \in Lists, NEW h \in [Lists -> V] PROVE OutStep(q, h) \in V
    BY OutStepIsTyped
  <2> HIDE DEF V
  <2> QED BY <2>1
<1>2. \A q \in Lists : \A h \in [Lists -> V] : G[<<q, h>>] = OutStep(q, h)
  OBVIOUS
<1>3. Local(G, Longer, Lists, V)
  <2> SUFFICES ASSUME NEW q \in Lists, NEW g \in [Lists -> V], NEW h \in [Lists -> V],
                      \A r \in Lists : Longer[r] < Longer[q] => g[r] = h[r]
               PROVE  G[<<q, g>>] = G[<<q, h>>]
    BY Zenon DEF Local
  <2>1. \A r \in Lists : Len(r) < Len(q) => g[r] = h[r]
    BY ListLengths
  <2>2. OutStep(q, g) = OutStep(q, h)
    BY <2>1, OutStepIsLocal
  <2> HIDE DEF G
  <2> QED BY <1>2, <2>2
<1>4. {} \in V
  OBVIOUS
<1>5. PICK h \in [Lists -> V] : Ruled(h, Lists, G)
  <2> HIDE DEF G, V
  <2> QED BY <1>1, <1>3, <1>4, ListLengths, RecursionExists, Zenon
<1>6. \A q \in Lists : h[q] = OutStep(q, h)
  <2> HIDE DEF G
  <2> QED BY <1>2, <1>5, Zenon DEF Ruled
<1>15. ASSUME NEW q, NEW g PROVE Body(q, g) = OutStep(q, g)
  <2>1. CASE q # << >>
    <3>1. PICK A : A = UNION {DecodeFlat(c) : c \in Parse(Head(q))}
      BY Zenon
    <3>2. PICK B : B = g[Tail(q)]
      OBVIOUS
    <3>3. Body(q, g) = {o[1] \o o[2] : o \in A \X B}
      BY <2>1, <3>1, <3>2
    <3>4. A = Opened(Head(q))
      BY <3>1 DEF Opened
    <3>5. OutStep(q, g) = Joins(A, B)
      BY <2>1, <3>2, <3>4 DEF OutStep
    <3> HIDE DEF Body
    <3> QED BY <3>3, <3>5 DEF Joins
  <2>2. CASE q = << >>
    BY <2>2 DEF OutStep
  <2> QED BY <2>1, <2>2, Zenon
<1>7. IsIt(h)
  <2> HIDE DEF Body
  <2> QED BY <1>5, <1>6, <1>15
<1>8. IsIt(f)
  BY <1>7, Zenon
<1>9. \A q \in Lists : f[q] = DecodeSegments(q)
  BY DEF DecodeSegments, Lists
<1> HIDE DEF f, Body
<1>10. \A q \in Lists : f[q] = OutStep(q, f)
  BY <1>8, <1>15
<1>11. PICK k : k = f
  OBVIOUS
<1>12. \A q \in Lists : k[q] = OutStep(q, k)
  BY <1>10, <1>11
<1>13. \A q \in Lists : k[q] = h[q]
  <2> HIDE DEF V, G, IsIt
  <2>1. ASSUME NEW q \in Lists PROVE k[q] = h[q]
    BY <1>6, <1>12, OutStepsAgree
  <2> QED BY <2>1
<1>14. k = h
  BY <1>5, <1>8, <1>11, <1>13 DEF Lists
<1> QED BY <1>5, <1>9, <1>11, <1>12, <1>14

LEMMA OutLaws ==
  ASSUME NEW q \in Lists
  PROVE  /\ DecodeSegments(q) \in SUBSET Texts
         /\ q = << >> => DecodeSegments(q) = {<< >>}
         /\ q # << >> => DecodeSegments(q) = Joins(Opened(Head(q)), DecodeSegments(Tail(q)))
<1>1. PICK f \in [Lists -> SUBSET Texts] : \A r \in Lists : f[r] = DecodeSegments(r) /\ f[r] = OutStep(r, f)
  BY OutSteps
<1>2. CASE q # << >>
  <2>1. f[Tail(q)] = DecodeSegments(Tail(q))
    BY <1>1, <1>2, ListEnds, Zenon
  <2>2. OutStep(q, f) = Joins(Opened(Head(q)), DecodeSegments(Tail(q)))
    BY <1>2, <2>1 DEF OutStep
  <2> QED BY <1>1, <1>2, <2>2
<1>3. CASE q = << >>
  BY <1>1, <1>3 DEF OutStep
<1> QED BY <1>2, <1>3

LEMMA OutNewlines ==
  ASSUME NEW q0 \in Lists
  PROVE  \A o \in DecodeSegments(q0) : Newlines(o) <= Newlines(FlattenSeq(q0))
<1> DEFINE P == {q \in Lists : \A o \in DecodeSegments(q) : Newlines(o) <= Newlines(FlattenSeq(q))}
<1>1. \A q \in Lists : (\A r \in Lists : Longer[r] < Longer[q] => r \in P) => q \in P
  <2>1. ASSUME NEW q \in Lists, \A r \in Lists : Longer[r] < Longer[q] => r \in P, NEW o \in DecodeSegments(q)
        PROVE  Newlines(o) <= Newlines(FlattenSeq(q))
    <3>1. CASE q = << >>
      <4>1. o = << >>
        BY <2>1, <3>1, OutLaws
      <4>2. << >> \in Texts
        BY Nothing
      <4>3. FlattenSeq(q) = << >>
        BY <3>1, <4>2, FlatLaws, Zenon
      <4>4. Newlines(o) \in Nat
        BY <4>1, <4>2, NewlinesLaws
      <4> QED BY <4>1, <4>3, <4>4
    <3>2. CASE q # << >>
      <4>1. PICK x \in Texts : x = Head(q)
        BY <3>2, ListEnds, Zenon
      <4>2. PICK r \in Lists : r = Tail(q)
        BY <3>2, ListEnds, Zenon
      <4>3. q = <<x>> \o r /\ Len(r) < Len(q)
        BY <3>2, <4>1, <4>2, ListEnds
      <4>4. o \in Joins(Opened(x), DecodeSegments(r))
        BY <2>1, <3>2, <4>1, <4>2, OutLaws
      <4>5. Opened(x) \subseteq Texts /\ DecodeSegments(r) \subseteq Texts
        BY OpenedIs, OutLaws
      <4>6. PICK y \in Opened(x), z \in DecodeSegments(r) : o = y \o z
        BY <4>4, <4>5, JoinsAreTexts
      <4>7. Newlines(y) < Newlines(x)
        BY <4>6, OpenedIs
      <4>8. Newlines(z) <= Newlines(FlattenSeq(r))
        <5>1. r \in P
          BY <2>1, <4>3, ListLengths, Zenon
        <5> QED BY <4>6, <5>1
      <4>9. FlattenSeq(q) = x \o FlattenSeq(r) /\ FlattenSeq(r) \in Texts
        BY <4>3, FlatLaws, Zenon
      <4>10. y \in Texts /\ z \in Texts
        BY <4>5, <4>6
      <4>11. /\ Newlines(o) = Newlines(y) + Newlines(z)
             /\ Newlines(FlattenSeq(q)) = Newlines(x) + Newlines(FlattenSeq(r))
        BY <4>6, <4>9, <4>10, NewlinesOfJoin
      <4>12. Newlines(x) \in Nat /\ Newlines(y) \in Nat /\ Newlines(z) \in Nat /\ Newlines(FlattenSeq(r)) \in Nat
        BY <4>9, <4>10, NewlinesLaws
      <4> HIDE DEF P
      <4> QED BY <4>7, <4>8, <4>11, <4>12
    <3> QED BY <3>1, <3>2
  <2> QED BY <2>1
<1>2. \A q \in Lists : q \in P
  <2> HIDE DEF P
  <2> QED BY <1>1, ListLengths, SmallerFirst, SMTT(30)
<1> QED BY <1>2

-----------------------------------------------------------------------------
(* Every layer. *)

LEMMA DecodeOnceIs ==
  ASSUME NEW t \in Texts, NEW o \in DecodeOnce(t)
  PROVE  o \in Texts /\ Newlines(o) < Newlines(t) /\ Newlines(o) \in Nat
<1>1. PICK c \in Parse(t) : o \in DecodeContainer(c)
  BY DEF DecodeOnce
<1>2. /\ c.legend \in Lists /\ NoneHolds(c.legend, Newline)
      /\ c.body \in Texts /\ Newlines(c.body) < Newlines(t) /\ Newlines(c.body) \in Nat /\ Newlines(t) \in Nat
  BY <1>1, ParsedIs
<1>3. CASE c.codec # "mosaic"
  <2>1. o \in Texts /\ Newlines(o) = Newlines(c.body)
    BY <1>1, <1>2, <1>3, FlatDecodes DEF DecodeContainer
  <2> QED BY <1>2, <2>1
<1>4. CASE c.codec = "mosaic"
  <2>1. PICK segs \in SplitMosaic(c) : o \in DecodeSegments(segs)
    BY <1>1, <1>4 DEF DecodeContainer
  <2>2. segs \in Segments(c.body)
    BY <2>1 DEF SplitMosaic
  <2>3. segs \in Lists
    BY <1>2, <2>2, SegLaws
  <2>4. Newlines(FlattenSeq(segs)) <= Newlines(c.body)
    BY <1>2, <2>2, SegmentsNewlines
  <2>5. o \in Texts /\ Newlines(o) <= Newlines(FlattenSeq(segs))
    BY <2>1, <2>3, OutLaws, OutNewlines
  <2>6. FlattenSeq(segs) \in Texts
    <3>1. << >> \in Texts
      BY Nothing
    <3> QED BY <2>3, <3>1, FlatLaws, Zenon
  <2>7. Newlines(o) \in Nat /\ Newlines(FlattenSeq(segs)) \in Nat
    BY <2>5, <2>6, NewlinesLaws
  <2> QED BY <1>2, <2>4, <2>5, <2>7
<1> QED BY <1>3, <1>4

Fewer == [t \in Texts |-> Newlines(t)]
AllStep(t, f) == IF IsContainer(t) THEN UNION {f[inner] : inner \in DecodeOnce(t)} ELSE {t}

LEMMA FewerAreNumbers == Fewer \in [Texts -> Nat] /\ \A t \in Texts : Fewer[t] = Newlines(t)
<1>1. \A t \in Texts : Newlines(t) \in Nat
  BY NewlinesLaws
<1> QED BY <1>1 DEF Fewer

LEMMA AllStepIsLocal ==
  ASSUME NEW t \in Texts, NEW f, NEW g, \A u \in Texts : Newlines(u) < Newlines(t) => f[u] = g[u]
  PROVE  AllStep(t, f) = AllStep(t, g)
<1>1. ASSUME NEW o \in DecodeOnce(t) PROVE f[o] = g[o]
  BY DecodeOnceIs
<1> QED BY <1>1, Zenon DEF AllStep

LEMMA AllStepIsTyped ==
  ASSUME NEW t \in Texts, NEW f \in [Texts -> SUBSET Texts]
  PROVE  AllStep(t, f) \in SUBSET Texts
<1>1. ASSUME NEW o \in DecodeOnce(t) PROVE f[o] \subseteq Texts
  <2>1. o \in Texts
    BY DecodeOnceIs
  <2> QED BY <2>1
<1> QED BY <1>1 DEF AllStep

LEMMA AllStepsAgree ==
  ASSUME NEW f, NEW g, \A t \in Texts : f[t] = AllStep(t, f), \A t \in Texts : g[t] = AllStep(t, g)
  PROVE  \A t \in Texts : f[t] = g[t]
<1> DEFINE P == {t \in Texts : f[t] = g[t]}
<1>1. \A t \in Texts : (\A u \in Texts : Fewer[u] < Fewer[t] => u \in P) => t \in P
  <2>1. ASSUME NEW t \in Texts, \A u \in Texts : Fewer[u] < Fewer[t] => u \in P PROVE t \in P
    <3>1. \A u \in Texts : Newlines(u) < Newlines(t) => f[u] = g[u]
      BY <2>1, FewerAreNumbers
    <3>2. AllStep(t, f) = AllStep(t, g)
      BY <3>1, AllStepIsLocal
    <3> QED BY <3>2
  <2> QED BY <2>1
<1>2. \A t \in Texts : t \in P
  <2> HIDE DEF P
  <2> QED BY <1>1, FewerAreNumbers, SmallerFirst
<1> QED BY <1>2

LEMMA AllSteps ==
  \E f \in [Texts -> SUBSET Texts] : \A t \in Texts : f[t] = DecodeAll(t) /\ f[t] = AllStep(t, f)
<1> DEFINE V == SUBSET Texts
           G == [x \in Texts \X [Texts -> V] |-> AllStep(x[1], x[2])]
           IsIt(h) == h = [t \in Texts |->
                             IF IsContainer(t) THEN UNION {h[inner] : inner \in DecodeOnce(t)} ELSE {t}]
           f == CHOOSE h : IsIt(h)
<1>1. G \in [Texts \X [Texts -> V] -> V]
  <2>1. ASSUME NEW t \in Texts, NEW h \in [Texts -> V] PROVE AllStep(t, h) \in V
    BY AllStepIsTyped
  <2> HIDE DEF V
  <2> QED BY <2>1
<1>2. \A t \in Texts : \A h \in [Texts -> V] : G[<<t, h>>] = AllStep(t, h)
  OBVIOUS
<1>3. Local(G, Fewer, Texts, V)
  <2> SUFFICES ASSUME NEW t \in Texts, NEW g \in [Texts -> V], NEW h \in [Texts -> V],
                      \A u \in Texts : Fewer[u] < Fewer[t] => g[u] = h[u]
               PROVE  G[<<t, g>>] = G[<<t, h>>]
    BY Zenon DEF Local
  <2>1. \A u \in Texts : Newlines(u) < Newlines(t) => g[u] = h[u]
    BY FewerAreNumbers
  <2>2. AllStep(t, g) = AllStep(t, h)
    BY <2>1, AllStepIsLocal
  <2> HIDE DEF G
  <2> QED BY <1>2, <2>2
<1>4. {} \in V
  OBVIOUS
<1>5. PICK h \in [Texts -> V] : Ruled(h, Texts, G)
  <2> HIDE DEF G, V
  <2> QED BY <1>1, <1>3, <1>4, FewerAreNumbers, RecursionExists, Zenon
<1>6. \A t \in Texts : h[t] = AllStep(t, h)
  <2> HIDE DEF G
  <2> QED BY <1>2, <1>5, Zenon DEF Ruled
<1>7. IsIt(h)
  BY <1>5, <1>6 DEF AllStep
<1>8. IsIt(f)
  BY <1>7, Zenon
<1>9. \A t \in Texts : f[t] = DecodeAll(t)
  BY DEF DecodeAll
<1> HIDE DEF f
<1>10. \A t \in Texts : f[t] = AllStep(t, f)
  BY <1>8, Zenon DEF AllStep
<1>11. PICK k : k = f
  OBVIOUS
<1>12. \A t \in Texts : k[t] = AllStep(t, k)
  BY <1>10, <1>11
<1>13. \A t \in Texts : k[t] = h[t]
  <2> HIDE DEF V, G, IsIt
  <2>1. ASSUME NEW t \in Texts PROVE k[t] = h[t]
    BY <1>6, <1>12, AllStepsAgree
  <2> QED BY <2>1
<1>14. k = h
  BY <1>5, <1>8, <1>11, <1>13
<1> QED BY <1>5, <1>9, <1>11, <1>12, <1>14

(* decode_all takes the layers off one by one, and stops.                   *)
LEMMA DecodeAllLaws ==
  ASSUME NEW t \in Texts
  PROVE  /\ DecodeAll(t) \in SUBSET Texts
         /\ ~IsContainer(t) => DecodeAll(t) = {t}
         /\ IsContainer(t) => DecodeAll(t) = UNION {DecodeAll(inner) : inner \in DecodeOnce(t)}
<1>1. PICK f \in [Texts -> SUBSET Texts] : \A u \in Texts : f[u] = DecodeAll(u) /\ f[u] = AllStep(u, f)
  BY AllSteps
<1>2. \A o \in DecodeOnce(t) : f[o] = DecodeAll(o)
  BY <1>1, DecodeOnceIs
<1>3. UNION {f[inner] : inner \in DecodeOnce(t)} = UNION {DecodeAll(inner) : inner \in DecodeOnce(t)}
  BY <1>2
<1>4. DecodeAll(t) = AllStep(t, f) /\ f[t] = DecodeAll(t)
  BY <1>1
<1> QED BY <1>3, <1>4 DEF AllStep

-----------------------------------------------------------------------------
(* What is emitted decodes to what it was made of. *)

LEMMA EmittedDecodes ==
  ASSUME NEW codec, NEW ps, NEW lines, NEW body, WellFormed(codec, ps, lines, body),
         NEW text, text = Emit(Container(codec, ps, lines, body))
  PROVE  /\ text \in Texts /\ IsContainer(text)
         /\ Opened(text) = DecodeFlat(Container(codec, ps, lines, body))
         /\ DecodeAll(text) = UNION {DecodeAll(o) : o \in DecodeContainer(Container(codec, ps, lines, body))}
<1>1. PICK c : c = Container(codec, ps, lines, body)
  OBVIOUS
<1>2. text \in Texts /\ Parse(text) = {c}
  BY <1>1, ParseEmit
<1>3. IsContainer(text)
  BY <1>2 DEF IsContainer
<1>4. Opened(text) = DecodeFlat(c) /\ DecodeOnce(text) = DecodeContainer(c)
  BY <1>2 DEF Opened, DecodeOnce
<1>5. DecodeAll(text) = UNION {DecodeAll(o) : o \in DecodeOnce(text)}
  BY <1>2, <1>3, DecodeAllLaws
<1> QED BY <1>1, <1>2, <1>3, <1>4, <1>5

LEMMA NoFields ==
  /\ << >> \in Fields /\ Named(<< >>) /\ << >> \in Lists /\ LegendLines(<< >>)
BY DEF Fields, Named, Lists, LegendLines, NoneHolds

LEMMA CodecsAreSymbols ==
  \A codec \in {"raw", "mine", "mosaic", "ext", "rules"} :
     codec \in Symbols /\ codec \notin {Space, Newline, "body"}
BY Zenon DEF Symbols, Space, Newline

LEMMA RawIs ==
  ASSUME NEW t \in Texts
  PROVE  /\ Raw(t) \in Texts /\ IsContainer(Raw(t)) /\ Opened(Raw(t)) = {t}
         /\ Parse(Raw(t)) = {Container("raw", << >>, << >>, t)}
         /\ DecodeAll(Raw(t)) = DecodeAll(t)
<1>1. PICK c : c = Container("raw", << >>, << >>, t)
  OBVIOUS
<1>2. c.codec = "raw" /\ c.body = t
  BY <1>1 DEF Container
<1>3. DecodeFlat(c) = {t} /\ DecodeContainer(c) = {t}
  BY <1>2 DEF DecodeFlat, DecodeContainer
<1>4. WellFormed("raw", << >>, << >>, t)
  <2>1. "raw" \in {"raw", "mine", "mosaic", "ext", "rules"}
    OBVIOUS
  <2>2. "raw" \in Symbols /\ "raw" \notin {Space, Newline, "body"}
    BY <2>1, CodecsAreSymbols
  <2> QED BY <2>2, NoFields DEF WellFormed
<1>5. PICK text : text = Emit(c)
  OBVIOUS
<1>6. text \in Texts /\ IsContainer(text) /\ Opened(text) = {t} /\ DecodeAll(text) = UNION {DecodeAll(o) : o \in {t}}
  BY <1>1, <1>3, <1>4, <1>5, EmittedDecodes
<1>7. Parse(text) = {c}
  BY <1>1, <1>4, <1>5, ParseEmit
<1> QED BY <1>1, <1>5, <1>6, <1>7, Zenon DEF Raw

(* Container::param of a key that the header has once.                      *)
HasParam(codec, ps, lines, body, name, v) == Param(Container(codec, ps, lines, body), name) = {v}
LEMMA ParamIs ==
  ASSUME NEW codec, NEW ps \in Fields, NEW lines, NEW body, NEW i \in 1..Len(ps), NEW name, ps[i][1] = name,
         \A j \in 1..Len(ps) : j # i => ps[j][1] # name
  PROVE  HasParam(codec, ps, lines, body, name, ps[i][2])
<1>1. PICK c : c = Container(codec, ps, lines, body)
  OBVIOUS
<1>2. c.params = ps /\ DOMAIN ps = 1..Len(ps)
  BY <1>1, FieldsAreTexts DEF Container
<1>3. {j \in DOMAIN c.params : c.params[j][1] = name} = {i}
  BY <1>2
<1>4. i \in Nat
  OBVIOUS
<1>5. (CHOOSE k \in {i} : \A j \in {i} : k <= j) = i
  BY <1>4
<1>6. Param(c, name) = {c.params[i][2]}
  BY <1>3, <1>5 DEF Param
<1> QED BY <1>1, <1>2, <1>6 DEF HasParam

LEMMA NumberIs ==
  ASSUME NEW n \in Nat
  PROVE  /\ Plain(Number(n)) /\ Number(n) \in Texts /\ Len(Number(n)) = n + 1 /\ ~Holds(Number(n), <<Newline>>)
         /\ \A most \in Nat : Spelled(Number(n), most) = IF n <= most THEN {n} ELSE {}
<1>1. Tally \in Symbols /\ Tally # Space /\ Tally # Newline
  BY DEF Tally, Symbols, Space, Newline
<1>2. n + 1 \in Nat /\ (n + 1) - 1 = n
  OBVIOUS
<1>3. Number(n) \in [1..n + 1 -> Symbols] /\ \A i \in 1..n + 1 : Number(n)[i] = Tally
  BY <1>1 DEF Number
<1>4. Number(n) \in Texts /\ Len(Number(n)) = n + 1
  BY <1>2, <1>3, ASequence DEF Texts
<1>5. ~Holds(Number(n), <<Space>>) /\ ~Holds(Number(n), <<Newline>>)
  BY <1>1, <1>3, <1>4, OneOccurs
<1>6. ASSUME NEW most \in Nat PROVE Spelled(Number(n), most) = IF n <= most THEN {n} ELSE {}
  BY <1>2, <1>4 DEF Spelled
<1> QED BY <1>4, <1>5, <1>6 DEF Plain

LEMMA CountIs ==
  ASSUME NEW n \in Nat
  PROVE  /\ <<<<"n", Number(n)>>>> \in Fields /\ Named(<<<<"n", Number(n)>>>>)
         /\ \A codec, lines, body : Param(Container(codec, <<<<"n", Number(n)>>>>, lines, body), "n") = {Number(n)}
<1>1. PICK ps : ps = <<<<"n", Number(n)>>>>
  BY Zenon
<1>2. "n" \in Symbols /\ "n" \notin {Space, Equals, Newline}
  BY DEF Symbols, Space, Equals, Newline
<1>3. Number(n) \in Texts /\ Plain(Number(n))
  BY NumberIs
<1>4. ps \in Fields /\ Len(ps) = 1 /\ ps[1] = <<"n", Number(n)>>
  <2>1. <<"n", Number(n)>> \in Symbols \X Texts
    BY <1>2, <1>3
  <2> QED BY <1>1, <2>1, Single DEF Fields
<1>5. ps[1][1] = "n" /\ ps[1][2] = Number(n) /\ 1..1 = {1}
  BY <1>4
<1>6. Named(ps)
  BY <1>2, <1>3, <1>4, <1>5 DEF Named
<1>7. ASSUME NEW codec, NEW lines, NEW body PROVE Param(Container(codec, ps, lines, body), "n") = {Number(n)}
  <2>1. PICK name : name = "n"
    OBVIOUS
  <2>2. PICK i \in 1..Len(ps) : i = 1
    BY <1>4, <1>5
  <2>3. ps[i][1] = name
    BY <1>5, <2>1, <2>2
  <2>6. \A j \in 1..Len(ps) : j # i => ps[j][1] # name
    BY <1>4, <1>5, <2>2
  <2>4. ps \in Fields
    BY <1>4
  <2>5. HasParam(codec, ps, lines, body, name, ps[i][2])
    BY <2>2, <2>3, <2>4, <2>6, ParamIs, Zenon
  <2> QED BY <1>5, <2>1, <2>2, <2>5 DEF HasParam
<1> QED BY <1>1, <1>4, <1>6, <1>7

(* mine.rs: the dictionary's lines are read back.                           *)
LegendOf(es) == [i \in DOMAIN es |-> LegendLine(es[i])]
Readable(es) ==
  \A n \in 1..Len(es) : /\ ~Holds(es[n][1], <<Equals>>) /\ ~Holds(es[n][1], <<Newline>>)
                        /\ ~Holds(es[n][2], <<Newline>>)

LEMMA LegendLineIs ==
  ASSUME NEW a \in Texts, NEW p \in Texts,
         ~Holds(a, <<Equals>>), ~Holds(a, <<Newline>>), ~Holds(p, <<Newline>>)
  PROVE  /\ LegendLine(<<a, p>>) \in Texts /\ ~Holds(LegendLine(<<a, p>>), <<Newline>>)
         /\ LegendLine(<<a, p>>) # Boundary
         /\ SplitOnce(LegendLine(<<a, p>>), Equals) = {<<a, p>>}
<1> USE NewlineIsASymbol
<1>1. LegendLine(<<a, p>>) = a \o (<<Equals>> \o p)
  <2>1. <<Equals>> \in Texts
    BY Single DEF Texts
  <2>2. (a \o <<Equals>>) \o p = a \o (<<Equals>> \o p)
    BY <2>1, JoinAgain, Zenon
  <2> QED BY <2>2 DEF LegendLine
<1>2. PICK e \in Texts : e = <<Equals>> \o p
  BY OneBefore, Zenon
<1>3. PICK l \in Texts : l = a \o e
  BY Joined, Zenon
<1>4. Holds(l, <<Equals>>) /\ Before(l, Equals) = a /\ After(l, Equals) = p
  <2>1. /\ Holds(a \o (<<Equals>> \o p), <<Equals>>) /\ Before(a \o (<<Equals>> \o p), Equals) = a
        /\ After(a \o (<<Equals>> \o p), Equals) = p
    BY CutOf
  <2> QED BY <1>2, <1>3, <2>1
<1>5. ~Holds(l, <<Newline>>)
  <2>1. <<Equals>> \in Texts /\ ~Holds(<<Equals>>, <<Newline>>)
    BY HoldsInOne
  <2>2. ~Holds(e, <<Newline>>)
    BY <1>2, <2>1, HoldsASymbol
  <2> QED BY <1>3, <2>2, HoldsASymbol
<1>6. l # Boundary
  BY <1>4, BoundaryIsAText
<1>7. SplitOnce(l, Equals) = {<<a, p>>}
  BY <1>4 DEF SplitOnce
<1> QED BY <1>1, <1>2, <1>3, <1>5, <1>6, <1>7, Zenon

LEMMA LegendIs ==
  ASSUME NEW es \in Dictionaries, Readable(es)
  PROVE  /\ LegendOf(es) \in Lists /\ Len(LegendOf(es)) = Len(es) /\ LegendLines(LegendOf(es))
         /\ \A i \in 1..Len(es) : SplitOnce(LegendOf(es)[i], Equals) = {es[i]}
<1>1. Len(es) \in Nat /\ DOMAIN es = 1..Len(es) /\ \A i \in 1..Len(es) : es[i] \in Texts \X Texts
  BY DEF Dictionaries
<1>2. ASSUME NEW i \in 1..Len(es)
      PROVE  /\ LegendLine(es[i]) \in Texts /\ ~Holds(LegendLine(es[i]), <<Newline>>)
             /\ LegendLine(es[i]) # Boundary /\ SplitOnce(LegendLine(es[i]), Equals) = {es[i]}
  <2>1. PICK a \in Texts, p \in Texts : es[i] = <<a, p>>
    BY <1>1
  <2>2. ~Holds(a, <<Equals>>) /\ ~Holds(a, <<Newline>>) /\ ~Holds(p, <<Newline>>)
    BY <2>1 DEF Readable
  <2> QED BY <2>1, <2>2, LegendLineIs
<1>3. LegendOf(es) = [i \in 1..Len(es) |-> LegendLine(es[i])]
  BY <1>1 DEF LegendOf
<1>4. LegendOf(es) \in [1..Len(es) -> Texts] /\ \A i \in 1..Len(es) : LegendOf(es)[i] = LegendLine(es[i])
  BY <1>2, <1>3
<1>5. LegendOf(es) \in Lists /\ Len(LegendOf(es)) = Len(es)
  BY <1>1, <1>4, ASequence DEF Lists
<1> QED BY <1>2, <1>4, <1>5, Zenon DEF LegendLines, NoneHolds

LEMMA MineIs ==
  ASSUME NEW es \in Dictionaries, Readable(es), NEW n \in Nat, NEW body \in Texts,
         NEW text, text = Emit(Container("mine", <<<<"n", Number(n)>>>>, LegendOf(es), body))
  PROVE  /\ text \in Texts /\ IsContainer(text)
         /\ Parse(text) = {Container("mine", <<<<"n", Number(n)>>>>, LegendOf(es), body)}
         /\ DecodeAll(text) = DecodeAll(ExpandAll(body, es))
<1>1. PICK ps : ps = <<<<"n", Number(n)>>>>
  OBVIOUS
<1>2. PICK c : c = Container("mine", ps, LegendOf(es), body)
  OBVIOUS
<1>3. c.codec = "mine" /\ c.legend = LegendOf(es) /\ c.body = body
  BY <1>2 DEF Container
<1>4. WellFormed("mine", ps, LegendOf(es), body)
  <2>1. "mine" \in {"raw", "mine", "mosaic", "ext", "rules"}
    OBVIOUS
  <2>2. "mine" \in Symbols /\ "mine" \notin {Space, Newline, "body"}
    BY <2>1, CodecsAreSymbols
  <2>3. ps \in Fields /\ Named(ps)
    BY <1>1, CountIs
  <2> QED BY <2>2, <2>3, LegendIs DEF WellFormed
<1>5. MineDecode(c) = {ExpandAll(body, es)}
  <2>1. PICK l \in Lists : l = LegendOf(es)
    BY LegendIs
  <2>2. Len(l) = Len(es) /\ \A i \in 1..Len(es) : SplitOnce(l[i], Equals) = {es[i]}
    BY <2>1, LegendIs, Zenon
  <2>3. DOMAIN l = 1..Len(es) /\ Len(es) \in Nat /\ DOMAIN es = 1..Len(es)
    BY <2>2 DEF Lists, Dictionaries
  <2>4. \A i \in DOMAIN l : SplitOnce(l[i], Equals) # {} /\ (CHOOSE e \in SplitOnce(l[i], Equals) : TRUE) = es[i]
    BY <2>2, <2>3
  <2>5. [i \in DOMAIN l |-> CHOOSE e \in SplitOnce(l[i], Equals) : TRUE] = es
    <3>1. [i \in DOMAIN l |-> CHOOSE e \in SplitOnce(l[i], Equals) : TRUE] = [i \in DOMAIN l |-> es[i]]
      BY <2>4
    <3>2. [i \in 1..Len(es) |-> es[i]] = es
      BY DEF Dictionaries
    <3> QED BY <2>3, <3>1, <3>2
  <2>6. c.legend = l
    BY <1>3, <2>1
  <2> QED BY <1>3, <2>4, <2>5, <2>6, Zenon DEF MineDecode
<1>6. DecodeContainer(c) = {ExpandAll(body, es)}
  BY <1>3, <1>5 DEF DecodeContainer, DecodeFlat
<1>7. /\ text \in Texts /\ IsContainer(text)
      /\ DecodeAll(text) = UNION {DecodeAll(o) : o \in {ExpandAll(body, es)}}
  BY <1>1, <1>2, <1>4, <1>6, EmittedDecodes
<1>8. Parse(text) = {c}
  BY <1>1, <1>2, <1>4, ParseEmit
<1> QED BY <1>1, <1>2, <1>7, <1>8, Zenon

-----------------------------------------------------------------------------
(* mosaic.rs: the frames of a body are read back, and no other body with as *)
(* many segments begins with part of it.                                    *)

FrameOf(t) == Number(Len(t)) \o <<Newline>> \o t
FramesOf(q) == [i \in DOMAIN q |-> FrameOf(q[i])]

LEMMA FrameIsAText ==
  ASSUME NEW t \in Texts
  PROVE  /\ FrameOf(t) \in Texts /\ Len(t) \in Nat /\ Number(Len(t)) \in Texts
         /\ \A u \in Texts : FrameOf(t) \o u = Number(Len(t)) \o (<<Newline>> \o (t \o u))
<1> USE NewlineIsASymbol
<1>1. Len(t) \in Nat
  BY DEF Texts
<1>2. PICK n \in Texts : n = Number(Len(t))
  BY <1>1, NumberIs
<1>3. PICK l \in Texts : l = <<Newline>>
  BY Single, Zenon DEF Texts
<1>4. PICK nl \in Texts : nl = n \o l
  BY Joined, Zenon
<1>5. nl \o t \in Texts
  BY Joined
<1>6. ASSUME NEW u \in Texts PROVE (nl \o t) \o u = n \o (l \o (t \o u))
  <2>1. PICK tu \in Texts : tu = t \o u
    BY Joined, Zenon
  <2>2. (nl \o t) \o u = nl \o tu
    BY <2>1, JoinAgain, ZenonT(60)
  <2>3. nl \o tu = n \o (l \o tu)
    BY <1>4, JoinAgain, SMTT(30)
  <2> QED BY <2>1, <2>2, <2>3
<1> QED BY <1>1, <1>2, <1>3, <1>4, <1>5, <1>6, Zenon DEF FrameOf

LEMMA FramesList ==
  ASSUME NEW q \in Lists, NEW t \in Texts
  PROVE  /\ FramesOf(q) \in Lists /\ FramesOf(<< >>) = << >>
         /\ FramesOf(<<t>> \o q) = <<FrameOf(t)>> \o FramesOf(q)
<1>1. ASSUME NEW r \in Lists
      PROVE  FramesOf(r) \in Lists /\ Len(FramesOf(r)) = Len(r) /\ \A i \in 1..Len(r) : FramesOf(r)[i] = FrameOf(r[i])
  <2>1. DOMAIN r = 1..Len(r) /\ Len(r) \in Nat /\ \A i \in 1..Len(r) : r[i] \in Texts
    BY DEF Lists
  <2>2. \A i \in 1..Len(r) : FrameOf(r[i]) \in Texts
    BY <2>1, FrameIsAText
  <2>3. FramesOf(r) \in [1..Len(r) -> Texts]
    BY <2>1, <2>2 DEF FramesOf
  <2>4. FramesOf(r) \in Seq(Texts) /\ Len(FramesOf(r)) = Len(r)
    BY <2>1, <2>3, ASequence
  <2> QED BY <2>1, <2>4 DEF FramesOf, Lists
<1>2. << >> \in Lists /\ FramesOf(<< >>) = << >>
  <2>1. << >> \in Lists
    BY DEF Lists
  <2> QED BY <2>1 DEF FramesOf
<1>3. PICK r : r = <<t>> \o q
  BY Zenon
<1>4. r \in Lists /\ Len(r) = Len(q) + 1 /\ Len(q) \in Nat /\ r[1] = t /\ \A i \in 1..Len(q) : r[i + 1] = q[i]
  BY <1>3, ListJoin
<1>5. PICK y \in Texts : y = FrameOf(t)
  BY FrameIsAText
<1>6. PICK l \in Lists : l = FramesOf(q)
  BY <1>1
<1>7. PICK w : w = <<y>> \o l
  BY Zenon
<1>8. w \in Lists /\ Len(w) = Len(l) + 1 /\ w[1] = y /\ \A i \in 1..Len(l) : w[i + 1] = l[i]
  BY <1>7, ListJoin
<1>9. Len(l) = Len(q)
  BY <1>1, <1>6
<1>10. FramesOf(r) \in Lists /\ Len(FramesOf(r)) = Len(r) /\ \A i \in 1..Len(r) : FramesOf(r)[i] = FrameOf(r[i])
  BY <1>1, <1>4
<1>11. ASSUME NEW i \in 1..Len(r) PROVE FramesOf(r)[i] = w[i]
  <2>1. CASE i = 1
    BY <1>4, <1>5, <1>8, <1>10, <2>1
  <2>2. CASE i # 1
    <3>1. i - 1 \in 1..Len(q) /\ (i - 1) + 1 = i
      BY <1>4, <2>2
    <3>2. r[i] = q[i - 1] /\ w[i] = l[i - 1]
      BY <1>4, <1>8, <1>9, <3>1, Zenon
    <3>3. l[i - 1] = FrameOf(q[i - 1])
      BY <1>1, <1>6, <3>1
    <3> QED BY <1>10, <3>2, <3>3
  <2> QED BY <2>1, <2>2
<1>12. FramesOf(r) = w
  <2>1. Len(w) = Len(FramesOf(r))
    BY <1>4, <1>8, <1>9, <1>10
  <2> QED BY <1>8, <1>10, <1>4, <1>11, <2>1, SameList
<1> QED BY <1>1, <1>2, <1>3, <1>5, <1>6, <1>7, <1>12, Zenon

LEMMA FramesAreOne ==
  ASSUME NEW t, NEW n \in Frames(t), NEW m \in Frames(t)
  PROVE  n = m
BY DEF Frames, Spelled

(* A text of a frame and more.                                              *)
LEMMA FirstFrame ==
  ASSUME NEW t \in Texts, NEW u \in Texts, NEW z, z = FrameOf(t) \o u
  PROVE  /\ z \in Texts /\ z # << >> /\ Frames(z) = {Len(t)}
         /\ Framed(z, Len(t)) = t /\ Beyond(z, Len(t)) = u
<1> USE NewlineIsASymbol
<1>1. PICK n \in Nat : n = Len(t)
  BY FrameIsAText
<1>2. /\ Number(n) \in Texts /\ ~Holds(Number(n), <<Newline>>)
      /\ \A most \in Nat : Spelled(Number(n), most) = IF n <= most THEN {n} ELSE {}
  BY NumberIs, Zenon
<1>3. PICK y \in Texts : y = t \o u
  BY Joined, Zenon
<1>4. z = Number(n) \o (<<Newline>> \o y)
  BY <1>1, <1>3, FrameIsAText, Zenon
<1>5. z \in Texts /\ Holds(z, <<Newline>>) /\ Before(z, Newline) = Number(n) /\ After(z, Newline) = y
  <2>1. /\ Number(n) \o (<<Newline>> \o y) \in Texts /\ Holds(Number(n) \o (<<Newline>> \o y), <<Newline>>)
        /\ Before(Number(n) \o (<<Newline>> \o y), Newline) = Number(n)
        /\ After(Number(n) \o (<<Newline>> \o y), Newline) = y
    BY <1>2, CutOf
  <2> QED BY <1>4, <2>1
<1>6. Len(y) = n + Len(u) /\ Len(u) \in Nat /\ Len(y) \in Nat /\ n <= Len(y)
  <2>1. Len(y) = Len(t) + Len(u) /\ Len(u) \in Nat
    BY <1>3, Joined
  <2> QED BY <1>1, <2>1
<1>7. Frames(z) = {n}
  BY <1>2, <1>5, <1>6 DEF Frames
<1>8. SubSeq(y, 1, n) = t /\ SubSeq(y, n + 1, Len(y)) = u
  BY <1>1, <1>3, Joined
<1>9. z # << >>
  BY <1>5 DEF Holds
<1> QED BY <1>1, <1>5, <1>7, <1>8, <1>9 DEF Framed, Beyond

LEMMA MosaicBodyIs ==
  ASSUME NEW q0 \in Lists
  PROVE  MosaicBody(q0) \in Texts /\ Segments(MosaicBody(q0)) = {q0} /\ Len(MosaicBody(q0)) >= Len(q0)
<1> DEFINE P == {q \in Lists : /\ MosaicBody(q) \in Texts /\ Segments(MosaicBody(q)) = {q}
                               /\ Len(MosaicBody(q)) >= Len(q)}
<1>0. \A q : MosaicBody(q) = FlattenSeq(FramesOf(q))
  BY DEF MosaicBody, FramesOf, FrameOf
<1>1. << >> \in P
  <2>1. << >> \in Lists /\ << >> \in Texts
    BY Nothing DEF Lists
  <2>2. FlattenSeq(FramesOf(<< >>)) = << >>
    BY <2>1, FramesList, FlatLaws, Zenon
  <2>3. Segments(<< >>) = {<< >>}
    BY <2>1, SegLaws
  <2> QED BY <1>0, <2>1, <2>2, <2>3
<1>2. ASSUME NEW t \in Texts, NEW q \in Lists, q \in P PROVE <<t>> \o q \in P
  <2>1. PICK r \in Lists : r = <<t>> \o q
    BY ListJoin, Zenon
  <2>2. PICK u \in Texts : u = MosaicBody(q)
    BY <1>2
  <2>3. PICK f \in Texts : f = FrameOf(t)
    BY FrameIsAText
  <2>4. PICK z : z = f \o u
    BY Zenon
  <2>5. MosaicBody(r) = z
    <3>1. FramesOf(q) \in Lists
      BY FramesList, Zenon
    <3>2. FlattenSeq(<<f>> \o FramesOf(q)) = f \o FlattenSeq(FramesOf(q))
      BY <3>1, FlatLaws, Zenon
    <3>3. FramesOf(r) = <<f>> \o FramesOf(q)
      BY <2>1, <2>3, FramesList, Zenon
    <3> QED BY <1>0, <2>2, <2>4, <3>2, <3>3, Zenon
  <2>6. /\ z \in Texts /\ z # << >> /\ Frames(z) = {Len(t)}
        /\ Framed(z, Len(t)) = t /\ Beyond(z, Len(t)) = u
    BY <2>3, <2>4, FirstFrame, Zenon
  <2>7. Segments(z) = {r}
    <3>1. Segments(z) = UNION {FirstOf(z, n, Segments(Beyond(z, n))) : n \in Frames(z)}
      BY <2>6, SegLaws
    <3>2. Segments(z) = FirstOf(z, Len(t), Segments(u))
      BY <2>6, <3>1
    <3>3. Segments(u) = {q}
      BY <1>2, <2>2
    <3> QED BY <2>1, <2>6, <3>2, <3>3 DEF FirstOf
  <2>8. Len(z) >= Len(r)
    <3>1. Len(z) = Len(f) + Len(u) /\ Len(f) \in Nat /\ Len(u) \in Nat
      BY <2>4, Joined
    <3>2. Len(f) >= 1
      <4>1. f # << >>
        <5>1. << >> \in Texts
          BY Nothing
        <5>2. PICK v : v = FrameOf(t) \o << >>
          OBVIOUS
        <5>3. v # << >>
          BY <5>1, <5>2, FirstFrame, Zenon
        <5>4. f \o << >> = f
          BY NothingBefore
        <5> QED BY <2>3, <5>2, <5>3, <5>4
      <4> QED BY <3>1, <4>1 DEF Texts
    <3>3. Len(r) = Len(q) + 1 /\ Len(q) \in Nat
      BY <2>1, ListJoin
    <3>4. Len(u) >= Len(q)
      BY <1>2, <2>2
    <3> HIDE DEF P
    <3> QED BY <3>1, <3>2, <3>3, <3>4
  <2> QED BY <2>1, <2>5, <2>6, <2>7, <2>8, Zenon
<1>3. \A q \in Lists : q \in P
  <2> HIDE DEF P
  <2> QED BY <1>1, <1>2, ListInduction
<1> QED BY <1>3

LEMMA DeclaredIs ==
  ASSUME NEW n \in Nat, NEW codec, NEW lines, NEW body \in Texts, n <= Len(body) + 1
  PROVE  Declared(Container(codec, <<<<"n", Number(n)>>>>, lines, body)) = {n}
<1>1. PICK c : c = Container(codec, <<<<"n", Number(n)>>>>, lines, body)
  OBVIOUS
<1>2. Param(c, "n") = {Number(n)} /\ c.body = body
  BY <1>1, CountIs DEF Container
<1>3. Len(body) + 1 \in Nat
  BY DEF Texts
<1>4. Spelled(Number(n), Len(body) + 1) = {n}
  BY <1>3, NumberIs
<1>5. Declared(c) = {n}
  BY <1>2, <1>4 DEF Declared
<1> QED BY <1>1, <1>5

LEMMA MosaicIs ==
  ASSUME NEW q \in Lists
  PROVE  /\ Mosaic(q) \in Texts /\ IsContainer(Mosaic(q))
         /\ Parse(Mosaic(q)) = {Container("mosaic", <<<<"n", Number(Len(q))>>>>, << >>, MosaicBody(q))}
         /\ DecodeAll(Mosaic(q)) = UNION {DecodeAll(o) : o \in DecodeSegments(q)}
<1>1. PICK ps : ps = <<<<"n", Number(Len(q))>>>>
  BY Zenon
<1>2. PICK body \in Texts : body = MosaicBody(q)
  BY MosaicBodyIs
<1>3. PICK c : c = Container("mosaic", ps, << >>, body)
  OBVIOUS
<1>4. c.codec = "mosaic" /\ c.body = body
  BY <1>3 DEF Container
<1>5. Len(q) \in Nat /\ Len(body) \in Nat
  BY DEF Lists, Texts
<1>6. WellFormed("mosaic", ps, << >>, body)
  <2>1. "mosaic" \in {"raw", "mine", "mosaic", "ext", "rules"}
    OBVIOUS
  <2>2. "mosaic" \in Symbols /\ "mosaic" \notin {Space, Newline, "body"}
    BY <2>1, CodecsAreSymbols
  <2>3. ps \in Fields /\ Named(ps)
    BY <1>1, <1>5, CountIs
  <2> QED BY <2>2, <2>3, NoFields DEF WellFormed
<1>7. Declared(c) = {Len(q)}
  <2>1. Len(q) <= Len(body) + 1
    <3>1. Len(body) >= Len(q)
      BY <1>2, MosaicBodyIs
    <3> QED BY <1>5, <3>1
  <2> QED BY <1>1, <1>3, <1>5, <2>1, DeclaredIs
<1>8. SplitMosaic(c) = {q}
  <2>1. Segments(body) = {q}
    BY <1>2, MosaicBodyIs
  <2> QED BY <1>4, <1>7, <2>1 DEF SplitMosaic
<1>9. DecodeContainer(c) = DecodeSegments(q)
  BY <1>4, <1>8 DEF DecodeContainer
<1>10. PICK text : text = Emit(c)
  OBVIOUS
<1>11. text \in Texts /\ IsContainer(text) /\ DecodeAll(text) = UNION {DecodeAll(o) : o \in DecodeContainer(c)}
  BY <1>3, <1>6, <1>10, EmittedDecodes
<1>12. Parse(text) = {c}
  BY <1>3, <1>6, <1>10, ParseEmit
<1> QED BY <1>1, <1>2, <1>3, <1>9, <1>10, <1>11, <1>12 DEF Mosaic

LEMMA JoinsOfOne ==
  ASSUME NEW x \in Texts, NEW y \in Texts
  PROVE  Joins({x}, {y}) = {x \o y}
<1>1. \A o \in Joins({x}, {y}) : \E u \in {x}, v \in {y} : o = u \o v
  BY JoinsAreTexts
<1>2. x \o y \in Joins({x}, {y})
  <2>1. PICK o : o = <<x, y>>
    BY Zenon
  <2>2. o \in {x} \X {y} /\ o[1] = x /\ o[2] = y
    BY <2>1
  <2> QED BY <2>2, Zenon DEF Joins
<1> QED BY <1>1, <1>2, Zenon

(* A text cut in two raw segments decodes as the text does.                 *)
LEMMA MosaicOfTwo ==
  ASSUME NEW x \in Texts, NEW y \in Texts, NEW text, text = Mosaic(<<Raw(x), Raw(y)>>)
  PROVE  /\ text \in Texts /\ IsContainer(text) /\ DecodeAll(text) = DecodeAll(x \o y)
         /\ \E c : Parse(text) = {c} /\ c.codec = "mosaic"
<1>1. PICK a \in Texts : a = Raw(x)
  BY RawIs
<1>2. PICK b \in Texts : b = Raw(y)
  BY RawIs
<1>3. Opened(a) = {x} /\ Opened(b) = {y}
  BY <1>1, <1>2, RawIs
<1>4. PICK q : q = <<a, b>>
  BY Zenon
<1>5. PICK r : r = <<b>>
  BY Zenon
<1>6. q \in Lists /\ q # << >> /\ Head(q) = a /\ Tail(q) = r
  <2>1. q \in Seq(Texts) /\ Len(q) = 2 /\ q[1] = a /\ q[2] = b
    BY <1>4, Two
  <2>2. q # << >>
    BY <1>4
  <2> QED BY <1>4, <1>5, <2>1, <2>2 DEF Lists
<1>7. r \in Lists /\ r # << >> /\ Head(r) = b /\ Tail(r) = << >>
  <2>1. r \in Seq(Texts) /\ Len(r) = 1 /\ r[1] = b
    BY <1>5, Single
  <2>2. r # << >>
    BY <1>5
  <2> QED BY <1>5, <2>1, <2>2 DEF Lists
<1>8. DecodeSegments(<< >>) = {<< >>}
  <2>1. << >> \in Lists
    BY Nothing DEF Lists
  <2> QED BY <2>1, OutLaws
<1>9. DecodeSegments(r) = {y}
  <2>1. DecodeSegments(r) = Joins({y}, {<< >>})
    BY <1>3, <1>7, <1>8, OutLaws, Zenon
  <2>2. Joins({y}, {<< >>}) = {y \o << >>}
    BY Nothing, JoinsOfOne, Zenon
  <2>3. y \o << >> = y
    BY NothingBefore
  <2> QED BY <2>1, <2>2, <2>3, Zenon
<1>10. DecodeSegments(q) = {x \o y}
  <2>1. DecodeSegments(q) = Joins({x}, {y})
    BY <1>3, <1>6, <1>9, OutLaws, Zenon
  <2> QED BY <2>1, JoinsOfOne, Zenon
<1>11. Mosaic(q) = text
  BY <1>1, <1>2, <1>4
<1>12. /\ Mosaic(q) \in Texts /\ IsContainer(Mosaic(q))
       /\ Parse(Mosaic(q)) = {Container("mosaic", <<<<"n", Number(Len(q))>>>>, << >>, MosaicBody(q))}
       /\ DecodeAll(Mosaic(q)) = UNION {DecodeAll(o) : o \in DecodeSegments(q)}
  BY <1>6, MosaicIs
<1>13. Container("mosaic", <<<<"n", Number(Len(q))>>>>, << >>, MosaicBody(q)).codec = "mosaic"
  BY DEF Container
<1> QED BY <1>10, <1>11, <1>12, <1>13, Zenon

JoinedLater(b, l, a, v) == (b \o (l \o a)) \o v = b \o (l \o (a \o v))
LEMMA JoinThree ==
  ASSUME NEW b \in Texts, NEW l \in Texts, NEW a \in Texts, NEW v \in Texts
  PROVE  JoinedLater(b, l, a, v)
<1>1. PICK la \in Texts : la = l \o a
  BY Joined, Zenon
<1>2. (b \o la) \o v = b \o (la \o v)
  BY JoinAgain, ZenonT(60)
<1>3. la \o v = l \o (a \o v)
  BY <1>1, JoinAgain, SMTT(30)
<1> QED BY <1>1, <1>2, <1>3 DEF JoinedLater

(* A proper prefix of a body never has as many segments as the body.        *)
LEMMA PrefixesMiscount ==
  ASSUME NEW t0 \in Texts
  PROVE  \A u \in Texts : \A v \in Texts : t0 = u \o v /\ v # << >> =>
           \A x \in Segments(t0), y \in Segments(u) : Len(y) # Len(x)
<1> USE NewlineIsASymbol
<1> DEFINE P == {t \in Texts : \A u \in Texts : \A v \in Texts : t = u \o v /\ v # << >> =>
                                 \A x \in Segments(t), y \in Segments(u) : Len(y) # Len(x)}
<1>1. ASSUME NEW t \in Texts, \A z \in Texts : Len(z) < Len(t) => z \in P,
             NEW u \in Texts, NEW v \in Texts, t = u \o v, v # << >>,
             NEW x \in Segments(t), NEW y \in Segments(u)
      PROVE  Len(y) # Len(x)
  <2>1. t # << >>
    <3>1. Len(t) = Len(u) + Len(v) /\ Len(u) \in Nat /\ Len(v) \in Nat
      BY <1>1, Joined
    <3>2. Len(v) # 0
      BY <1>1 DEF Texts
    <3>3. Len(t) # 0
      BY <3>1, <3>2
    <3> QED BY <3>3
  <2>2. PICK n \in Frames(t) : x \in FirstOf(t, n, Segments(Beyond(t, n)))
    BY <2>1, SegLaws
  <2>3. PICK x1 \in Segments(Beyond(t, n)) : x = <<Framed(t, n)>> \o x1
    BY <2>2 DEF FirstOf
  <2>4. /\ Before(t, Newline) = Number(n) /\ n \in Nat /\ After(t, Newline) \in Texts
        /\ Framed(t, n) \in Texts /\ Beyond(t, n) \in Texts /\ Len(Beyond(t, n)) < Len(t)
    BY <2>1, <2>2, FrameIs
  <2>5. x1 \in Lists /\ Len(x) = Len(x1) + 1 /\ Len(x1) \in Nat
    <3>1. x1 \in Lists
      BY <2>3, <2>4, SegLaws
    <3> QED BY <2>3, <2>4, <3>1, ListJoin
  <2>6. CASE u = << >>
    <3>1. y = << >>
      BY <1>1, <2>6, SegLaws
    <3>2. Len(y) = 0
      BY <3>1
    <3> HIDE DEF P
    <3> QED BY <2>5, <3>2
  <2>7. CASE u # << >>
    <3>1. PICK m \in Frames(u) : y \in FirstOf(u, m, Segments(Beyond(u, m)))
      BY <2>7, SegLaws
    <3>2. PICK y1 \in Segments(Beyond(u, m)) : y = <<Framed(u, m)>> \o y1
      BY <3>1 DEF FirstOf
    <3>3. /\ Holds(u, <<Newline>>) /\ Before(u, Newline) = Number(m) /\ m \in Nat /\ After(u, Newline) \in Texts
          /\ Framed(u, m) \in Texts /\ Len(Framed(u, m)) = m /\ Beyond(u, m) \in Texts
          /\ After(u, Newline) = Framed(u, m) \o Beyond(u, m)
      BY <2>7, <3>1, FrameIs, Zenon
    <3>4. y1 \in Lists /\ Len(y) = Len(y1) + 1 /\ Len(y1) \in Nat
      <4>1. y1 \in Lists
        BY <3>2, <3>3, SegLaws
      <4> QED BY <3>2, <3>3, <4>1, ListJoin
    <3>5. PICK b \in Texts : b = Before(u, Newline)
      BY Cut, Zenon
    <3>6. PICK a \in Texts : a = After(u, Newline)
      BY <3>3, Zenon
    <3>7. PICK l \in Texts : l = <<Newline>>
      BY Single, Zenon DEF Texts
    <3>8. ~Holds(b, <<Newline>>) /\ u = b \o (l \o a)
      BY <3>3, <3>5, <3>6, <3>7, Cut, Zenon
    <3>9. PICK av \in Texts : av = a \o v
      BY Joined, Zenon
    <3>10. t = b \o (l \o av)
      <4>1. JoinedLater(b, l, a, v)
        BY JoinThree
      <4> QED BY <1>1, <3>8, <3>9, <4>1 DEF JoinedLater
    <3>11. Before(t, Newline) = b /\ After(t, Newline) = av
      <4>1. Before(b \o (<<Newline>> \o av), Newline) = b /\ After(b \o (<<Newline>> \o av), Newline) = av
        BY <3>8, CutOf
      <4> QED BY <3>7, <3>10, <4>1
    <3>12. n = m
      <4>1. Number(n) = Number(m)
        BY <2>4, <3>3, <3>5, <3>11
      <4>2. Len(Number(n)) = n + 1 /\ Len(Number(m)) = m + 1
        BY <2>4, <3>3, NumberIs
      <4> QED BY <2>4, <3>3, <4>1, <4>2
    <3>13. PICK f \in Texts : f = Framed(u, m)
      BY <3>3
    <3>14. PICK w \in Texts : w = Beyond(u, m)
      BY <3>3
    <3>15. PICK wv \in Texts : wv = w \o v
      BY Joined, Zenon
    <3>16. av = f \o wv
      <4>1. JoinedLater(<< >>, f, w, v)
        BY Nothing, JoinThree
      <4>2. f \o w \in Texts /\ f \o wv \in Texts
        BY Joined
      <4>3. << >> \o (f \o w) = f \o w /\ << >> \o (f \o wv) = f \o wv
        BY <4>2, NothingBefore
      <4> QED BY <3>3, <3>6, <3>9, <3>13, <3>14, <3>15, <4>1, <4>3, Zenon DEF JoinedLater
    <3>17. Beyond(t, n) = wv
      <4>1. SubSeq(f \o wv, Len(f) + 1, Len(f \o wv)) = wv
        BY Joined
      <4> QED BY <3>3, <3>11, <3>12, <3>13, <3>16, <4>1, Zenon DEF Beyond
    <3>18. wv \in P
      BY <1>1, <2>4, <3>17, Zenon
    <3>19. Len(y1) # Len(x1)
      BY <1>1, <2>3, <3>2, <3>14, <3>15, <3>17, <3>18, Zenon
    <3> HIDE DEF P
    <3> QED BY <2>5, <3>4, <3>19
  <2> QED BY <2>6, <2>7
<1>2. \A t \in Texts : t \in P
  <2>1. ASSUME NEW t \in Texts, \A z \in Texts : Len(z) < Len(t) => z \in P PROVE t \in P
    BY <1>1, <2>1, Zenon
  <2> HIDE DEF P
  <2> QED BY <2>1, ShorterFirst
<1> QED BY <1>2, Zenon

LEMMA OneSegmentation ==
  ASSUME NEW t0 \in Texts
  PROVE  \A x \in Segments(t0), y \in Segments(t0) : x = y
<1> DEFINE P == {t \in Texts : \A x \in Segments(t), y \in Segments(t) : x = y}
<1>1. ASSUME NEW t \in Texts, \A z \in Texts : Len(z) < Len(t) => z \in P,
             NEW x \in Segments(t), NEW y \in Segments(t)
      PROVE  x = y
  <2>1. CASE t = << >>
    BY <1>1, <2>1, SegLaws
  <2>2. CASE t # << >>
    <3>1. PICK n \in Frames(t) : x \in FirstOf(t, n, Segments(Beyond(t, n)))
      BY <2>2, SegLaws
    <3>2. PICK m \in Frames(t) : y \in FirstOf(t, m, Segments(Beyond(t, m)))
      BY <2>2, SegLaws
    <3>3. n = m
      BY FramesAreOne
    <3>4. PICK x1 \in Segments(Beyond(t, n)) : x = <<Framed(t, n)>> \o x1
      BY <3>1 DEF FirstOf
    <3>5. PICK y1 \in Segments(Beyond(t, n)) : y = <<Framed(t, n)>> \o y1
      BY <3>2, <3>3 DEF FirstOf
    <3>6. Beyond(t, n) \in P
      BY <1>1, <2>2, FrameIs
    <3>7. x1 = y1
      BY <3>4, <3>5, <3>6
    <3> QED BY <3>4, <3>5, <3>7
  <2> QED BY <2>1, <2>2
<1>2. \A t \in Texts : t \in P
  <2>1. ASSUME NEW t \in Texts, \A z \in Texts : Len(z) < Len(t) => z \in P PROVE t \in P
    BY <1>1, <2>1
  <2> HIDE DEF P
  <2> QED BY <2>1, ShorterFirst
<1> QED BY <1>2

(* split, mosaic.rs: a mosaic that holds what it declares holds it under no *)
(* other count, and no cut of it does.                                      *)
LEMMA DeclaredOnce ==
  ASSUME NEW c, NEW n \in Declared(c), NEW m \in Declared(c)
  PROVE  n = m
<1>1. CASE Param(c, "n") = {}
  BY <1>1 DEF Declared
<1>2. CASE Param(c, "n") # {}
  <2>1. \A v \in Param(c, "n"), w \in Param(c, "n") : v = w
    BY DEF Param
  <2>2. PICK v \in Param(c, "n") : n \in Spelled(v, Len(c.body) + 1)
    BY <1>2 DEF Declared
  <2>3. PICK w \in Param(c, "n") : m \in Spelled(w, Len(c.body) + 1)
    BY <1>2 DEF Declared
  <2>4. v = w
    BY <2>1
  <2> QED BY <2>2, <2>3, <2>4 DEF Spelled
<1> QED BY <1>1, <1>2

LEMMA OtherCount ==
  ASSUME NEW t \in Texts, NEW c \in Parse(t), SplitMosaic(c) # {}, NEW n \in 0..Len(c.body),
         SplitMosaic([c EXCEPT !.params = <<<<"n", Number(n)>>>>]) # {}
  PROVE  Declared(c) = {n}
<1>1. PICK d : d = [c EXCEPT !.params = <<<<"n", Number(n)>>>>]
  OBVIOUS
<1>2. d = Container(c.codec, <<<<"n", Number(n)>>>>, c.legend, c.body)
  <2>1. PICK codec, ps, lines, body : c = Container(codec, ps, lines, body)
    BY DEF Parse
  <2> QED BY <1>1, <2>1 DEF Container
<1>3. c.body \in Texts /\ n \in Nat /\ n <= Len(c.body) + 1 /\ d.body = c.body
  <2>1. c.body \in Texts
    BY ParsedIs
  <2>2. Len(c.body) \in Nat
    BY <2>1 DEF Texts
  <2>3. d.body = c.body
    BY <1>2 DEF Container
  <2> QED BY <2>1, <2>2, <2>3
<1>4. Declared(d) = {n}
  BY <1>2, <1>3, DeclaredIs
<1>5. PICK x \in Segments(c.body) : Len(x) = n
  BY <1>1, <1>3, <1>4 DEF SplitMosaic
<1>6. PICK m \in Declared(c) : \E y \in Segments(c.body) : Len(y) = m
  BY DEF SplitMosaic
<1>7. n = m
  BY <1>3, <1>5, <1>6, OneSegmentation
<1>8. \A k \in Declared(c) : k = n
  BY <1>6, <1>7, DeclaredOnce
<1> QED BY <1>6, <1>7, <1>8

LEMMA CutMosaic ==
  ASSUME NEW t \in Texts, NEW c \in Parse(t), SplitMosaic(c) # {}, NEW cut \in 0..Len(c.body) - 1
  PROVE  SplitMosaic([c EXCEPT !.body = SubSeq(@, 1, cut)]) = {}
<1>1. PICK b \in Texts : b = c.body
  BY ParsedIs
<1>2. PICK u : u = SubSeq(b, 1, cut)
  BY Zenon
<1>3. PICK v : v = SubSeq(b, cut + 1, Len(b))
  BY Zenon
<1>4. Len(b) \in Nat /\ cut \in Nat /\ cut + 1 \in 1..Len(b) + 1 /\ (cut + 1) - 1 = cut /\ Len(b) + 1 - (cut + 1) # 0
  <2>1. PICK k : k = Len(b)
    BY Zenon
  <2>2. k \in Nat
    BY <2>1 DEF Texts
  <2>3. cut \in 0..k - 1
    BY <1>1, <2>1
  <2>4. cut \in Nat /\ cut + 1 \in 1..k + 1 /\ (cut + 1) - 1 = cut /\ k + 1 - (cut + 1) # 0
    BY <2>2, <2>3
  <2> QED BY <2>1, <2>2, <2>4
<1>5. u \in Texts /\ v \in Texts /\ b = u \o v /\ Len(u) = cut /\ Len(v) # 0
  <2>1. /\ SubSeq(b, cut + 1, Len(b)) \in Texts /\ Len(SubSeq(b, cut + 1, Len(b))) = Len(b) + 1 - (cut + 1)
        /\ SubSeq(b, 1, (cut + 1) - 1) \in Texts /\ Len(SubSeq(b, 1, (cut + 1) - 1)) = (cut + 1) - 1
        /\ b = SubSeq(b, 1, (cut + 1) - 1) \o SubSeq(b, cut + 1, Len(b))
    BY <1>4, Suffix, Zenon
  <2> QED BY <1>2, <1>3, <1>4, <2>1, Zenon
<1>6. v # << >>
  BY <1>5
<1>7. PICK d : d = [c EXCEPT !.body = SubSeq(@, 1, cut)]
  BY Zenon
<1>8. d.body = u /\ d.params = c.params
  <2>1. PICK codec, ps, lines, body : c = Container(codec, ps, lines, body)
    BY DEF Parse
  <2> QED BY <1>1, <1>2, <1>7, <2>1 DEF Container
<1>9. Declared(d) \subseteq Declared(c)
  <2>1. Param(d, "n") = Param(c, "n")
    BY <1>8 DEF Param
  <2>2. \A w : Spelled(w, Len(u) + 1) \subseteq Spelled(w, Len(b) + 1)
    BY <1>4, <1>5 DEF Spelled
  <2> QED BY <1>1, <1>8, <2>1, <2>2 DEF Declared
<1>10. PICK m \in Declared(c) : \E x \in Segments(b) : Len(x) = m
  BY <1>1 DEF SplitMosaic
<1>11. \A y \in Segments(u) : Len(y) # m
  BY <1>5, <1>6, <1>10, PrefixesMiscount, Zenon
<1>12. \A n \in Declared(d) : n = m
  BY <1>9, <1>10, DeclaredOnce
<1>13. SplitMosaic(d) = {}
  BY <1>8, <1>11, <1>12 DEF SplitMosaic
<1> QED BY <1>7, <1>13, Zenon

-----------------------------------------------------------------------------
(* Part 3.  Encoding. *)

(* The aliases of the miner. *)

(* The first candidate that is not in a text.                               *)
LEMMA FirstUnheldIs ==
  ASSUME NEW row, NEW t, DOMAIN row = 1..Len(row), Len(row) \in Nat, Unheld(row, t) # {}
  PROVE  \E i \in DOMAIN row : FirstUnheld(row, t) = row[i] /\ ~Holds(t, <<row[i]>>)
<1> DEFINE free == Unheld(row, t)
           i == CHOOSE i \in free : \A j \in free : i <= j
<1>1. free \subseteq Nat /\ free # {}
  BY DEF Unheld
<1>2. \E m \in free : \A j \in free : m <= j
  <2> HIDE DEF free
  <2> QED BY <1>1, NatHasMinimum, Zenon
<1>3. i \in free
  BY <1>2
<1>4. FirstUnheld(row, t) = row[i]
  BY DEF FirstUnheld
<1> QED BY <1>3, <1>4, Zenon DEF Unheld

Sigil(text) == FirstUnheld(Sigils, text)

LEMMA SigilIs ==
  ASSUME NEW t, Unheld(Sigils, t) # {}
  PROVE  Sigil(t) \in ToSet(Sigils) /\ Sigil(t) \in Symbols /\ ~Holds(t, <<Sigil(t)>>)
<1>1. DOMAIN Sigils = 1..Len(Sigils) /\ Len(Sigils) \in Nat /\ \A i \in DOMAIN Sigils : Sigils[i] \in Symbols
  BY AliasesAssumption
<1>2. PICK i \in DOMAIN Sigils : Sigil(t) = Sigils[i] /\ ~Holds(t, <<Sigils[i]>>)
  BY <1>1, FirstUnheldIs, Zenon DEF Sigil
<1> QED BY <1>1, <1>2 DEF ToSet

(* An alias of the pool is a glyph, or the sigil and an index.              *)
LEMMA PoolIs ==
  ASSUME NEW t, NEW a \in Pool(t)
  PROVE  \/ \E g \in Glyphs : a = <<g>> /\ ~Holds(t, <<g>>)
         \/ Unheld(Sigils, t) # {} /\ \E d \in Digits : a = <<Sigil(t), d>>
BY DEF Pool, Sigil

LEMMA AliasKinds ==
  ASSUME NEW t, Unheld(Sigils, t) # {}
  PROVE  /\ Sigil(t) \notin Glyphs /\ Sigil(t) \notin Digits
         /\ \A g \in Glyphs : g \notin Digits
BY SigilIs, AliasesAssumption, Zenon

LEMMA AliasesAreMarkers ==
  ASSUME NEW t, NEW a \in Pool(t)
  PROVE  /\ a \in Texts /\ Marker(a) /\ a # << >>
         /\ SymbolsOf(a) \subseteq AliasSymbols
<1>1. ASSUME NEW g \in Glyphs, a = <<g>>
      PROVE  a \in Texts /\ Marker(a) /\ a # << >> /\ SymbolsOf(a) \subseteq AliasSymbols
  <2>1. g \in Symbols
    BY AliasesAssumption
  <2>2. a \in Texts /\ Len(a) = 1 /\ a[1] = g
    BY <1>1, <2>1, Single DEF Texts
  <2>3. a # << >> /\ 1..1 = {1}
    BY <1>1
  <2>4. SymbolsOf(a) = {g}
    BY <2>2, <2>3 DEF SymbolsOf
  <2>5. g \in AliasSymbols
    BY DEF AliasSymbols
  <2>6. Marker(a)
    BY <2>2 DEF Marker
  <2> QED BY <2>2, <2>3, <2>4, <2>5, <2>6
<1>2. ASSUME Unheld(Sigils, t) # {}, NEW d \in Digits, a = <<Sigil(t), d>>
      PROVE  a \in Texts /\ Marker(a) /\ a # << >> /\ SymbolsOf(a) \subseteq AliasSymbols
  <2>1. d \in Symbols /\ Sigil(t) \in Symbols /\ Sigil(t) # d /\ Sigil(t) \in ToSet(Sigils)
    BY <1>2, SigilIs, AliasKinds, AliasesAssumption, Zenon
  <2>2. a \in Texts /\ Len(a) = 2 /\ a[1] = Sigil(t) /\ a[2] = d
    BY <1>2, <2>1 DEF Texts
  <2>3. a # << >> /\ 1..2 = {1, 2}
    BY <1>2
  <2>4. SymbolsOf(a) = {Sigil(t), d}
    BY <2>2, <2>3 DEF SymbolsOf
  <2> QED BY <2>1, <2>2, <2>3, <2>4 DEF Marker, AliasSymbols
<1> QED BY <1>1, <1>2, PoolIs, Zenon

(* What is left of the pool is not in the mined text t: no glyph of it, and *)
(* no index of it after the sigil.  S is what the pool was built for, and A *)
(* holds the aliases that are taken.                                        *)
Behind(s, A) == Glyphs \cup {s} \cup {d \in Digits : <<s, d>> \in A}
Left(t, S, A) ==
  /\ \A g \in Glyphs : ~Holds(S, <<g>>) /\ <<g>> \notin A => g \notin SymbolsOf(t)
  /\ Unheld(Sigils, S) # {} => FollowedBy(t, Sigil(S), Behind(Sigil(S), A))

LEMMA LeftAtFirst ==
  ASSUME NEW S \in Texts
  PROVE  Left(S, S, {})
<1>1. \A g \in Glyphs : ~Holds(S, <<g>>) => g \notin SymbolsOf(S)
  BY HoldsASymbol
<1>2. ASSUME Unheld(Sigils, S) # {} PROVE FollowedBy(S, Sigil(S), Behind(Sigil(S), {}))
  <2>1. \A i \in 1..Len(S) : S[i] # Sigil(S)
    BY <1>2, SigilIs, OneOccurs, Zenon
  <2>2. \A i \in 1..Len(S) - 1 : i \in 1..Len(S)
    BY DEF Texts
  <2> QED BY <2>1, <2>2 DEF FollowedBy
<1> QED BY <1>1, <1>2 DEF Left

LEMMA LeftUnheld ==
  ASSUME NEW t \in Texts, NEW S \in Texts, NEW A, Left(t, S, A), NEW a \in Pool(S), a \notin A
  PROVE  ~Holds(t, a)
<1>1. ASSUME NEW g \in Glyphs, a = <<g>>, ~Holds(S, <<g>>) PROVE ~Holds(t, a)
  <2>1. g \notin SymbolsOf(t)
    BY <1>1 DEF Left
  <2> QED BY <1>1, <2>1, HoldsASymbol
<1>2. ASSUME Unheld(Sigils, S) # {}, NEW d \in Digits, a = <<Sigil(S), d>>, Holds(t, a) PROVE FALSE
  <2>1. PICK i \in 1..Len(t) : OccursAt(t, a, i)
    BY <1>2 DEF Holds
  <2>2. Len(a) = 2 /\ a[1] = Sigil(S) /\ a[2] = d /\ Len(t) \in Nat
    BY <1>2 DEF Texts
  <2>3. i + 2 - 1 <= Len(t) /\ t[i + 1 - 1] = Sigil(S) /\ t[i + 2 - 1] = d
    BY <2>2, <2>1 DEF OccursAt
  <2>4. i \in 1..Len(t) - 1 /\ i + 1 - 1 = i /\ i + 2 - 1 = i + 1
    BY <2>2, <2>3
  <2>5. d \in Behind(Sigil(S), A)
    BY <1>2, <2>3, <2>4 DEF Left, FollowedBy
  <2>6. d \notin Glyphs /\ d # Sigil(S)
    BY <1>2, AliasKinds
  <2>7. <<Sigil(S), d>> \in A
    BY <2>5, <2>6 DEF Behind
  <2> QED BY <1>2, <2>7
<1> QED BY <1>1, <1>2, PoolIs, Zenon

LEMMA LeftKept ==
  ASSUME NEW t \in Texts, NEW S \in Texts, NEW A, Left(t, S, A), NEW a \in Pool(S), a \notin A,
         NEW p \in Texts, p # << >>
  PROVE  Left(Replace(t, p, a), S, A \cup {a})
<1>1. a \in Texts /\ a # << >>
  BY AliasesAreMarkers
<1>2. ASSUME NEW g \in Glyphs, ~Holds(S, <<g>>), <<g>> \notin A \cup {a}
      PROVE  g \notin SymbolsOf(Replace(t, p, a))
  <2>1. g \notin SymbolsOf(t)
    BY <1>2 DEF Left
  <2>2. g \notin SymbolsOf(a)
    <3>1. ASSUME NEW h \in Glyphs, a = <<h>> PROVE g \notin SymbolsOf(a)
      <4>1. g # h
        BY <1>2, <3>1
      <4>2. Len(a) = 1 /\ a[1] = h /\ 1..1 = {1}
        BY <3>1
      <4> QED BY <4>1, <4>2 DEF SymbolsOf
    <3>2. ASSUME Unheld(Sigils, S) # {}, NEW d \in Digits, a = <<Sigil(S), d>> PROVE g \notin SymbolsOf(a)
      <4>1. g # d /\ g # Sigil(S)
        BY <3>2, AliasKinds
      <4>2. Len(a) = 2 /\ a[1] = Sigil(S) /\ a[2] = d /\ 1..2 = {1, 2}
        BY <3>2
      <4> QED BY <4>1, <4>2 DEF SymbolsOf
    <3> QED BY <3>1, <3>2, PoolIs, Zenon
  <2>3. SymbolsOf(Replace(t, p, a)) \subseteq SymbolsOf(t) \cup SymbolsOf(a)
    BY <1>1, ReplaceSymbols
  <2> QED BY <2>1, <2>2, <2>3
<1>3. ASSUME Unheld(Sigils, S) # {}
      PROVE  FollowedBy(Replace(t, p, a), Sigil(S), Behind(Sigil(S), A \cup {a}))
  <2> DEFINE s == Sigil(S)
             F == Behind(s, A \cup {a})
  <2>1. FollowedBy(t, s, F)
    <3>1. FollowedBy(t, s, Behind(s, A))
      BY <1>3 DEF Left
    <3>2. Behind(s, A) \subseteq F
      BY DEF Behind
    <3> QED BY <3>1, <3>2, Zenon DEF FollowedBy
  <2>2. FollowedBy(a, s, F) /\ a[1] \in F /\ a[Len(a)] # s
    <3>1. ASSUME NEW h \in Glyphs, a = <<h>> PROVE FollowedBy(a, s, F) /\ a[1] \in F /\ a[Len(a)] # s
      <4>1. Len(a) = 1 /\ a[1] = h /\ 1..0 = {}
        BY <3>1
      <4>2. h # s
        BY <1>3, AliasKinds
      <4>3. h \in F
        BY DEF Behind
      <4>4. 1 - 1 = 0
        OBVIOUS
      <4> HIDE DEF F, s
      <4> QED BY <4>1, <4>2, <4>3, <4>4 DEF FollowedBy
    <3>2. ASSUME NEW d \in Digits, a = <<s, d>> PROVE FollowedBy(a, s, F) /\ a[1] \in F /\ a[Len(a)] # s
      <4>1. Len(a) = 2 /\ a[1] = s /\ a[2] = d /\ 1..1 = {1}
        BY <3>2
      <4>2. d # s
        BY <1>3, AliasKinds
      <4>3. s \in F /\ d \in F
        BY <3>2 DEF Behind
      <4>4. 2 - 1 = 1 /\ 1 + 1 = 2
        OBVIOUS
      <4> HIDE DEF F, s
      <4> QED BY <4>1, <4>2, <4>3, <4>4 DEF FollowedBy
    <3> QED BY <3>1, <3>2, PoolIs, Zenon
  <2> HIDE DEF s, F
  <2>3. FollowedBy(Replace(t, p, a), s, F)
    BY <1>1, <2>1, <2>2, ReplaceFollows
  <2> QED BY <2>3 DEF s, F
<1> QED BY <1>2, <1>3 DEF Left

-----------------------------------------------------------------------------
(* The dictionary of the miner. *)

(* A phrase is a span of the text, longer than one symbol and of one line.  *)
LEMMA PhrasesAreTexts ==
  ASSUME NEW t \in Texts, NEW p \in Phrases(t)
  PROVE  p \in Texts /\ p # << >> /\ ~Holds(p, <<Newline>>)
<1>1. PICK n \in 2..MaxPhrase : \E i \in 1..Len(t) - n + 1 : p = SubSeq(t, i, i + n - 1)
  BY Zenon DEF Phrases
<1>0. PICK i \in 1..Len(t) - n + 1 : p = SubSeq(t, i, i + n - 1)
  BY <1>1, Zenon
<1>2. MaxPhrase \in Nat /\ Len(t) \in Nat
  BY BoundsArePositive DEF Texts
<1>3. n \in Nat /\ i \in Nat /\ n >= 2 /\ i >= 1 /\ i + n - 1 <= Len(t) /\ i <= i + n - 1 + 1
      /\ i + n - 1 \in Nat /\ (i + n - 1) - i + 1 = n
  BY <1>0, <1>1, <1>2
<1>4. p \in Texts /\ Len(p) = n
  <2>1. PICK j \in Nat : j = i + n - 1
    BY <1>3
  <2>2. i \in 1..Len(t) + 1 /\ j \in i - 1..Len(t)
    BY <1>2, <1>3, <2>1
  <2>3. SubSeq(t, i, j) \in Seq(Symbols) /\ Len(SubSeq(t, i, j)) = j - i + 1
    BY <1>3, <2>1, <2>2, SubSeqProperties DEF Texts
  <2> QED BY <1>0, <1>3, <2>1, <2>3 DEF Texts
<1>5. p # << >>
  BY <1>3, <1>4
<1>6. \A k \in 1..Len(p) : p[k] # Newline
  BY DEF Phrases
<1> QED BY <1>4, <1>5, <1>6, OneOccurs

Aliases(es) == {es[i][1] : i \in 1..Len(es)}
MinedLines(S, es) ==
  \A i \in 1..Len(es) : es[i][1] \in Pool(S) /\ es[i][2] # << >> /\ ~Holds(es[i][2], <<Newline>>)
Dictionary(S, es) ==
  /\ es \in Dictionaries /\ MinedLines(S, es) /\ Fresh(S, es)
  /\ Left(CommitAll(S, es), S, Aliases(es))

LEMMA NoEntries ==
  /\ << >> \in Dictionaries /\ Len(<< >>) = 0 /\ 1..0 = {}
BY DEF Dictionaries

LEMMA DictionaryAtFirst ==
  ASSUME NEW S \in Texts
  PROVE  Dictionary(S, << >>)
<1>1. Aliases(<< >>) = {}
  BY NoEntries DEF Aliases
<1>2. PICK none \in Dictionaries : none = << >>
  BY NoEntries
<1>3. CommitAll(S, none) = S
  <2>1. S \in Texts
    OBVIOUS
  <2> QED BY <1>2, <2>1, CommitOne, Zenon
<1>4. Left(S, S, {})
  BY LeftAtFirst
<1>5. MinedLines(S, << >>) /\ Fresh(S, << >>)
  BY NoEntries DEF MinedLines, Fresh
<1> QED BY <1>1, <1>2, <1>3, <1>4, <1>5, Zenon DEF Dictionary

LEMMA DictionaryGrows ==
  ASSUME NEW S \in Texts, NEW es, Dictionary(S, es), NEW a \in Pool(S), a \notin Aliases(es),
         NEW p \in Phrases(CommitAll(S, es))
  PROVE  Dictionary(S, Append(es, <<a, p>>))
<1>1. es \in Dictionaries /\ MinedLines(S, es) /\ Fresh(S, es) /\ Left(CommitAll(S, es), S, Aliases(es))
  BY DEF Dictionary
<1>2. a \in Texts /\ Marker(a)
  BY AliasesAreMarkers
<1>3. CommitAll(S, es) \in Texts
  BY <1>1, <1>2, CommitOne, Zenon
<1>4. p \in Texts /\ p # << >> /\ ~Holds(p, <<Newline>>)
  BY <1>3, PhrasesAreTexts
<1>5. PICK more \in Dictionaries : more = Append(es, <<a, p>>)
  BY <1>1, <1>2, <1>4, CommitOne, Zenon
<1>6. CommitAll(S, more) = Replace(CommitAll(S, es), p, a)
  BY <1>1, <1>2, <1>4, <1>5, CommitOne
<1>7. /\ Len(more) = Len(es) + 1 /\ Len(es) \in Nat /\ more[Len(es) + 1] = <<a, p>>
      /\ \A i \in 1..Len(es) : more[i] = es[i]
  BY <1>1, <1>5 DEF Dictionaries
<1>8. more[Len(es) + 1][1] = a /\ more[Len(es) + 1][2] = p
  BY <1>7
<1>9. \A i \in 1..Len(more) : i \in 1..Len(es) \/ i = Len(es) + 1
  BY <1>7
<1>10. MinedLines(S, more)
  BY <1>1, <1>4, <1>7, <1>8, <1>9 DEF MinedLines
<1>11. \A n \in 0..Len(es) : SubSeq(more, 1, n) = SubSeq(es, 1, n)
  BY <1>1, <1>5 DEF Dictionaries
<1>12. SubSeq(es, 1, Len(es)) = es
  BY <1>1 DEF Dictionaries
<1>13. Fresh(S, more)
  <2>1. ASSUME NEW n \in 1..Len(es)
        PROVE  Marker(more[n][1]) /\ more[n][2] # << >> /\ ~Holds(CommitAll(S, SubSeq(more, 1, n - 1)), more[n][1])
    <3>1. n - 1 \in 0..Len(es)
      BY <1>7
    <3>2. SubSeq(more, 1, n - 1) = SubSeq(es, 1, n - 1)
      BY <1>11, <3>1
    <3> QED BY <1>1, <1>7, <3>2, Zenon DEF Fresh
  <2>2. ~Holds(CommitAll(S, es), a)
    BY <1>1, <1>3, LeftUnheld
  <2>3. SubSeq(more, 1, (Len(es) + 1) - 1) = es
    <3>1. (Len(es) + 1) - 1 = Len(es) /\ Len(es) \in 0..Len(es)
      BY <1>7
    <3> QED BY <1>11, <1>12, <3>1
  <2>4. ASSUME NEW n \in 1..Len(more)
        PROVE  Marker(more[n][1]) /\ more[n][2] # << >> /\ ~Holds(CommitAll(S, SubSeq(more, 1, n - 1)), more[n][1])
    <3>1. CASE n \in 1..Len(es)
      BY <2>1, <3>1
    <3>2. CASE n = Len(es) + 1
      BY <1>2, <1>4, <1>8, <2>2, <2>3, <3>2, Zenon
    <3> QED BY <1>9, <3>1, <3>2
  <2> QED BY <2>4 DEF Fresh
<1>14. Left(CommitAll(S, more), S, Aliases(more))
  <2>1. Aliases(more) = Aliases(es) \cup {a}
    <3>1. \A i \in 1..Len(es) : i \in 1..Len(more)
      BY <1>7
    <3>2. Len(es) + 1 \in 1..Len(more)
      BY <1>7
    <3>3. Aliases(more) \subseteq Aliases(es) \cup {a}
      BY <1>7, <1>8, <1>9 DEF Aliases
    <3>4. Aliases(es) \subseteq Aliases(more)
      BY <1>7, <3>1 DEF Aliases
    <3>5. a \in Aliases(more)
      BY <1>8, <3>2 DEF Aliases
    <3> QED BY <3>3, <3>4, <3>5
  <2> QED BY <1>1, <1>3, <1>4, <1>6, <2>1, LeftKept
<1> QED BY <1>5, <1>10, <1>13, <1>14 DEF Dictionary

(* mine.rs decode on what mine.rs encode committed.                         *)
LEMMA MinedExpands ==
  ASSUME NEW S \in Texts, NEW es, Dictionary(S, es)
  PROVE  ExpandAll(CommitAll(S, es), es) = S
BY ExpandInverts DEF Dictionary

-----------------------------------------------------------------------------
(* What a rule rewrites is a text, and so is what it leaves. *)

LEMMA ChosenAre ==
  ASSUME DelimitersLeft
  PROVE  /\ Chosen.start \in Symbols /\ Chosen.start \notin {Space, Newline}
         /\ Chosen.sep \in Symbols /\ Chosen.sep \notin {Space, Newline}
         /\ Chosen.end \in Symbols /\ Chosen.end \notin {Space, Newline}
<1>1. DOMAIN Delimiters = {"start", "end", "sep"}
  BY DelimitersAssumption
<1>2. ASSUME NEW role \in DOMAIN Delimiters
      PROVE  Chosen[role] \in Symbols /\ Chosen[role] \notin {Space, Newline}
  <2>1. PICK row : row = Delimiters[role]
    OBVIOUS
  <2>2. row \in Seq(Symbols) /\ ToSet(row) \cap {Space, Newline} = {}
    BY <2>1, DelimitersAssumption
  <2>3. DOMAIN row = 1..Len(row) /\ Len(row) \in Nat /\ \A i \in DOMAIN row : row[i] \in Symbols
    BY <2>2
  <2>4. Unheld(row, input) # {}
    BY <2>1 DEF DelimitersLeft
  <2>5. PICK i \in DOMAIN row : FirstUnheld(row, input) = row[i]
    BY <2>3, <2>4, FirstUnheldIs, Zenon
  <2>6. Chosen[role] = row[i]
    BY <2>1, <2>5 DEF Chosen
  <2> QED BY <2>2, <2>3, <2>6, Zenon DEF ToSet
<1> QED BY <1>1, <1>2

Matches(line, start) == [end : {0} \cup (start + 1..Len(line) + 1), values : Lists]
MatchNext(line, parts, n, m) ==
  LET hit   == IF m.end = 0 THEN 0 ELSE Find(line, parts[n + 1], m.end)
      value == SubSeq(line, m.end, hit - 1)
  IN  IF hit = 0 \/ Holds(value, <<Space>>) THEN [end |-> 0, values |-> << >>]
      ELSE [end |-> hit + Len(parts[n + 1]), values |-> Append(m.values, value)]

LEMMA MatchNextIs ==
  ASSUME NEW line \in Texts, NEW parts \in Lists, NEW start \in Nat \ {0}, NEW n \in 1..Len(parts) - 1,
         NEW m \in Matches(line, start)
  PROVE  MatchNext(line, parts, n, m) \in Matches(line, start)
<1> DEFINE hit == IF m.end = 0 THEN 0 ELSE Find(line, parts[n + 1], m.end)
           value == SubSeq(line, m.end, hit - 1)
<1>1. CASE hit = 0 \/ Holds(value, <<Space>>)
  <2>1. << >> \in Lists
    BY DEF Lists
  <2>2. MatchNext(line, parts, n, m) = [end |-> 0, values |-> << >>]
    BY <1>1 DEF MatchNext
  <2> QED BY <2>1, <2>2 DEF Matches
<1>2. CASE ~(hit = 0 \/ Holds(value, <<Space>>))
  <2>1. m.end # 0 /\ hit = Find(line, parts[n + 1], m.end) /\ hit # 0
    BY <1>2
  <2>2. PICK from : from = m.end
    OBVIOUS
  <2>3. PICK len \in Nat : len = Len(line)
    BY DEF Texts
  <2>4. from \in start + 1..len + 1 /\ m.values \in Lists
    BY <2>1, <2>2, <2>3 DEF Matches
  <2>5. from \in Nat \ {0} /\ from \in 1..len + 1
    BY <2>4
  <2>6. PICK p \in Texts : p = parts[n + 1]
    <3>1. n + 1 \in 1..Len(parts)
      <4>1. Len(parts) \in Nat
        BY DEF Lists
      <4> QED BY <4>1
    <3> QED BY <3>1 DEF Lists
  <2>7. hit \in from..len /\ OccursAt(line, p, hit)
    BY <2>1, <2>2, <2>3, <2>5, <2>6, FindLaw
  <2>8. hit + Len(p) - 1 <= len /\ Len(p) \in Nat
    <3>1. Len(p) \in Nat
      BY DEF Texts
    <3> QED BY <2>3, <2>7, <3>1 DEF OccursAt
  <2> HIDE DEF hit
  <2>9. hit + Len(p) \in start + 1..len + 1 /\ hit - 1 \in from - 1..len
    BY <2>4, <2>5, <2>7, <2>8
  <2>10. value \in Texts
    <3>1. from \in 1..Len(line) + 1 /\ hit - 1 \in from - 1..Len(line)
      BY <2>3, <2>5, <2>9
    <3>2. SubSeq(line, from, hit - 1) \in Seq(Symbols)
      BY <3>1, SubSeqProperties DEF Texts
    <3> QED BY <2>2, <3>2 DEF Texts
  <2> HIDE DEF value
  <2>11. Append(m.values, value) \in Lists
    BY <2>4, <2>10 DEF Lists
  <2>12. MatchNext(line, parts, n, m) = [end |-> hit + Len(p), values |-> Append(m.values, value)]
    BY <1>2, <2>6 DEF MatchNext, hit, value
  <2> QED BY <2>3, <2>9, <2>11, <2>12 DEF Matches
<1> QED BY <1>1, <1>2

LEMMA MatchIs ==
  ASSUME NEW line \in Texts, NEW parts \in Lists, parts # << >>, parts[1] # << >>,
         NEW start \in 1..Len(line), OccursAt(line, parts[1], start)
  PROVE  Match(line, parts, start) \in Matches(line, start)
<1> DEFINE hi == Len(parts) - 1
           V == Matches(line, start)
           base == [end |-> start + Len(parts[1]), values |-> << >>]
           G == [x \in (1..hi) \X V |-> MatchNext(line, parts, x[1], x[2])]
           IsIt(h) == h = [n \in 0..Len(parts) - 1 |->
                             IF n = 0 THEN base ELSE MatchNext(line, parts, n, h[n - 1])]
           f == CHOOSE h : IsIt(h)
<1>1. hi \in Nat /\ start \in Nat \ {0}
  <2>1. Len(parts) \in Nat /\ Len(parts) # 0
    BY DEF Lists
  <2> QED BY <2>1
<1>2. base \in V
  <2>1. parts[1] \in Texts
    <3>1. 1 \in 1..Len(parts)
      BY <1>1
    <3> QED BY <3>1 DEF Lists
  <2>2. Len(parts[1]) \in Nat /\ Len(parts[1]) # 0 /\ Len(line) \in Nat
    BY <2>1 DEF Texts
  <2>3. start + Len(parts[1]) - 1 <= Len(line)
    BY DEF OccursAt
  <2>4. start + Len(parts[1]) \in start + 1..Len(line) + 1
    BY <1>1, <2>2, <2>3
  <2>5. << >> \in Lists
    BY DEF Lists
  <2> QED BY <2>4, <2>5 DEF Matches
<1>3. \A n \in 1..hi : \A m \in V : MatchNext(line, parts, n, m) \in V
  BY <1>1, MatchNextIs
<1> HIDE DEF V, base
<1>4. G \in [(1..hi) \X V -> V]
  BY <1>3
<1>5. \A n \in 1..hi : \A m \in V : G[<<n, m>>] = MatchNext(line, parts, n, m)
  OBVIOUS
<1> HIDE DEF hi
<1>6. PICK h \in [0..hi -> V] : h[0] = base /\ \A n \in 1..hi : h[n] = G[<<n, h[n - 1]>>]
  <2> HIDE DEF G
  <2>1. PICK h \in StepRuns(hi, V) : StepsBy(h, hi, base, G)
    BY <1>1, <1>2, <1>4, StepsExist, Zenon DEF StepRules
  <2> QED BY <2>1, Zenon DEF StepRuns, StepsBy
<1>7. \A n \in 1..hi : n - 1 \in 0..hi
  BY <1>1
<1>8. \A n \in 1..hi : h[n] = MatchNext(line, parts, n, h[n - 1])
  <2> HIDE DEF G
  <2>1. ASSUME NEW n \in 1..hi PROVE h[n] = MatchNext(line, parts, n, h[n - 1])
    <3>1. h[n - 1] \in V
      BY <1>6, <1>7, Zenon
    <3> QED BY <1>5, <1>6, <3>1, Zenon
  <2> QED BY <2>1
<1>9. IsIt(h)
  <2>1. \A n \in 0..hi : h[n] = IF n = 0 THEN base ELSE MatchNext(line, parts, n, h[n - 1])
    <3>1. \A n \in 0..hi : n # 0 => n \in 1..hi
      BY <1>1
    <3> QED BY <1>6, <1>8, <3>1
  <2> QED BY <1>6, <2>1 DEF hi
<1>10. IsIt(f)
  BY <1>9, Zenon
<1>11. f[hi] = Match(line, parts, start)
  BY DEF Match, MatchNext, hi, base
<1>12. PICK k : k = f
  OBVIOUS
<1>13. k = [n \in 0..hi |-> IF n = 0 THEN base ELSE MatchNext(line, parts, n, k[n - 1])]
  BY <1>10, <1>12, ZenonT(60) DEF hi
<1> HIDE DEF f, IsIt, G
<1>14. \A n \in 0..hi : k[n] = h[n]
  <2> DEFINE P == {n \in 0..hi : k[n] = h[n]}
  <2>1. 0 \in P
    BY <1>1, <1>6, <1>13
  <2>2. ASSUME NEW n \in 1..hi, n - 1 \in P PROVE n \in P
    <3>1. n \in 0..hi /\ n # 0
      BY <1>1
    <3> QED BY <1>8, <1>13, <2>2, <3>1
  <2>3. \A n \in 0..hi : n \in P
    <3> HIDE DEF P
    <3> QED BY <1>1, <2>1, <2>2, Climbs, Zenon
  <2> QED BY <2>3
<1>15. hi \in 0..hi
  BY <1>1
<1>16. Match(line, parts, start) \in V
  BY <1>6, <1>11, <1>12, <1>14, <1>15
<1> QED BY <1>16 DEF V

LEMMA SpansAre ==
  ASSUME NEW line \in Texts, NEW parts \in Lists, parts # << >>, parts[1] # << >>,
         NEW from \in 1..Len(line) + 1, NEW i \in Spans(line, parts, from)
  PROVE  /\ i \in from..Len(line) /\ Match(line, parts, i).end \in i + 1..Len(line) + 1
         /\ Match(line, parts, i).values \in Lists
<1>1. Len(line) \in Nat
  BY DEF Texts
<1>2. i \in from..Len(line) /\ OccursAt(line, parts[1], i) /\ Match(line, parts, i).end # 0
  BY DEF Spans
<1>3. i \in 1..Len(line)
  BY <1>1, <1>2
<1>4. Match(line, parts, i) \in Matches(line, i)
  BY <1>2, <1>3, MatchIs
<1> QED BY <1>2, <1>4 DEF Matches

FirstSpan(line, parts, from) == LET starts == Spans(line, parts, from)
                                IN  CHOOSE i \in starts : \A j \in starts : i <= j
LEMMA FirstSpanIs ==
  ASSUME NEW line \in Texts, NEW parts \in Lists, parts # << >>, parts[1] # << >>,
         NEW from \in 1..Len(line) + 1, Spans(line, parts, from) # {}
  PROVE  FirstSpan(line, parts, from) \in Spans(line, parts, from)
<1> DEFINE starts == Spans(line, parts, from)
<1>1. starts \subseteq Nat
  <2>1. Len(line) \in Nat
    BY DEF Texts
  <2>2. \A i \in starts : i \in from..Len(line)
    BY SpansAre
  <2>3. \A i \in from..Len(line) : i \in Nat
    BY <2>1
  <2> QED BY <2>2, <2>3
<1>2. \E i \in starts : \A j \in starts : i <= j
  <2>1. starts # {}
    OBVIOUS
  <2> HIDE DEF starts
  <2> QED BY <1>1, <2>1, NatHasMinimum, Zenon
<1> QED BY <1>2 DEF FirstSpan

RewriteStep(line, e, from, f) ==
  LET i == FirstSpan(line, e.parts, from)
      m == Match(line, e.parts, i)
  IN  IF Spans(line, e.parts, from) = {} THEN SubSeq(line, from, Len(line))
      ELSE SubSeq(line, from, i - 1) \o <<Chosen.start>> \o e.alias
             \o FlattenSeq(Led(m.values, Chosen.sep)) \o <<Chosen.end>> \o f[m.end]
Rule(e) == e.alias \in Texts /\ e.parts \in Lists /\ e.parts # << >> /\ e.parts[1] # << >>
Places(line) == 1..Len(line) + 1
Ahead(line) == [from \in Places(line) |-> Len(line) + 1 - from]

LEMMA AheadIs ==
  ASSUME NEW line \in Texts
  PROVE  /\ Ahead(line) \in [Places(line) -> Nat] /\ Len(line) \in Nat
         /\ \A i \in Places(line), j \in Places(line) : j > i => Ahead(line)[j] < Ahead(line)[i]
<1>1. PICK n \in Nat : n = Len(line)
  BY DEF Texts
<1>2. \A i \in 1..n + 1 : n + 1 - i \in Nat
  BY <1>1
<1>3. Ahead(line) \in [1..n + 1 -> Nat] /\ \A i \in 1..n + 1 : Ahead(line)[i] = n + 1 - i
  BY <1>1, <1>2 DEF Ahead, Places
<1>4. \A i \in 1..n + 1, j \in 1..n + 1 : j > i => n + 1 - j < n + 1 - i
  BY <1>1
<1> QED BY <1>1, <1>3, <1>4 DEF Places

LEMMA RewriteStepIsLocal ==
  ASSUME NEW line \in Texts, NEW e, Rule(e), NEW from \in Places(line), NEW f, NEW g,
         \A j \in Places(line) : j > from => f[j] = g[j]
  PROVE  RewriteStep(line, e, from, f) = RewriteStep(line, e, from, g)
<1>1. CASE Spans(line, e.parts, from) # {}
  <2>1. PICK i : i = FirstSpan(line, e.parts, from)
    OBVIOUS
  <2>2. i \in Spans(line, e.parts, from)
    BY <1>1, <2>1, FirstSpanIs DEF Rule, Places
  <2>3. i \in from..Len(line) /\ Match(line, e.parts, i).end \in i + 1..Len(line) + 1
    BY <2>2, SpansAre DEF Rule, Places
  <2>4. PICK j : j = Match(line, e.parts, i).end
    OBVIOUS
  <2>5. j \in Places(line) /\ j > from
    <3>1. Len(line) \in Nat /\ from \in Nat /\ from >= 1
      <4>1. Len(line) \in Nat
        BY DEF Texts
      <4> QED BY <4>1 DEF Places
    <3> QED BY <2>3, <2>4, <3>1 DEF Places
  <2>6. f[j] = g[j]
    BY <2>5
  <2> QED BY <1>1, <2>1, <2>4, <2>6 DEF RewriteStep
<1>2. CASE Spans(line, e.parts, from) = {}
  BY <1>2 DEF RewriteStep
<1> QED BY <1>1, <1>2

LEMMA RewriteStepIsAText ==
  ASSUME DelimitersLeft, NEW line \in Texts, NEW e, Rule(e), NEW from \in Places(line),
         NEW f \in [Places(line) -> Texts]
  PROVE  RewriteStep(line, e, from, f) \in Texts
<1>0. from \in 1..Len(line) + 1 /\ Len(line) \in Nat
  BY SMTT(30) DEF Places, Texts
<1>1. CASE Spans(line, e.parts, from) # {}
  <2>1. PICK i : i = FirstSpan(line, e.parts, from)
    OBVIOUS
  <2>2. i \in Spans(line, e.parts, from)
    BY <1>1, <2>1, FirstSpanIs DEF Rule, Places
  <2>3. PICK m : m = Match(line, e.parts, i)
    OBVIOUS
  <2>4. i \in from..Len(line) /\ m.end \in i + 1..Len(line) + 1 /\ m.values \in Lists
    BY <2>2, <2>3, SpansAre DEF Rule, Places
  <2>5. PICK x \in Texts : x = SubSeq(line, from, i - 1)
    <3>1. i - 1 \in from - 1..Len(line) /\ from \in Int /\ i - 1 \in Int
      BY <1>0, <2>4
    <3>2. \A k \in from..i - 1 : line[k] \in Symbols
      <4>1. \A k \in from..i - 1 : k \in 1..Len(line)
        BY <1>0, <2>4
      <4> QED BY <4>1 DEF Texts
    <3>3. SubSeq(line, from, i - 1) \in Seq(Symbols)
      BY <3>1, <3>2, SubSeqProperties
    <3> QED BY <3>3, Zenon DEF Texts
  <2>6. PICK a \in Texts : a = <<Chosen.start>>
    BY ChosenAre, Single, Zenon DEF Texts
  <2>7. PICK b \in Texts : b = <<Chosen.end>>
    BY ChosenAre, Single, Zenon DEF Texts
  <2>8. PICK v \in Texts : v = FlattenSeq(Led(m.values, Chosen.sep))
    <3>1. PICK s \in Symbols : s = Chosen.sep
      BY ChosenAre
    <3>2. PICK q \in Lists : q = m.values
      BY <2>4
    <3>3. Led(q, s) \in Lists
      BY Nothing, LedList, Zenon
    <3>4. FlattenSeq(Led(q, s)) \in Texts
      BY <3>3, Nothing, FlatLaws, Zenon
    <3> QED BY <3>1, <3>2, <3>4
  <2>9. PICK r \in Texts : r = f[m.end]
    <3>1. m.end \in Places(line)
      BY <1>0, <2>4 DEF Places
    <3> QED BY <3>1
  <2>10. PICK al \in Texts : al = e.alias
    BY DEF Rule
  <2>11. PICK x1 \in Texts : x1 = x \o a
    BY Joined, Zenon
  <2>12. PICK x2 \in Texts : x2 = x1 \o al
    BY Joined, Zenon
  <2>13. PICK x3 \in Texts : x3 = x2 \o v
    BY Joined, Zenon
  <2>14. PICK x4 \in Texts : x4 = x3 \o b
    BY Joined, Zenon
  <2>15. x4 \o r \in Texts
    BY Joined
  <2> QED BY <1>1, <2>1, <2>3, <2>5, <2>6, <2>7, <2>8, <2>9, <2>10, <2>11, <2>12,
            <2>13, <2>14, <2>15, Zenon DEF RewriteStep
<1>2. CASE Spans(line, e.parts, from) = {}
  <2>1. SubSeq(line, from, Len(line)) \in Texts
    BY <1>0, Suffix, Zenon
  <2> QED BY <1>2, <2>1 DEF RewriteStep
<1> QED BY <1>1, <1>2

LEMMA RewrittenIsAText ==
  ASSUME DelimitersLeft, NEW line \in Texts, NEW e, Rule(e)
  PROVE  Rewritten(line, e) \in Texts
<1> DEFINE D == Places(line)
           G == [x \in D \X [D -> Texts] |-> RewriteStep(line, e, x[1], x[2])]
           IsIt(h) == h = [from \in 1..Len(line) + 1 |-> RewriteStep(line, e, from, h)]
           f == CHOOSE h : IsIt(h)
<1>1. G \in [D \X [D -> Texts] -> Texts]
  <2>1. ASSUME NEW t \in D, NEW h \in [D -> Texts] PROVE RewriteStep(line, e, t, h) \in Texts
    BY RewriteStepIsAText
  <2> HIDE DEF D
  <2> QED BY <2>1
<1>2. \A t \in D : \A h \in [D -> Texts] : G[<<t, h>>] = RewriteStep(line, e, t, h)
  OBVIOUS
<1>3. Local(G, Ahead(line), D, Texts)
  <2> SUFFICES ASSUME NEW t \in D, NEW g \in [D -> Texts], NEW h \in [D -> Texts],
                      \A u \in D : Ahead(line)[u] < Ahead(line)[t] => g[u] = h[u]
               PROVE  G[<<t, g>>] = G[<<t, h>>]
    BY Zenon DEF Local
  <2>1. \A u \in Places(line) : u > t => g[u] = h[u]
    BY AheadIs
  <2>2. RewriteStep(line, e, t, g) = RewriteStep(line, e, t, h)
    BY <2>1, RewriteStepIsLocal
  <2> HIDE DEF G
  <2> QED BY <1>2, <2>2
<1>4. << >> \in Texts
  BY Nothing
<1>5. PICK h \in [D -> Texts] : Ruled(h, D, G)
  <2>1. Ahead(line) \in [D -> Nat]
    BY AheadIs
  <2> HIDE DEF G, D
  <2> QED BY <1>1, <1>3, <1>4, <2>1, RecursionExists, Zenon
<1>6. \A t \in D : h[t] = RewriteStep(line, e, t, h)
  <2> HIDE DEF G
  <2> QED BY <1>2, <1>5, Zenon DEF Ruled
<1>7. IsIt(h)
  BY <1>5, <1>6 DEF Places
<1>8. IsIt(f)
  BY <1>7, Zenon
<1>9. f[1] = Rewritten(line, e)
  BY DEF Rewritten, RewriteStep, FirstSpan, Led
<1> HIDE DEF f
<1>10. \A t \in D : f[t] = RewriteStep(line, e, t, f)
  BY <1>8 DEF Places
<1>11. PICK k : k = f
  OBVIOUS
<1>12. \A t \in D : k[t] = RewriteStep(line, e, t, k)
  BY <1>10, <1>11
<1> HIDE DEF G, IsIt
<1>13. \A t \in D : k[t] = h[t]
  <2> DEFINE P == {t \in D : k[t] = h[t]}
  <2>1. ASSUME NEW t \in D, \A u \in D : Ahead(line)[u] < Ahead(line)[t] => u \in P PROVE t \in P
    <3>1. \A u \in Places(line) : u > t => k[u] = h[u]
      BY <2>1, AheadIs
    <3>2. RewriteStep(line, e, t, k) = RewriteStep(line, e, t, h)
      BY <3>1, RewriteStepIsLocal
    <3> QED BY <1>6, <1>12, <3>2
  <2>2. Ahead(line) \in [D -> Nat]
    BY AheadIs
  <2>3. \A t \in D : t \in P
    <3> HIDE DEF P, D
    <3> QED BY <2>1, <2>2, SmallerFirst
  <2> QED BY <2>3
<1>14. 1 \in D
  BY AheadIs DEF Places
<1> QED BY <1>5, <1>9, <1>11, <1>13, <1>14

LEMMA SplitIsNotEmpty ==
  ASSUME NEW s \in Symbols, NEW t \in Texts
  PROVE  Split(t, s) # << >>
<1>1. CASE Holds(t, <<s>>)
  <2>1. Before(t, s) \in Texts /\ After(t, s) \in Texts
    BY Cut, Zenon
  <2>2. Split(After(t, s), s) \in Lists
    BY <2>1, SplitLaws, Zenon
  <2>3. <<Before(t, s)>> \o Split(After(t, s), s) # << >>
    BY <2>1, <2>2, ListJoin
  <2> QED BY <1>1, <2>3, SplitLaws, Zenon
<1>2. CASE ~Holds(t, <<s>>)
  <2>1. Split(t, s) = <<t>>
    BY <1>2, SplitLaws, Zenon
  <2> QED BY <2>1
<1> QED BY <1>1, <1>2

LEMMA RewriteLinesIsAText ==
  ASSUME DelimitersLeft, current \in Texts, NEW e, Rule(e)
  PROVE  RewriteLines(e) \in Texts
<1>1. PICK lines \in Lists : lines = Split(current, Newline)
  BY NewlineIsASymbol, SplitLaws, Zenon
<1>2. lines # << >>
  BY <1>1, NewlineIsASymbol, SplitIsNotEmpty
<1>3. Len(lines) \in Nat \ {0} /\ DOMAIN lines = 1..Len(lines) /\ \A l \in DOMAIN lines : lines[l] \in Texts
  BY <1>2, SMTT(30) DEF Lists
<1>4. PICK n \in Nat : n = Len(lines) /\ n # 0 /\ n - 1 \in Nat
  BY <1>3, Predecessor, Zenon
<1>5. PICK q : q = [l \in DOMAIN lines |-> Rewritten(lines[l], e)]
  BY Zenon
<1>6. \A l \in 1..n : Rewritten(lines[l], e) \in Texts
  BY <1>3, <1>4, RewrittenIsAText
<1>7. q \in [1..n -> Texts]
  BY <1>3, <1>4, <1>5, <1>6
<1>8. q \in Seq(Texts) /\ Len(q) = n
  BY <1>7, ASequence
<1>9. 1 \in 1..n /\ q # << >>
  BY <1>4, <1>8
<1>10. Head(q) \in Texts
  BY <1>8, <1>9
<1>11. PICK r : r = [i \in 1..Len(q) - 1 |-> <<Newline>> \o q[i + 1]]
  BY Zenon
<1>12. \A i \in 1..n - 1 : <<Newline>> \o q[i + 1] \in Texts
  <2>1. ASSUME NEW i \in 1..n - 1 PROVE <<Newline>> \o q[i + 1] \in Texts
    <3>1. i + 1 \in 1..n
      BY <1>4
    <3>2. q[i + 1] \in Texts
      BY <1>7, <3>1
    <3> QED BY <3>2, NewlineIsASymbol, OneBefore
  <2> QED BY <2>1
<1>13. r \in [1..n - 1 -> Texts]
  BY <1>8, <1>11, <1>12
<1>14. r \in Lists
  BY <1>4, <1>13, ASequence DEF Lists
<1>15. FlattenSeq(r) \in Texts
  BY <1>14, Nothing, FlatLaws, Zenon
<1>16. Join(q, Newline) \in Texts
  <2>1. Head(q) \o FlattenSeq(r) \in Texts
    BY <1>10, <1>15, Joined
  <2> QED BY <1>11, <2>1 DEF Join
<1> QED BY <1>1, <1>5, <1>16 DEF RewriteLines

-----------------------------------------------------------------------------
(* legend.rs: expanding the aliases that were applied undoes the            *)
(* substitutions. *)

Row == [alias : Texts, phrase : Texts]
Rows == Seq(Row)
ExpandRow(t, e, U) == IF Holds(U, e.alias) THEN Replace(t, e.alias, e.phrase) ELSE t
RowsBy(f, t, es, U) ==
  /\ f \in [0..Len(es) -> Texts] /\ f[0] = t
  /\ \A n \in 1..Len(es) : f[n] = ExpandRow(f[n - 1], At(es, n), U)

LEMMA RowsAre ==
  ASSUME NEW es \in Rows
  PROVE  /\ Len(es) \in Nat /\ DOMAIN es = 1..Len(es)
         /\ \A n \in 1..Len(es) : /\ es[n] \in Row /\ es[n].alias \in Texts /\ es[n].phrase \in Texts
                                  /\ At(es, n) \in Row
<1>1. Len(es) \in Nat /\ DOMAIN es = 1..Len(es) /\ \A n \in 1..Len(es) : es[n] \in Row
  BY DEF Rows
<1>2. \A n \in 1..Len(es) : Len(es) + 1 - n \in 1..Len(es)
  BY <1>1
<1>3. \A e \in Row : e.alias \in Texts /\ e.phrase \in Texts
  BY DEF Row
<1> QED BY <1>1, <1>2, <1>3 DEF At

LEMMA RowSteps ==
  ASSUME NEW t \in Texts, NEW es \in Rows, NEW U
  PROVE  \E f : RowsBy(f, t, es, U) /\ f[Len(es)] = ExpandLegend(t, es, U)
<1> DEFINE hi == Len(es)
           G == [x \in (1..hi) \X Texts |-> ExpandRow(x[2], At(es, x[1]), U)]
           IsIt(h) == h = [n \in 0..Len(es) |-> IF n = 0 THEN t ELSE ExpandRow(h[n - 1], At(es, n), U)]
           f == CHOOSE h : IsIt(h)
<1>1. hi \in Nat /\ \A n \in 1..hi : At(es, n).alias \in Texts /\ At(es, n).phrase \in Texts
  <2>1. \A e \in Row : e.alias \in Texts /\ e.phrase \in Texts
    BY DEF Row
  <2> QED BY <2>1, RowsAre
<1> HIDE DEF hi
<1>2. \A n \in 1..hi : \A u \in Texts : ExpandRow(u, At(es, n), U) \in Texts
  <2>1. \A n \in 1..hi : \A u \in Texts : Replace(u, At(es, n).alias, At(es, n).phrase) \in Texts
    BY <1>1, ReplaceLaws, Zenon
  <2> QED BY <2>1 DEF ExpandRow
<1>3. G \in [(1..hi) \X Texts -> Texts]
  BY <1>2
<1>4. \A n \in 1..hi : \A u \in Texts : G[<<n, u>>] = ExpandRow(u, At(es, n), U)
  OBVIOUS
<1>5. PICK h \in [0..hi -> Texts] : h[0] = t /\ \A n \in 1..hi : h[n] = G[<<n, h[n - 1]>>]
  <2> HIDE DEF G
  <2>1. PICK h \in StepRuns(hi, Texts) : StepsBy(h, hi, t, G)
    BY <1>1, <1>3, StepsExist, Zenon DEF StepRules
  <2> QED BY <2>1, Zenon DEF StepRuns, StepsBy
<1>6. \A n \in 1..hi : n - 1 \in 0..hi
  BY <1>1
<1>7. \A n \in 1..hi : h[n] = ExpandRow(h[n - 1], At(es, n), U)
  <2> HIDE DEF G
  <2> QED BY <1>4, <1>5, <1>6, Zenon
<1>8. IsIt(h)
  <2>1. \A n \in 0..hi : h[n] = IF n = 0 THEN t ELSE ExpandRow(h[n - 1], At(es, n), U)
    <3>1. \A n \in 0..hi : n # 0 => n \in 1..hi
      BY <1>1
    <3> QED BY <1>5, <1>7, <3>1
  <2> QED BY <1>5, <2>1 DEF hi
<1>9. IsIt(f)
  BY <1>8
<1>10. f[Len(es)] = ExpandLegend(t, es, U)
  BY DEF ExpandLegend, ExpandRow, At
<1>11. PICK k : k = f
  OBVIOUS
<1>12. k = [n \in 0..hi |-> IF n = 0 THEN t ELSE ExpandRow(k[n - 1], At(es, n), U)]
  BY <1>9, <1>11, Zenon DEF hi
<1> HIDE DEF f, IsIt, G
<1>13. k[0] = h[0] /\ \A n \in 1..hi : k[n - 1] = h[n - 1] => k[n] = h[n]
  <2>1. \A n \in 0..hi : k[n] = IF n = 0 THEN t ELSE ExpandRow(k[n - 1], At(es, n), U)
    BY <1>12, Zenon
  <2>2. 0 \in 0..hi /\ \A n \in 1..hi : n \in 0..hi /\ n # 0
    BY <1>1
  <2> QED BY <1>5, <1>7, <2>1, <2>2
<1>14. k[hi] = h[hi]
  BY <1>1, <1>13, SameSteps, Zenon
<1> QED BY <1>5, <1>7, <1>10, <1>11, <1>14 DEF RowsBy, hi

(* Only which aliases were applied matters.                                 *)
LEMMA SameAliases ==
  ASSUME NEW t \in Texts, NEW es \in Rows, NEW U, NEW W,
         \A n \in 1..Len(es) : Holds(U, es[n].alias) <=> Holds(W, es[n].alias)
  PROVE  ExpandLegend(t, es, U) = ExpandLegend(t, es, W)
<1>1. PICK f : RowsBy(f, t, es, U) /\ f[Len(es)] = ExpandLegend(t, es, U)
  BY RowSteps
<1>2. PICK g : RowsBy(g, t, es, W) /\ g[Len(es)] = ExpandLegend(t, es, W)
  BY RowSteps
<1>3. Len(es) \in Nat
  BY RowsAre
<1>4. \A n \in 1..Len(es) : Holds(U, At(es, n).alias) <=> Holds(W, At(es, n).alias)
  <2>1. \A n \in 1..Len(es) : Len(es) + 1 - n \in 1..Len(es)
    BY <1>3
  <2> QED BY <2>1 DEF At
<1>5. f[0] = g[0] /\ \A n \in 1..Len(es) : f[n - 1] = g[n - 1] => f[n] = g[n]
  BY <1>1, <1>2, <1>4 DEF RowsBy, ExpandRow
<1>6. f[Len(es)] = g[Len(es)]
  BY <1>3, <1>5, SameSteps, Zenon
<1> QED BY <1>1, <1>2, <1>6

(* The last entry is expanded first.                                        *)
LEMMA LastRowFirst ==
  ASSUME NEW t \in Texts, NEW es \in Rows, NEW e \in Row, NEW U
  PROVE  /\ ExpandLegend(t, << >>, U) = t
         /\ Append(es, e) \in Rows /\ ExpandRow(t, e, U) \in Texts
         /\ ExpandLegend(t, Append(es, e), U) = ExpandLegend(ExpandRow(t, e, U), es, U)
<1>1. ExpandLegend(t, << >>, U) = t
  <2>0. << >> \in Rows /\ Len(<< >>) = 0
    BY DEF Rows
  <2>1. PICK none \in Rows : none = << >> /\ Len(none) = 0
    BY <2>0
  <2>2. PICK f : RowsBy(f, t, none, U) /\ f[Len(none)] = ExpandLegend(t, none, U)
    BY RowSteps
  <2> QED BY <2>1, <2>2 DEF RowsBy
<1>2. PICK more \in Rows : more = Append(es, e)
  <2>1. Append(es, e) \in Rows
    BY DEF Rows
  <2> QED BY <2>1, Zenon
<1>3. /\ Len(es) \in Nat /\ Len(more) = Len(es) + 1 /\ more[Len(es) + 1] = e
      /\ \A i \in 1..Len(es) : more[i] = es[i]
  BY <1>2 DEF Rows
<1>4. PICK u \in Texts : u = ExpandRow(t, e, U)
  <2>1. e.alias \in Texts /\ e.phrase \in Texts
    BY DEF Row
  <2>2. Replace(t, e.alias, e.phrase) \in Texts
    BY <2>1, ReplaceLaws, Zenon
  <2> QED BY <2>2 DEF ExpandRow
<1>5. PICK f : RowsBy(f, t, more, U) /\ f[Len(more)] = ExpandLegend(t, more, U)
  BY RowSteps
<1>6. PICK g : RowsBy(g, u, es, U) /\ g[Len(es)] = ExpandLegend(u, es, U)
  BY RowSteps
<1>7. PICK k : k = [n \in 0..Len(es) |-> f[n + 1]]
  BY Zenon
<1>8. k[0] = g[0]
  <2>1. 0 \in 0..Len(es) /\ k[0] = f[1] /\ 1 \in 1..Len(more)
    BY <1>3, <1>7
  <2>2. At(more, 1) = e
    BY <1>3 DEF At
  <2>3. f[1] = ExpandRow(f[1 - 1], At(more, 1), U) /\ f[0] = t
    BY <1>5, <2>1 DEF RowsBy
  <2>4. f[1] = u
    BY <1>4, <2>2, <2>3
  <2> QED BY <1>6, <2>1, <2>4 DEF RowsBy
<1>9. ASSUME NEW n \in 1..Len(es), k[n - 1] = g[n - 1] PROVE k[n] = g[n]
  <2>1. n \in 0..Len(es) /\ n - 1 \in 0..Len(es) /\ (n - 1) + 1 = n /\ (n + 1) - 1 = n /\ n + 1 \in 1..Len(more)
    BY <1>3
  <2>2. k[n] = f[n + 1] /\ k[n - 1] = f[n]
    BY <1>7, <2>1
  <2>3. f[n + 1] = ExpandRow(f[n], At(more, n + 1), U)
    BY <1>5, <2>1 DEF RowsBy
  <2>4. At(more, n + 1) = At(es, n)
    <3>1. Len(more) + 1 - (n + 1) = Len(es) + 1 - n /\ Len(es) + 1 - n \in 1..Len(es)
      BY <1>3
    <3> QED BY <1>3, <3>1 DEF At
  <2>5. g[n] = ExpandRow(g[n - 1], At(es, n), U)
    BY <1>6 DEF RowsBy
  <2> QED BY <1>9, <2>2, <2>3, <2>4, <2>5, Zenon
<1>10. k[Len(es)] = g[Len(es)]
  BY <1>3, <1>8, <1>9, SameSteps
<1>11. k[Len(es)] = f[Len(more)]
  <2>1. Len(es) \in 0..Len(es)
    BY <1>3
  <2> QED BY <1>3, <1>7, <2>1
<1> QED BY <1>1, <1>2, <1>4, <1>5, <1>6, <1>10, <1>11

(* What can be told from the aliases that legend.rs joins into one list.    *)
Apart(t, a) ==
  /\ Len(t) \in {1, 2} /\ Len(a) \in {1, 2}
  /\ t # a => (Len(t) = 1 => t[1] # a[1]) /\ (Len(a) = 1 => a[1] # t[1])
  /\ Len(t) = 2 => t[2] # a[1]

LEMMA HandedOutAre ==
  ASSUME NEW es \in Rows, HandedOut(es), NEW i \in 1..Len(es), NEW j \in 1..Len(es)
  PROVE  /\ Apart(es[i].alias, es[j].alias) /\ Marker(es[i].alias) /\ es[i].alias # << >>
         /\ i # j => es[i].alias # es[j].alias
<1>1. i \in DOMAIN es /\ j \in DOMAIN es /\ es[i].alias \in Texts /\ es[j].alias \in Texts
  BY RowsAre
<1>2. PICK a \in Texts : a = es[i].alias
  BY <1>1
<1>3. PICK b \in Texts : b = es[j].alias
  BY <1>1
<1>4. /\ Len(a) \in {1, 2} /\ Len(b) \in {1, 2}
      /\ i # j => a # b
      /\ Len(a) = 1 /\ i # j => a[1] # b[1]
      /\ Len(b) = 1 /\ i # j => b[1] # a[1]
      /\ Len(a) = 2 => a[2] # b[1]
      /\ Len(a) = 2 => a[2] # a[1]
  BY <1>1, <1>2, <1>3 DEF HandedOut
<1>5. Apart(a, b)
  BY <1>2, <1>3, <1>4 DEF Apart
<1>6. Marker(a) /\ a # << >>
  BY <1>4 DEF Marker
<1> QED BY <1>2, <1>3, <1>4, <1>5, <1>6

LEMMA HeldInFirst ==
  ASSUME NEW t \in Texts, NEW a \in Texts, Apart(t, a), NEW u \in Texts
  PROVE  Holds(t \o u, a) <=> t = a \/ Holds(u, a)
<1>1. PICK z \in Texts : z = t \o u
  BY Joined, Zenon
<1>2. /\ Len(z) = Len(t) + Len(u) /\ Len(t) \in Nat /\ Len(u) \in Nat
      /\ \A i \in 1..Len(t) : z[i] = t[i]
      /\ \A i \in 1..Len(u) : z[Len(t) + i] = u[i]
  BY <1>1, Joined
<1>3. ASSUME t = a PROVE Holds(z, a)
  <2>1. OccursAt(a \o u, a, 1)
    BY JoinStarts
  <2>2. OccursAt(z, a, 1)
    BY <1>1, <1>3, <2>1
  <2>3. 1 \in 1..Len(z)
    BY <1>2 DEF Apart
  <2> QED BY <2>2, <2>3 DEF Holds
<1>4. ASSUME Holds(u, a) PROVE Holds(z, a)
  <2>1. Holds(t \o u, a)
    BY <1>4, HoldsInSuffix
  <2> QED BY <1>1, <2>1
<1>5. ASSUME Holds(z, a), t # a PROVE Holds(u, a)
  <2>1. PICK i \in 1..Len(z) : OccursAt(z, a, i)
    BY <1>5 DEF Holds
  <2>2. i + Len(a) - 1 <= Len(z) /\ \A k \in 1..Len(a) : z[i + k - 1] = a[k]
    BY <2>1 DEF OccursAt
  <2>3. Len(a) \in {1, 2} /\ Len(t) \in {1, 2}
    BY DEF Apart
  <2>4. z[i] = a[1]
    <3>1. 1 \in 1..Len(a)
      <4>1. PICK k \in Nat : k = Len(a)
        BY <2>3, Zenon
      <4>2. k = 1 \/ k = 2
        BY <2>3, <4>1
      <4>3. 1 \in 1..k
        BY <4>2
      <4> QED BY <4>1, <4>3
    <3>2. i + 1 - 1 = i
      OBVIOUS
    <3> QED BY <2>2, <3>1, <3>2
  <2>5. CASE i = 1
    <3>1. z[1] = t[1]
      BY <1>2, <2>3
    <3>2. t[1] = a[1]
      BY <2>4, <2>5, <3>1
    <3>3. Len(t) = 2 /\ Len(a) = 2
      BY <1>5, <2>3, <3>2 DEF Apart
    <3>4. z[2] = a[2]
      <4>1. 2 \in 1..Len(a) /\ i + 2 - 1 = 2
        BY <2>5, <3>3
      <4> QED BY <2>2, <4>1
    <3>5. z[2] = t[2]
      BY <1>2, <3>3
    <3>6. t = a
      <4>1. \A k \in 1..Len(a) : t[k] = a[k]
        <5>1. \A k \in 1..Len(a) : k = 1 \/ k = 2
          BY <3>3
        <5> QED BY <3>2, <3>4, <3>5, <5>1, Zenon
      <4> QED BY <3>3, <4>1, SameText
    <3> QED BY <1>5, <3>6
  <2>6. CASE i = 2 /\ Len(t) = 2
    <3>1. z[2] = t[2]
      BY <1>2, <2>6
    <3> QED BY <2>4, <2>6, <3>1 DEF Apart
  <2>7. CASE i > Len(t)
    <3>0. i - Len(t) \in Nat
      BY <1>2, <2>7
    <3>1. PICK j \in Nat : j = i - Len(t)
      BY <3>0
    <3>2. i = Len(t) + j /\ j \in 1..Len(u) /\ j + Len(a) - 1 <= Len(u)
      BY <1>2, <2>2, <2>3, <2>7, <3>1
    <3>3. ASSUME NEW k \in 1..Len(a) PROVE u[j + k - 1] = a[k]
      <4>1. j + k - 1 \in 1..Len(u) /\ Len(t) + (j + k - 1) = i + k - 1
        BY <1>2, <2>3, <3>2
      <4>2. z[Len(t) + (j + k - 1)] = u[j + k - 1]
        BY <1>2, <4>1, Zenon
      <4> QED BY <2>2, <4>1, <4>2, Zenon
    <3>4. OccursAt(u, a, j)
      BY <3>2, <3>3 DEF OccursAt
    <3> QED BY <3>2, <3>4 DEF Holds
  <2>8. i = 1 \/ (i = 2 /\ Len(t) = 2) \/ i > Len(t)
    BY <1>2, <2>3
  <2> QED BY <2>5, <2>6, <2>7, <2>8
<1> QED BY <1>1, <1>3, <1>4, <1>5

AliasesOf(es) == {es[k].alias : k \in 1..Len(es)}
LEMMA UsedAreHeld ==
  ASSUME NEW es \in Rows, HandedOut(es), NEW a \in AliasesOf(es), NEW q0 \in Lists,
         \A i \in 1..Len(q0) : q0[i] \in AliasesOf(es)
  PROVE  Holds(FlattenSeq(q0), a) <=> \E i \in 1..Len(q0) : q0[i] = a
<1> DEFINE P == {q \in Lists : (\A i \in 1..Len(q) : q[i] \in AliasesOf(es)) =>
                                 (Holds(FlattenSeq(q), a) <=> \E i \in 1..Len(q) : q[i] = a)}
<1>1. << >> \in P
  <2>1. << >> \in Lists /\ Len(<< >>) = 0 /\ 1..0 = {}
    BY DEF Lists
  <2>2. FlattenSeq(<< >>) = << >>
    BY Nothing, <2>1, FlatLaws, Zenon
  <2>3. ~Holds(<< >>, a)
    BY <2>1 DEF Holds
  <2> QED BY <2>1, <2>2, <2>3
<1>2. ASSUME NEW t \in Texts, NEW q \in Lists, q \in P PROVE <<t>> \o q \in P
  <2>1. PICK r \in Lists : r = <<t>> \o q
    BY ListJoin, Zenon
  <2>2. Len(r) = Len(q) + 1 /\ Len(q) \in Nat /\ r[1] = t /\ \A i \in 1..Len(q) : r[i + 1] = q[i]
    BY <2>1, ListJoin
  <2>3. ASSUME \A i \in 1..Len(r) : r[i] \in AliasesOf(es)
        PROVE  Holds(FlattenSeq(r), a) <=> \E i \in 1..Len(r) : r[i] = a
    <3>1. t \in AliasesOf(es)
      <4>1. 1 \in 1..Len(r)
        BY <2>2
      <4> QED BY <2>2, <2>3, <4>1
    <3>2. \A i \in 1..Len(q) : i + 1 \in 1..Len(r)
      BY <2>2
    <3>3. \A i \in 1..Len(q) : q[i] \in AliasesOf(es)
      BY <2>2, <2>3, <3>2
    <3>4. PICK u \in Texts : u = FlattenSeq(q)
      BY FlatLaws, Zenon
    <3>5. FlattenSeq(r) = t \o u
      BY <2>1, <3>4, FlatLaws, Zenon
    <3>6. Apart(t, a) /\ a \in Texts
      <4>1. PICK k \in 1..Len(es) : t = es[k].alias
        BY <3>1 DEF AliasesOf
      <4>2. PICK l \in 1..Len(es) : a = es[l].alias
        BY DEF AliasesOf
      <4>3. Apart(es[k].alias, es[l].alias)
        BY HandedOutAre
      <4> QED BY <4>1, <4>2, <4>3, RowsAre
    <3>7. Holds(t \o u, a) <=> t = a \/ Holds(u, a)
      BY <3>6, HeldInFirst
    <3>8. Holds(u, a) <=> \E i \in 1..Len(q) : q[i] = a
      BY <1>2, <3>3, <3>4
    <3>9. (\E i \in 1..Len(r) : r[i] = a) <=> t = a \/ \E i \in 1..Len(q) : q[i] = a
      <4>1. \A i \in 1..Len(r) : i = 1 \/ (i - 1 \in 1..Len(q) /\ (i - 1) + 1 = i)
        BY <2>2
      <4>2. 1 \in 1..Len(r)
        BY <2>2
      <4>3. \A i \in 1..Len(r) : i = 1 \/ r[i] = q[i - 1]
        BY <2>2, <4>1
      <4>4. ASSUME NEW i \in 1..Len(r), r[i] = a PROVE t = a \/ \E j \in 1..Len(q) : q[j] = a
        <5>1. CASE i = 1
          BY <2>2, <4>4, <5>1
        <5>2. CASE i # 1
          <6>1. i - 1 \in 1..Len(q)
            BY <4>1, <5>2
          <6>2. r[i] = q[i - 1]
            BY <4>3, <5>2
          <6> QED BY <4>4, <6>1, <6>2
        <5> QED BY <5>1, <5>2
      <4>5. ASSUME NEW j \in 1..Len(q), q[j] = a PROVE \E i \in 1..Len(r) : r[i] = a
        <5>1. j + 1 \in 1..Len(r)
          BY <3>2
        <5>2. r[j + 1] = a
          BY <2>2, <4>5
        <5> QED BY <5>1, <5>2
      <4>6. ASSUME t = a PROVE \E i \in 1..Len(r) : r[i] = a
        BY <2>2, <4>2, <4>6
      <4> HIDE DEF P
      <4> QED BY <4>4, <4>5, <4>6
    <3> QED BY <3>5, <3>7, <3>8, <3>9
  <2> QED BY <2>1, <2>3, Zenon
<1>3. \A q \in Lists : q \in P
  <2> HIDE DEF P
  <2> QED BY <1>1, <1>2, ListInduction
<1> QED BY <1>3

(* Before the nth entry of a legend: what was applied is of earlier         *)
(* entries, and undoing it gives the text that was read.                    *)
LegendAt(es, n, t, q, read) ==
  /\ n \in 1..Len(es) + 1 /\ t \in Texts /\ q \in Lists
  /\ \A i \in 1..Len(q) : \E k \in 1..n - 1 : q[i] = es[k].alias
  /\ ExpandLegend(t, SubSeq(es, 1, n - 1), FlattenSeq(q)) = read

LEMMA LegendAtFirst ==
  ASSUME NEW es \in Rows, NEW t \in Texts
  PROVE  LegendAt(es, 1, t, << >>, t)
<1>1. << >> \in Lists /\ Len(<< >>) = 0 /\ 1..0 = {} /\ 1 - 1 = 0
  BY DEF Lists
<1>2. SubSeq(es, 1, 0) = << >>
  <2>1. 0 < 1
    OBVIOUS
  <2> QED BY <2>1, SubSeqEmpty
<1>3. ExpandLegend(t, << >>, FlattenSeq(<< >>)) = t
  <2>1. PICK none \in Rows : none = << >>
    <3>1. << >> \in Rows
      BY DEF Rows
    <3> QED BY <3>1
  <2>2. PICK e : e = [alias |-> << >>, phrase |-> << >>]
    BY Zenon
  <2>3. e \in Row
    BY <2>2, Nothing DEF Row
  <2> QED BY <2>1, <2>3, LastRowFirst
<1>4. Len(es) \in Nat
  BY RowsAre
<1>5. 1 \in 1..Len(es) + 1
  BY <1>4
<1> QED BY <1>1, <1>2, <1>3, <1>5, Zenon DEF LegendAt

LEMMA PrefixRows ==
  ASSUME NEW es \in Rows, NEW n \in 1..Len(es)
  PROVE  /\ SubSeq(es, 1, n - 1) \in Rows /\ Len(SubSeq(es, 1, n - 1)) = n - 1
         /\ \A i \in 1..n - 1 : SubSeq(es, 1, n - 1)[i] = es[i]
         /\ SubSeq(es, 1, n) = Append(SubSeq(es, 1, n - 1), es[n])
<1>1. Len(es) \in Nat /\ n \in Nat /\ es \in Seq(Row)
  BY RowsAre DEF Rows
<1>2. n - 1 \in Int /\ 1 \in Int /\ \A i \in 1..n - 1 : i \in 1..Len(es)
  BY <1>1
<1>3. \A i \in 1..n - 1 : es[i] \in Row
  BY <1>1, <1>2
<1>4. /\ SubSeq(es, 1, n - 1) \in Seq(Row)
      /\ Len(SubSeq(es, 1, n - 1)) = IF 1 <= n - 1 THEN (n - 1) - 1 + 1 ELSE 0
      /\ \A i \in 1..(n - 1) - 1 + 1 : SubSeq(es, 1, n - 1)[i] = es[1 + i - 1]
  BY <1>2, <1>3, SubSeqProperties
<1>5. Len(SubSeq(es, 1, n - 1)) = n - 1 /\ \A i \in 1..n - 1 : SubSeq(es, 1, n - 1)[i] = es[i]
  BY <1>1, <1>4
<1>6. SubSeq(es, 1, n) = Append(SubSeq(es, 1, n - 1), es[n])
  <2>1. 1 \in 1..Len(es) /\ n \in 1..Len(es)
    BY <1>1
  <2>2. SubSeq(es, 1, n) = SubSeq(es, 1, n - 1) \o <<es[n]>>
    <3>1. 1 \in 1..Len(es)
      BY <2>1
    <3>2. n \in 1..Len(es)
      OBVIOUS
    <3> QED BY <1>1, <3>1, <3>2, SubSeqRecursiveSecond
  <2>3. SubSeq(es, 1, n - 1) \o <<es[n]>> = Append(SubSeq(es, 1, n - 1), es[n])
    <3>1. PICK y : y = SubSeq(es, 1, n - 1)
      BY Zenon
    <3>2. y \in Seq(Row) /\ es[n] \in Row
      BY <1>1, <1>4, <3>1
    <3>3. y \o <<es[n]>> = Append(y, es[n])
      BY <3>2
    <3> QED BY <3>1, <3>3
  <2> QED BY <2>2, <2>3
<1> QED BY <1>4, <1>5, <1>6 DEF Rows

LEMMA LegendNext ==
  ASSUME NEW es \in Rows, HandedOut(es), NEW n \in 1..Len(es), NEW t, NEW q, NEW read,
         LegendAt(es, n, t, q, read), es[n].phrase # << >>
  PROVE  /\ LegendAt(es, n + 1, t, q, read)
         /\ ~Holds(t, es[n].alias) =>
              LegendAt(es, n + 1, Replace(t, es[n].phrase, es[n].alias), Append(q, es[n].alias), read)
<1>1. /\ n \in Nat /\ Len(es) \in Nat /\ (n + 1) - 1 = n /\ n + 1 \in 1..Len(es) + 1
      /\ \A k \in 1..n - 1 : k \in 1..n /\ k \in 1..Len(es) /\ k # n
      /\ n \in 1..n
  <2>1. Len(es) \in Nat
    BY RowsAre
  <2> QED BY <2>1
<1>2. PICK front \in Rows : front = SubSeq(es, 1, n - 1)
  BY PrefixRows, Zenon
<1>3. /\ Len(front) = n - 1 /\ \A k \in 1..n - 1 : front[k] = es[k]
      /\ SubSeq(es, 1, n) = Append(front, es[n])
  BY <1>2, PrefixRows
<1>4. PICK e \in Row : e = es[n]
  BY RowsAre
<1>5. e.alias \in Texts /\ e.phrase \in Texts /\ Marker(e.alias)
  BY <1>4, RowsAre, HandedOutAre
<1>6. /\ t \in Texts /\ q \in Lists
      /\ \A i \in 1..Len(q) : \E k \in 1..n - 1 : q[i] = es[k].alias
      /\ ExpandLegend(t, front, FlattenSeq(q)) = read
  BY <1>2 DEF LegendAt
<1>7. \A i \in 1..Len(q) : q[i] \in AliasesOf(es)
  BY <1>1, <1>6 DEF AliasesOf
<1>8. e.alias \in AliasesOf(es)
  BY <1>4 DEF AliasesOf
<1>9. \A k \in 1..n - 1 : es[k].alias # e.alias
  <2>1. \A k \in 1..n - 1 : k \in 1..Len(es) /\ k # n
    BY <1>1
  <2> QED BY <1>4, <2>1, HandedOutAre
<1>10. ~Holds(FlattenSeq(q), e.alias)
  <2>1. \A i \in 1..Len(q) : q[i] # e.alias
    BY <1>6, <1>9
  <2> QED BY <1>6, <1>7, <1>8, <2>1, UsedAreHeld
<1>11. LegendAt(es, n + 1, t, q, read)
  <2>1. ExpandRow(t, e, FlattenSeq(q)) = t
    BY <1>10 DEF ExpandRow
  <2>2. ExpandLegend(t, Append(front, e), FlattenSeq(q)) = read
    BY <1>6, <2>1, LastRowFirst
  <2>3. \A i \in 1..Len(q) : \E k \in 1..n : q[i] = es[k].alias
    BY <1>1, <1>6
  <2> QED BY <1>1, <1>3, <1>4, <1>6, <2>2, <2>3, Zenon DEF LegendAt
<1>12. ASSUME ~Holds(t, e.alias)
       PROVE  LegendAt(es, n + 1, Replace(t, e.phrase, e.alias), Append(q, e.alias), read)
  <2>1. PICK u \in Texts : u = Replace(t, e.phrase, e.alias)
    BY <1>5, <1>6, ReplaceLaws, Zenon
  <2>2. Replace(u, e.alias, e.phrase) = t
    BY <1>4, <1>5, <1>6, <1>12, <2>1, ReplaceInverts
  <2>3. PICK r \in Lists : r = Append(q, e.alias)
    <3>1. q \in Seq(Texts) /\ e.alias \in Texts
      BY <1>5, <1>6 DEF Lists
    <3>2. Append(q, e.alias) \in Lists
      BY <3>1 DEF Lists
    <3> QED BY <3>2, Zenon
  <2>4. Len(r) = Len(q) + 1 /\ Len(q) \in Nat /\ r[Len(q) + 1] = e.alias /\ \A i \in 1..Len(q) : r[i] = q[i]
    BY <1>5, <1>6, <2>3 DEF Lists
  <2>5. \A i \in 1..Len(r) : i \in 1..Len(q) \/ i = Len(q) + 1
    BY <2>4
  <2>6. Len(q) + 1 \in 1..Len(r) /\ \A i \in 1..Len(q) : i \in 1..Len(r)
    BY <2>4
  <2>7. \A i \in 1..Len(r) : r[i] \in AliasesOf(es)
    BY <1>7, <1>8, <2>4, <2>5
  <2>8. Holds(FlattenSeq(r), e.alias)
    BY <1>8, <2>4, <2>6, <2>7, UsedAreHeld, Zenon
  <2>9. \A k \in 1..Len(front) : Holds(FlattenSeq(r), front[k].alias) <=> Holds(FlattenSeq(q), front[k].alias)
    <3>1. ASSUME NEW k \in 1..n - 1
          PROVE  Holds(FlattenSeq(r), es[k].alias) <=> Holds(FlattenSeq(q), es[k].alias)
      <4>1. es[k].alias \in AliasesOf(es)
        BY <1>1 DEF AliasesOf
      <4>2. es[k].alias # e.alias
        BY <1>9
      <4>3. (\E i \in 1..Len(r) : r[i] = es[k].alias) <=> \E i \in 1..Len(q) : q[i] = es[k].alias
        BY <2>4, <2>5, <2>6, <4>2, Zenon
      <4>4. Holds(FlattenSeq(q), es[k].alias) <=> \E i \in 1..Len(q) : q[i] = es[k].alias
        BY <1>6, <1>7, <4>1, UsedAreHeld
      <4>5. Holds(FlattenSeq(r), es[k].alias) <=> \E i \in 1..Len(r) : r[i] = es[k].alias
        BY <2>7, <4>1, UsedAreHeld
      <4> QED BY <4>3, <4>4, <4>5
    <3> QED BY <1>3, <3>1, Zenon
  <2>10. ExpandLegend(t, front, FlattenSeq(r)) = read
    BY <1>6, <2>9, SameAliases
  <2>11. ExpandRow(u, e, FlattenSeq(r)) = t
    BY <2>2, <2>8 DEF ExpandRow
  <2>12. ExpandLegend(u, Append(front, e), FlattenSeq(r)) = read
    BY <2>10, <2>11, LastRowFirst
  <2>13. \A i \in 1..Len(r) : \E k \in 1..n : r[i] = es[k].alias
    BY <1>1, <1>4, <1>6, <2>4, <2>5, ZenonT(60)
  <2> QED BY <1>1, <1>3, <1>4, <2>1, <2>3, <2>12, <2>13, Zenon DEF LegendAt
<1> QED BY <1>4, <1>11, <1>12

-----------------------------------------------------------------------------
(* The states of one encoding. *)

LegendKey(k) == /\ k \in LegendFiles /\ Loadable(k) /\ HandedOut(k.entries)
                /\ \A i \in DOMAIN k.entries : k.entries[i].phrase # << >>
RulesKey(k) == /\ k \in RulesFiles /\ Loadable(k)
               /\ \A i \in DOMAIN k.entries : LET parts == k.entries[i].parts
                                              IN  parts # << >> /\ parts[1] # << >>

LEMMA JobsAre ==
  ASSUME NEW job \in Jobs
  PROVE  job.text \in Texts /\ (job.key = NoKey \/ LegendKey(job.key) \/ RulesKey(job.key))
BY JobsAssumption DEF LegendKey, RulesKey

LEMMA LegendKeyIs ==
  ASSUME NEW k, LegendKey(k)
  PROVE  /\ k.kind = "legend" /\ k.entries \in Rows /\ HandedOut(k.entries)
         /\ k.sum \in Symbols /\ k.sum \notin {Space, Newline, "another"}
         /\ Len(k.entries) \in Nat
         /\ \A i \in 1..Len(k.entries) : k.entries[i].phrase # << >> /\ Plain(k.entries[i].alias)
<1>1. k.kind = "legend" /\ k.entries \in Rows /\ HandedOut(k.entries)
  BY DEF LegendKey, LegendFiles, Rows, Row
<1>2. k.sum \in Symbols /\ k.sum \notin {Space, Newline, "another"}
  BY DEF LegendKey, Loadable
<1>3. DOMAIN k.entries = 1..Len(k.entries) /\ Len(k.entries) \in Nat
  BY <1>1, RowsAre
<1>4. ASSUME NEW i \in 1..Len(k.entries) PROVE k.entries[i].phrase # << >> /\ Plain(k.entries[i].alias)
  <2>1. k.entries[i].alias \in Texts
    BY <1>1, RowsAre
  <2>2. ~Holds(k.entries[i].alias, <<Space>>) /\ ~Holds(k.entries[i].alias, <<Newline>>)
    BY <1>3 DEF LegendKey, Loadable
  <2> QED BY <1>3, <2>1, <2>2 DEF LegendKey, Plain
<1> QED BY <1>1, <1>2, <1>3, <1>4

RuleRow == [alias : Texts, parts : Lists]
LEMMA RulesKeyIs ==
  ASSUME NEW k, RulesKey(k)
  PROVE  /\ k.kind = "rules" /\ Len(k.entries) \in Nat
         /\ k.sum \in Symbols /\ k.sum \notin {Space, Newline, "another"}
         /\ \A i \in 1..Len(k.entries) : Rule(k.entries[i]) /\ Plain(k.entries[i].alias)
<1>1. k.kind = "rules" /\ k.entries \in Seq(RuleRow)
  BY DEF RulesKey, RulesFiles, RuleRow, Lists
<1>2. k.sum \in Symbols /\ k.sum \notin {Space, Newline, "another"}
  BY DEF RulesKey, Loadable
<1>3. DOMAIN k.entries = 1..Len(k.entries) /\ Len(k.entries) \in Nat
  <2>1. PICK q \in Seq(RuleRow) : q = k.entries
    BY <1>1
  <2>2. DOMAIN q = 1..Len(q) /\ Len(q) \in Nat
    OBVIOUS
  <2> QED BY <2>1, <2>2
<1>4. ASSUME NEW i \in 1..Len(k.entries) PROVE Rule(k.entries[i]) /\ Plain(k.entries[i].alias)
  <2>1. k.entries[i] \in RuleRow
    BY <1>1
  <2>2. k.entries[i].alias \in Texts /\ k.entries[i].parts \in Lists
    BY <2>1 DEF RuleRow
  <2>3. ~Holds(k.entries[i].alias, <<Space>>) /\ ~Holds(k.entries[i].alias, <<Newline>>)
    BY <1>3 DEF RulesKey, Loadable
  <2>4. k.entries[i].parts # << >> /\ k.entries[i].parts[1] # << >>
    BY <1>3 DEF RulesKey
  <2> QED BY <2>2, <2>3, <2>4 DEF Rule, Plain
<1> QED BY <1>1, <1>2, <1>3, <1>4

(* What is encoded, and the key: never assigned again.                      *)
TheJob == input \in Texts /\ (key = NoKey \/ LegendKey(key) \/ RulesKey(key))

(* What the key did to the text so far.                                     *)
ThePrepass ==
  /\ current \in Texts /\ used \in Lists /\ entry \in 1..Len(Entries) + 1
  /\ \A i \in 1..Len(used) : Plain(used[i])
  /\ used = << >> => current = input
  /\ key.kind = "none" => used = << >>
  /\ key.kind = "legend" => LegendAt(key.entries, entry, current, used, input)
  /\ key.kind = "rules" /\ used # << >> => DelimitersLeft

(* No key is asked for by the container of a text.                          *)
Unpinned(t) == \A c \in Parse(t) : c.codec \notin {"ext", "rules"}

(* What is handed on by the stages, the miner and the wrappers.             *)
KeyDone == entry = Len(Entries) + 1
MinerHas == /\ staged \in Texts /\ DecodeAll(staged) = DecodeAll(current)
            /\ staged # current => Unpinned(staged)
            /\ Dictionary(staged, legend)
WrapperHas == artifact \in Texts /\ DecodeAll(artifact) = DecodeAll(current) /\ Unpinned(artifact)

(* What is written: the inner artifact, the original, or a wrapper.         *)
Stands == (used = << >> \/ artifact = Raw(input)) /\ DecodeAll(artifact) = DecodeAll(input) /\ Unpinned(artifact)
Pinned(codec, ps, body) ==
  /\ body \in Texts /\ DecodeAll(body) = DecodeAll(current)
  /\ Parse(artifact) = {Container(codec, ps, << >>, body)}
  /\ HasParam(codec, ps, << >>, body, "sum", <<key.sum>>)
  /\ HasParam(codec, ps, << >>, body, "used", FlattenSeq(used))
Wrapped == /\ used # << >>
           /\ \E codec, ps, body : /\ Pinned(codec, ps, body)
                                   /\ codec = IF key.kind = "legend" THEN "ext" ELSE "rules"

EncodeIInv ==
  /\ TheJob
  /\ phase \in Phases
  /\ ThePrepass
  /\ phase \in {"prepass", "refused"} => legend = << >>
  /\ phase \in {"mine", "wrap", "done"} => KeyDone
  /\ phase = "mine" => MinerHas
  /\ phase = "wrap" => WrapperHas
  /\ phase = "done" => Stands \/ Wrapped

LEMMA EntriesAre ==
  ASSUME TheJob
  PROVE  /\ key.kind \in {"none", "legend", "rules"} /\ Len(Entries) \in Nat
         /\ (key = NoKey <=> key.kind = "none")
         /\ key.kind = "none" => Entries = << >>
         /\ key.kind = "legend" => LegendKey(key) /\ Entries = key.entries
         /\ key.kind = "rules" => RulesKey(key) /\ Entries = key.entries
<1>1. NoKey.kind = "none"
  BY DEF NoKey
<1>2. CASE key = NoKey
  <2>1. Entries = << >>
    BY <1>1, <1>2 DEF Entries
  <2>2. Len(Entries) \in Nat
    BY <2>1
  <2> QED BY <1>1, <1>2, <2>1, <2>2
<1>3. CASE LegendKey(key)
  <2>1. key.kind = "legend" /\ Len(key.entries) \in Nat
    BY <1>3, LegendKeyIs
  <2>2. Entries = key.entries
    BY <2>1 DEF Entries
  <2> QED BY <1>1, <1>3, <2>1, <2>2
<1>4. CASE RulesKey(key)
  <2>1. key.kind = "rules" /\ Len(key.entries) \in Nat
    BY <1>4, RulesKeyIs
  <2>2. Entries = key.entries
    BY <2>1 DEF Entries
  <2> QED BY <1>1, <1>4, <2>1, <2>2
<1> QED BY <1>2, <1>3, <1>4 DEF TheJob

LEMMA PrepassAtFirst ==
  ASSUME Init
  PROVE  TheJob /\ ThePrepass /\ legend = << >> /\ phase = "prepass"
<1>1. PICK job \in Jobs : input = job.text /\ key = job.key
  BY DEF Init
<1>2. TheJob
  BY <1>1, JobsAre DEF TheJob
<1>3. entry = 1 /\ current = input /\ used = << >> /\ legend = << >> /\ phase = "prepass"
  BY DEF Init
<1>4. << >> \in Lists /\ Len(<< >>) = 0 /\ 1..0 = {}
  BY DEF Lists
<1>5. 1 \in 1..Len(Entries) + 1
  BY <1>2, EntriesAre
<1>6. ASSUME key.kind = "legend" PROVE LegendAt(key.entries, entry, current, used, input)
  <2>1. key.entries \in Rows
    BY <1>2, <1>6, EntriesAre, LegendKeyIs
  <2>2. LegendAt(key.entries, 1, input, << >>, input)
    BY <1>2, <2>1, LegendAtFirst DEF TheJob
  <2> QED BY <1>3, <2>2
<1>7. ThePrepass
  BY <1>2, <1>3, <1>4, <1>5, <1>6 DEF ThePrepass, TheJob
<1> QED BY <1>2, <1>3, <1>7

(* One entry of the key: the text before it and after it.                   *)
LEMMA OneMoreAlias ==
  ASSUME NEW q \in Lists, \A i \in 1..Len(q) : Plain(q[i]), NEW a, Plain(a)
  PROVE  /\ Append(q, a) \in Lists /\ Append(q, a) # << >>
         /\ \A i \in 1..Len(Append(q, a)) : Plain(Append(q, a)[i])
<1>1. a \in Texts /\ q \in Seq(Texts)
  BY DEF Plain, Lists
<1>2. PICK r : r = Append(q, a)
  BY Zenon
<1>3. /\ r \in Seq(Texts) /\ Len(r) = Len(q) + 1 /\ Len(q) \in Nat
      /\ \A i \in 1..Len(q) : r[i] = q[i]
      /\ r[Len(q) + 1] = a
  BY <1>1, <1>2
<1>4. r # << >>
  BY <1>3
<1>5. \A i \in 1..Len(r) : i \in 1..Len(q) \/ i = Len(q) + 1
  BY <1>3
<1>6. \A i \in 1..Len(r) : Plain(r[i])
  BY <1>3, <1>5
<1> QED BY <1>2, <1>3, <1>4, <1>6 DEF Lists

LEMMA PassOnKeeps ==
  ASSUME TheJob, ThePrepass, AtEntry, PassOn
  PROVE  ThePrepass'
<1>1. /\ entry' = entry + 1 /\ current' = current /\ used' = used /\ key' = key /\ input' = input
      /\ Entries' = Entries /\ entry \in 1..Len(Entries) + 1 /\ entry <= Len(Entries)
  BY DEF PassOn, AtEntry, ThePrepass, Entries
<1>2. Len(Entries) \in Nat
  BY EntriesAre
<1>3. entry \in 1..Len(Entries) /\ entry' \in 1..Len(Entries) + 1
  BY <1>1, <1>2
<1>4. ASSUME key.kind = "legend" PROVE LegendAt(key.entries, entry + 1, current, used, input)
  <2>1. LegendKey(key) /\ Entries = key.entries
    BY <1>4, EntriesAre
  <2>2. /\ key.entries \in Rows /\ HandedOut(key.entries) /\ entry \in 1..Len(key.entries)
        /\ key.entries[entry].phrase # << >>
    BY <1>3, <2>1, LegendKeyIs
  <2>3. LegendAt(key.entries, entry, current, used, input)
    BY <1>4 DEF ThePrepass
  <2> QED BY <2>2, <2>3, LegendNext
<1>5. DelimitersLeft' = DelimitersLeft
  BY <1>1 DEF DelimitersLeft
<1> QED BY <1>1, <1>3, <1>4, <1>5 DEF ThePrepass

LEMMA SubstituteKeeps ==
  ASSUME TheJob, ThePrepass, Substitute
  PROVE  ThePrepass'
<1>1. AtEntry /\ key.kind = "legend"
  BY DEF Substitute
<1>2. LegendKey(key) /\ Entries = key.entries
  BY <1>1, EntriesAre
<1>3. CASE PassOn
  BY <1>1, <1>3, PassOnKeeps
<1>4. CASE /\ Substitutable(Entries[entry])
           /\ Apply(Replace(current, Entries[entry].phrase, Entries[entry].alias), Entries[entry].alias)
  <2>1. PICK e : e = Entries[entry]
    OBVIOUS
  <2>2. PICK after : after = Replace(current, e.phrase, e.alias)
    OBVIOUS
  <2>3. /\ ~Holds(current, e.alias)
        /\ current' = after /\ used' = Append(used, e.alias) /\ entry' = entry + 1
        /\ key' = key /\ input' = input
    BY <1>4, <2>1, <2>2 DEF Apply, Substitutable
  <2>4. Entries' = Entries /\ entry \in 1..Len(Entries) + 1 /\ entry <= Len(Entries) /\ Len(Entries) \in Nat
    BY <1>1, <2>3, EntriesAre DEF ThePrepass, AtEntry, Entries
  <2>5. entry \in 1..Len(Entries) /\ entry' \in 1..Len(Entries) + 1
    BY <2>3, <2>4
  <2>6. /\ key.entries \in Rows /\ HandedOut(key.entries) /\ entry \in 1..Len(key.entries)
        /\ key.entries[entry].phrase # << >> /\ Plain(e.alias)
    BY <1>2, <2>1, <2>5, LegendKeyIs
  <2>7. LegendAt(key.entries, entry, current, used, input)
    BY <1>1 DEF ThePrepass
  <2>8. LegendAt(key.entries, entry + 1, Replace(current, key.entries[entry].phrase, key.entries[entry].alias),
                 Append(used, key.entries[entry].alias), input)
    BY <1>2, <2>1, <2>3, <2>6, <2>7, LegendNext
  <2>9. LegendAt(key'.entries, entry', current', used', input')
    BY <1>2, <2>1, <2>2, <2>3, <2>8
  <2>10. current' \in Texts
    BY <2>9 DEF LegendAt
  <2>11. used' \in Lists /\ used' # << >> /\ \A i \in 1..Len(used') : Plain(used'[i])
    BY <2>3, <2>6, OneMoreAlias, Zenon DEF ThePrepass
  <2>12. key'.kind = "legend"
    BY <1>1, <2>3
  <2> QED BY <2>4, <2>5, <2>9, <2>10, <2>11, <2>12 DEF ThePrepass
<1> QED BY <1>3, <1>4 DEF Substitute

LEMMA ApplyRuleKeeps ==
  ASSUME TheJob, ThePrepass, ApplyRule
  PROVE  ThePrepass'
<1>1. AtEntry /\ key.kind = "rules" /\ DelimitersLeft
  BY DEF ApplyRule
<1>2. RulesKey(key) /\ Entries = key.entries
  BY <1>1, EntriesAre
<1>3. CASE PassOn
  BY <1>1, <1>3, PassOnKeeps
<1>4. CASE Apply(RewriteLines(Entries[entry]), Entries[entry].alias)
  <2>1. PICK e : e = Entries[entry]
    OBVIOUS
  <2>3. /\ current' = RewriteLines(e) /\ used' = Append(used, e.alias) /\ entry' = entry + 1
        /\ key' = key /\ input' = input
    BY <1>4, <2>1 DEF Apply
  <2>4. Entries' = Entries /\ entry \in 1..Len(Entries) + 1 /\ entry <= Len(Entries) /\ Len(Entries) \in Nat
    BY <1>1, <2>3, EntriesAre DEF ThePrepass, AtEntry, Entries
  <2>5. entry \in 1..Len(Entries) /\ entry' \in 1..Len(Entries) + 1
    BY <2>3, <2>4
  <2>6. Rule(e) /\ Plain(e.alias)
    BY <1>2, <2>1, <2>5, RulesKeyIs
  <2>7. RewriteLines(e) \in Texts
    BY <1>1, <2>6, RewriteLinesIsAText DEF ThePrepass
  <2>8. used' \in Lists /\ used' # << >> /\ \A i \in 1..Len(used') : Plain(used'[i])
    BY <2>3, <2>6, OneMoreAlias DEF ThePrepass
  <2>9. DelimitersLeft' /\ key'.kind = "rules"
    BY <1>1, <2>3 DEF DelimitersLeft
  <2> QED BY <2>3, <2>4, <2>5, <2>7, <2>8, <2>9 DEF ThePrepass
<1> QED BY <1>3, <1>4 DEF ApplyRule

(* The first stage. *)
LEMMA JobStays ==
  ASSUME TheJob, input' = input, key' = key
  PROVE  TheJob'
BY DEF TheJob

LEMMA PrepassStays ==
  ASSUME ThePrepass, input' = input, key' = key, entry' = entry, current' = current, used' = used
  PROVE  ThePrepass' /\ (KeyDone => KeyDone')
<1>1. Entries' = Entries /\ DelimitersLeft' = DelimitersLeft
  BY DEF Entries, DelimitersLeft
<1> QED BY <1>1 DEF ThePrepass, KeyDone

LEMMA Staging ==
  ASSUME TheJob, ThePrepass, legend = << >>, Prepared, NEW text \in Texts, Stage(text),
         DecodeAll(text) = DecodeAll(current), text # current => Unpinned(text)
  PROVE  ThePrepass' /\ KeyDone' /\ MinerHas'
<1>1. /\ staged' = text /\ input' = input /\ key' = key /\ entry' = entry /\ current' = current
      /\ used' = used /\ legend' = << >>
  BY DEF Stage
<1>2. KeyDone
  <2>1. Len(Entries) \in Nat
    BY EntriesAre
  <2>2. entry \in 1..Len(Entries) + 1 /\ ~(entry <= Len(Entries))
    BY DEF ThePrepass, Prepared, AtEntry
  <2> QED BY <2>1, <2>2 DEF KeyDone
<1>3. MinerHas'
  <2>1. Dictionary(text, << >>)
    BY DictionaryAtFirst
  <2> QED BY <1>1, <2>1 DEF MinerHas
<1> QED BY <1>1, <1>2, <1>3, PrepassStays

LEMMA UnpinnedContainer ==
  ASSUME NEW t, NEW c, Parse(t) = {c}, c.codec \in {"raw", "mine", "mosaic"}
  PROVE  Unpinned(t)
BY DEF Unpinned

LEMMA RawStands ==
  ASSUME NEW t \in Texts
  PROVE  Raw(t) \in Texts /\ DecodeAll(Raw(t)) = DecodeAll(t) /\ Unpinned(Raw(t))
<1>1. PICK c : c = Container("raw", << >>, << >>, t)
  OBVIOUS
<1>2. c.codec = "raw"
  BY <1>1 DEF Container
<1>3. Parse(Raw(t)) = {c} /\ Raw(t) \in Texts /\ DecodeAll(Raw(t)) = DecodeAll(t)
  BY <1>1, RawIs
<1> QED BY <1>2, <1>3, UnpinnedContainer

LEMMA StagesKeep ==
  ASSUME TheJob, ThePrepass, legend = << >>, MineAlone \/ SqueezeStage \/ MosaicStage
  PROVE  ThePrepass' /\ KeyDone' /\ MinerHas'
<1>1. current \in Texts
  BY DEF ThePrepass
<1>2. CASE MineAlone
  BY <1>1, <1>2, Staging DEF MineAlone
<1>3. CASE SqueezeStage
  <2>1. PICK t \in Texts : t = Raw(current)
    BY <1>1, RawStands
  <2>2. DecodeAll(t) = DecodeAll(current) /\ Unpinned(t)
    BY <1>1, <2>1, RawStands
  <2>3. Prepared /\ Stage(t)
    BY <1>3, <2>1 DEF SqueezeStage
  <2> QED BY <2>2, <2>3, Staging
<1>4. CASE MosaicStage
  <2>1. PICK i \in 1..Len(current) - 1 :
          Stage(Mosaic(<<Raw(SubSeq(current, 1, i)), Raw(SubSeq(current, i + 1, Len(current)))>>))
    BY <1>4, Zenon DEF MosaicStage
  <2>2. /\ SubSeq(current, 1, i) \in Texts /\ SubSeq(current, i + 1, Len(current)) \in Texts
        /\ current = SubSeq(current, 1, i) \o SubSeq(current, i + 1, Len(current))
    <3>1. Len(current) \in Nat
      BY <1>1
    <3>2. i + 1 \in 1..Len(current) + 1 /\ (i + 1) - 1 = i
      BY <3>1
    <3> QED BY <1>1, <3>2, Suffix, Zenon
  <2>3. PICK x \in Texts : x = SubSeq(current, 1, i)
    BY <2>2, Zenon
  <2>4. PICK y \in Texts : y = SubSeq(current, i + 1, Len(current))
    BY <2>2, Zenon
  <2>5. PICK text : text = Mosaic(<<Raw(x), Raw(y)>>)
    OBVIOUS
  <2>6. text \in Texts /\ DecodeAll(text) = DecodeAll(x \o y)
    BY <2>5, MosaicOfTwo
  <2>7. Unpinned(text)
    <3>1. PICK c : Parse(text) = {c} /\ c.codec = "mosaic"
      BY <2>5, MosaicOfTwo
    <3> QED BY <3>1, UnpinnedContainer
  <2>8. DecodeAll(text) = DecodeAll(current)
    BY <2>2, <2>3, <2>4, <2>6, Zenon
  <2>9. Prepared /\ Stage(text)
    BY <1>4, <2>1, <2>3, <2>4, <2>5 DEF MosaicStage
  <2> QED BY <2>6, <2>7, <2>8, <2>9, Staging
<1> QED BY <1>2, <1>3, <1>4

(* The miner. *)
LEMMA CommitKeeps ==
  ASSUME MinerHas, NEW phrase \in Phrases(Mined), NEW alias \in Pool(staged), Commit(alias, phrase)
  PROVE  MinerHas'
<1>1. /\ legend' = Append(legend, <<alias, phrase>>) /\ staged' = staged /\ current' = current
      /\ alias \notin {legend[i][1] : i \in DOMAIN legend}
  BY DEF Commit
<1>2. legend \in Dictionaries /\ staged \in Texts /\ Dictionary(staged, legend)
  BY DEF MinerHas, Dictionary
<1>3. DOMAIN legend = 1..Len(legend)
  BY <1>2 DEF Dictionaries
<1>4. alias \notin Aliases(legend)
  BY <1>1, <1>3 DEF Aliases
<1>5. phrase \in Phrases(CommitAll(staged, legend))
  BY DEF Mined
<1>6. Dictionary(staged, Append(legend, <<alias, phrase>>))
  BY <1>2, <1>4, <1>5, DictionaryGrows
<1> QED BY <1>1, <1>6 DEF MinerHas

LEMMA MinedLegendIsReadable ==
  ASSUME NEW S \in Texts, NEW es, Dictionary(S, es)
  PROVE  Readable(es)
<1>1. ASSUME NEW n \in 1..Len(es)
      PROVE  ~Holds(es[n][1], <<Equals>>) /\ ~Holds(es[n][1], <<Newline>>) /\ ~Holds(es[n][2], <<Newline>>)
  <2>1. es[n][1] \in Pool(S) /\ ~Holds(es[n][2], <<Newline>>)
    BY DEF Dictionary, MinedLines
  <2>2. es[n][1] \in Texts /\ SymbolsOf(es[n][1]) \subseteq AliasSymbols
    BY <2>1, AliasesAreMarkers
  <2>3. Equals \notin AliasSymbols /\ Newline \notin AliasSymbols
    BY AliasesAssumption
  <2>4. ~Holds(es[n][1], <<Equals>>) /\ ~Holds(es[n][1], <<Newline>>)
    BY <2>2, <2>3, HoldsASymbol
  <2> QED BY <2>1, <2>4
<1> QED BY <1>1 DEF Readable

LEMMA KeptKeeps ==
  ASSUME ThePrepass, MinerHas, KeepMined \/ KeepStage \/ KeepRaw
  PROVE  WrapperHas'
<1>0. current \in Texts /\ staged \in Texts /\ DecodeAll(staged) = DecodeAll(current)
  BY DEF ThePrepass, MinerHas
<1>1. ASSUME NEW text \in Texts, Inner(text), DecodeAll(text) = DecodeAll(current), Unpinned(text)
      PROVE  WrapperHas'
  BY <1>1 DEF Inner, WrapperHas
<1>2. CASE KeepMined
  <2>1. legend \in Dictionaries /\ Dictionary(staged, legend)
    BY DEF MinerHas, Dictionary
  <2>2. Readable(legend) /\ Len(legend) \in Nat
    BY <1>0, <2>1, MinedLegendIsReadable, EntriesAreTexts
  <2>3. PICK body \in Texts : body = CommitAll(staged, legend)
    BY <1>0, <2>1, Nothing, CommitOne, Zenon
  <2>4. ExpandAll(body, legend) = staged
    BY <1>0, <2>1, <2>3, MinedExpands
  <2>5. PICK text : text = Emit(Container("mine", <<<<"n", Number(Len(legend))>>>>, LegendOf(legend), body))
    OBVIOUS
  <2>6. PICK c : c = Container("mine", <<<<"n", Number(Len(legend))>>>>, LegendOf(legend), body)
    OBVIOUS
  <2>7. text \in Texts /\ Parse(text) = {c} /\ DecodeAll(text) = DecodeAll(ExpandAll(body, legend))
    BY <2>1, <2>2, <2>5, <2>6, MineIs
  <2>8. c.codec = "mine"
    BY <2>6 DEF Container
  <2>9. Unpinned(text)
    BY <2>7, <2>8, UnpinnedContainer
  <2>10. Inner(text)
    BY <1>2, <2>3, <2>5 DEF KeepMined, Mined, LegendOf
  <2> QED BY <1>0, <1>1, <2>4, <2>7, <2>9, <2>10
<1>3. CASE KeepStage
  <2>1. Inner(staged) /\ Unpinned(staged)
    BY <1>3 DEF KeepStage, MinerHas
  <2> QED BY <1>0, <1>1, <2>1
<1>4. CASE KeepRaw
  <2>1. PICK inner \in {staged, current} : Inner(Raw(inner))
    BY <1>4 DEF KeepRaw
  <2>2. inner \in Texts /\ DecodeAll(inner) = DecodeAll(current)
    BY <1>0, <2>1
  <2>3. PICK text : text = Raw(inner)
    OBVIOUS
  <2>4. text \in Texts /\ DecodeAll(text) = DecodeAll(inner) /\ Unpinned(text)
    BY <2>2, <2>3, RawStands
  <2> QED BY <1>1, <2>1, <2>2, <2>3, <2>4
<1> QED BY <1>2, <1>3, <1>4

(* The wrappers. *)
LEMMA PlainSymbol ==
  ASSUME NEW s \in Symbols, s \notin {Space, Newline}
  PROVE  Plain(<<s>>)
<1>1. ~Holds(<<s>>, <<Space>>) /\ ~Holds(<<s>>, <<Newline>>) /\ <<s>> \in Texts
  BY HoldsInOne
<1> QED BY <1>1 DEF Plain

LEMMA UsedIsPlain ==
  ASSUME NEW q \in Lists, \A i \in 1..Len(q) : Plain(q[i])
  PROVE  Plain(FlattenSeq(q))
<1>1. NoneHolds(q, Space) /\ NoneHolds(q, Newline)
  BY DEF NoneHolds, Plain
<1>2. ~Holds(FlattenSeq(q), <<Space>>) /\ ~Holds(FlattenSeq(q), <<Newline>>)
  BY <1>1, FlatHolds
<1>3. FlattenSeq(q) \in Texts
  BY Nothing, FlatLaws, Zenon
<1> QED BY <1>2, <1>3 DEF Plain

(* A parameter of a name that no separator is.                              *)
AField(f) == f \in Symbols \X Texts /\ f[1] \notin {Space, Equals, Newline} /\ Plain(f[2])
LEMMA FieldIs ==
  ASSUME NEW name \in {"sum", "used", "start", "sep", "end"}, NEW v, Plain(v)
  PROVE  AField(<<name, v>>)
<1>1. name \in Symbols
  BY DEF Symbols
<1>2. name \notin {Space, Equals, Newline}
  BY Zenon DEF Space, Equals, Newline
<1>3. v \in Texts
  BY DEF Plain
<1> QED BY <1>1, <1>2, <1>3 DEF AField

LEMMA FieldsAre ==
  ASSUME NEW ps \in Seq(Symbols \X Texts), \A i \in 1..Len(ps) : AField(ps[i])
  PROVE  ps \in Fields /\ Named(ps)
BY DEF Fields, Named, AField

PinFields(ps, sum, names) ==
  /\ ps \in Fields /\ Named(ps)
  /\ \A codec, lines, body : /\ HasParam(codec, ps, lines, body, "sum", <<sum>>)
                             /\ HasParam(codec, ps, lines, body, "used", names)
LEMMA PinFieldsAre ==
  ASSUME NEW ps \in Seq(Symbols \X Texts), NEW sum, NEW names, Len(ps) >= 2, ps[1] = <<"sum", <<sum>>>>,
         ps[2] = <<"used", names>>, \A i \in 1..Len(ps) : AField(ps[i]),
         \A i \in 1..Len(ps) : i = 1 \/ i = 2 \/ ps[i][1] \in {"start", "sep", "end"}
  PROVE  PinFields(ps, sum, names)
<1>1. ps \in Fields /\ Named(ps)
  BY FieldsAre, Zenon
<1>2. Len(ps) \in Nat /\ 1 \in 1..Len(ps) /\ 2 \in 1..Len(ps)
  OBVIOUS
<1>3. ps[1][1] = "sum" /\ ps[1][2] = <<sum>> /\ ps[2][1] = "used" /\ ps[2][2] = names
  OBVIOUS
<1>4. \A j \in 1..Len(ps) : j # 1 => ps[j][1] # "sum"
  BY <1>3, Zenon
<1>5. \A j \in 1..Len(ps) : j # 2 => ps[j][1] # "used"
  BY <1>3, Zenon
<1>6. ASSUME NEW codec, NEW lines, NEW body
      PROVE  /\ HasParam(codec, ps, lines, body, "sum", <<sum>>)
             /\ HasParam(codec, ps, lines, body, "used", names)
  <2>1. HasParam(codec, ps, lines, body, "sum", ps[1][2])
    BY <1>1, <1>2, <1>3, <1>4, ParamIs, Zenon
  <2>2. HasParam(codec, ps, lines, body, "used", ps[2][2])
    BY <1>1, <1>2, <1>3, <1>5, ParamIs, Zenon
  <2> QED BY <1>3, <2>1, <2>2
<1> QED BY <1>1, <1>6 DEF PinFields

LEMMA ExtFields ==
  ASSUME NEW sum \in Symbols, sum \notin {Space, Newline}, NEW names, Plain(names),
         NEW ps, ps = <<<<"sum", <<sum>>>>, <<"used", names>>>>
  PROVE  PinFields(ps, sum, names)
<1>1. AField(<<"sum", <<sum>>>>) /\ AField(<<"used", names>>)
  BY PlainSymbol, FieldIs
<1>2. PICK a : a = <<"sum", <<sum>>>>
  OBVIOUS
<1>3. PICK b : b = <<"used", names>>
  OBVIOUS
<1>4. AField(a) /\ AField(b) /\ a \in Symbols \X Texts /\ b \in Symbols \X Texts
  BY <1>1, <1>2, <1>3 DEF AField
<1>5. ps \in Seq(Symbols \X Texts) /\ Len(ps) = 2 /\ ps[1] = a /\ ps[2] = b
  BY <1>2, <1>3, <1>4, Two
<1>6. \A i \in 1..Len(ps) : i = 1 \/ i = 2
  BY <1>5
<1>7. \A i \in 1..Len(ps) : AField(ps[i])
  BY <1>4, <1>5, <1>6
<1>8. Len(ps) >= 2
  BY <1>5
<1> QED BY <1>2, <1>3, <1>5, <1>6, <1>7, <1>8, PinFieldsAre, Zenon

LEMMA RulesFields ==
  ASSUME NEW sum \in Symbols, sum \notin {Space, Newline}, NEW names, Plain(names),
         NEW s \in Symbols, s \notin {Space, Newline}, NEW m \in Symbols, m \notin {Space, Newline},
         NEW e \in Symbols, e \notin {Space, Newline},
         NEW ps, ps = <<<<"sum", <<sum>>>>, <<"used", names>>, <<"start", <<s>>>>, <<"sep", <<m>>>>, <<"end", <<e>>>>>>
  PROVE  PinFields(ps, sum, names)
<1>1. /\ AField(<<"sum", <<sum>>>>) /\ AField(<<"used", names>>) /\ AField(<<"start", <<s>>>>)
      /\ AField(<<"sep", <<m>>>>) /\ AField(<<"end", <<e>>>>)
  BY PlainSymbol, FieldIs
<1>2. PICK a : a = <<"sum", <<sum>>>>
  OBVIOUS
<1>3. PICK b : b = <<"used", names>>
  OBVIOUS
<1>4. PICK x : x = <<"start", <<s>>>>
  OBVIOUS
<1>5. PICK y : y = <<"sep", <<m>>>>
  OBVIOUS
<1>6. PICK z : z = <<"end", <<e>>>>
  OBVIOUS
<1>7. /\ AField(a) /\ AField(b) /\ AField(x) /\ AField(y) /\ AField(z)
      /\ x[1] = "start" /\ y[1] = "sep" /\ z[1] = "end"
  BY <1>1, <1>2, <1>3, <1>4, <1>5, <1>6
<1>8. /\ a \in Symbols \X Texts /\ b \in Symbols \X Texts /\ x \in Symbols \X Texts
      /\ y \in Symbols \X Texts /\ z \in Symbols \X Texts
  BY <1>7 DEF AField
<1>9. /\ ps \in Seq(Symbols \X Texts) /\ Len(ps) = 5
      /\ ps[1] = a /\ ps[2] = b /\ ps[3] = x /\ ps[4] = y /\ ps[5] = z
  <2>1. ps = <<a, b, x, y, z>>
    BY <1>2, <1>3, <1>4, <1>5, <1>6
  <2>2. PICK S : S = Symbols \X Texts
    BY Zenon
  <2>3. a \in S /\ b \in S /\ x \in S /\ y \in S /\ z \in S
    BY <1>8, <2>2
  <2>4. ps \in Seq(S)
    BY <2>1, <2>3
  <2> QED BY <2>1, <2>2, <2>4
<1>10. \A i \in 1..Len(ps) : i = 1 \/ i = 2 \/ i = 3 \/ i = 4 \/ i = 5
  BY <1>9
<1>11. \A i \in 1..Len(ps) : AField(ps[i])
  BY <1>7, <1>9, <1>10, Zenon
<1>12. \A i \in 1..Len(ps) : i = 1 \/ i = 2 \/ ps[i][1] \in {"start", "sep", "end"}
  BY <1>7, <1>9, <1>10, Zenon
<1>13. Len(ps) >= 2
  BY <1>9
<1> QED BY <1>2, <1>3, <1>9, <1>11, <1>12, <1>13, PinFieldsAre, Zenon

LEMMA WrapKeeps ==
  ASSUME TheJob, ThePrepass, WrapperHas, Wrap
  PROVE  Wrapped'
<1>1. /\ used # << >> /\ artifact' = IF key.kind = "legend" THEN ExtWrapper ELSE RulesWrapper
      /\ used' = used /\ key' = key /\ current' = current
  BY DEF Wrap, Write
<1>2. artifact \in Texts /\ DecodeAll(artifact) = DecodeAll(current)
  BY DEF WrapperHas
<1>3. PICK names : names = FlattenSeq(used)
  OBVIOUS
<1>4. Plain(names)
  BY <1>3, UsedIsPlain DEF ThePrepass
<1>5. key.kind \in {"legend", "rules"} /\ key.sum \in Symbols /\ key.sum \notin {Space, Newline}
  <2>1. key.kind # "none"
    BY <1>1 DEF ThePrepass
  <2> QED BY <2>1, EntriesAre, LegendKeyIs, RulesKeyIs
<1>6. << >> \in Lists /\ LegendLines(<< >>)
  BY NoFields
<1>7. \A codec \in {"ext", "rules"} : codec \in Symbols /\ codec \notin {Space, Newline, "body"}
  BY CodecsAreSymbols
<1>8. ASSUME NEW codec \in {"ext", "rules"}, NEW ps, PinFields(ps, key.sum, names),
             codec = (IF key.kind = "legend" THEN "ext" ELSE "rules"),
             artifact' = Emit(Container(codec, ps, << >>, artifact))
      PROVE  Wrapped'
  <2>1. WellFormed(codec, ps, << >>, artifact)
    BY <1>2, <1>6, <1>7, <1>8 DEF WellFormed, PinFields
  <2>2. Parse(artifact') = {Container(codec, ps, << >>, artifact)}
    BY <1>8, <2>1, ParseEmit
  <2>3. /\ HasParam(codec, ps, << >>, artifact, "sum", <<key.sum>>)
        /\ HasParam(codec, ps, << >>, artifact, "used", names)
    BY <1>8 DEF PinFields
  <2>4. PICK body \in Texts : body = artifact
    BY <1>2
  <2>5. Pinned(codec, ps, body)'
    BY <1>1, <1>2, <1>3, <2>2, <2>3, <2>4 DEF Pinned
  <2> QED BY <1>1, <1>8, <2>5 DEF Wrapped
<1>9. CASE key.kind = "legend"
  <2>1. PICK ps : ps = <<<<"sum", <<key.sum>>>>, <<"used", names>>>>
    BY Zenon
  <2>2. PinFields(ps, key.sum, names)
    BY <1>4, <1>5, <2>1, ExtFields
  <2>3. artifact' = Emit(Container("ext", ps, << >>, artifact))
    BY <1>1, <1>3, <1>9, <2>1 DEF ExtWrapper
  <2> QED BY <1>8, <1>9, <2>2, <2>3
<1>10. CASE key.kind = "rules"
  <2>0. DelimitersLeft
    BY <1>1, <1>10 DEF ThePrepass
  <2>1. PICK ps : ps = <<<<"sum", <<key.sum>>>>, <<"used", names>>, <<"start", <<Chosen.start>>>>,
                         <<"sep", <<Chosen.sep>>>>, <<"end", <<Chosen.end>>>>>>
    BY Zenon
  <2>2. PinFields(ps, key.sum, names)
    <3>1. /\ Chosen.start \in Symbols /\ Chosen.start \notin {Space, Newline}
          /\ Chosen.sep \in Symbols /\ Chosen.sep \notin {Space, Newline}
          /\ Chosen.end \in Symbols /\ Chosen.end \notin {Space, Newline}
      BY <2>0, ChosenAre
    <3> QED BY <1>4, <1>5, <2>1, <3>1, RulesFields, Zenon
  <2>3. artifact' = Emit(Container("rules", ps, << >>, artifact))
    BY <1>1, <1>3, <1>10, <2>1 DEF RulesWrapper
  <2> QED BY <1>8, <1>10, <2>2, <2>3
<1> QED BY <1>5, <1>9, <1>10

LEMMA WrittenKeeps ==
  ASSUME TheJob, ThePrepass, WrapperHas, Bare \/ Wrap \/ GiveUp
  PROVE  (Stands \/ Wrapped)'
<1>1. CASE Bare
  <2>1. used = << >> /\ artifact' = artifact /\ used' = used /\ input' = input
    BY <1>1 DEF Bare, Write
  <2>2. DecodeAll(artifact) = DecodeAll(input) /\ Unpinned(artifact)
    BY <2>1 DEF ThePrepass, WrapperHas
  <2>3. Stands'
    BY <2>1, <2>2 DEF Stands
  <2> QED BY <2>3
<1>2. CASE GiveUp
  <2>1. artifact' = Raw(input) /\ used' = used /\ input' = input
    BY <1>2 DEF GiveUp, Write
  <2>2. PICK t \in Texts : t = input
    BY DEF TheJob
  <2>3. DecodeAll(Raw(t)) = DecodeAll(t) /\ Unpinned(Raw(t))
    BY RawStands
  <2>4. Stands'
    BY <2>1, <2>2, <2>3 DEF Stands
  <2> QED BY <2>4
<1>3. CASE Wrap
  BY <1>3, WrapKeeps
<1> QED BY <1>1, <1>2, <1>3

LEMMA EncodeInit == Init => EncodeIInv
<1> SUFFICES ASSUME Init PROVE EncodeIInv
  OBVIOUS
<1>1. TheJob /\ ThePrepass /\ legend = << >> /\ phase = "prepass"
  BY PrepassAtFirst
<1> QED BY <1>1 DEF EncodeIInv, Phases

LEMMA EncodeStep == EncodeIInv /\ [Next]_vars => EncodeIInv'
<1> SUFFICES ASSUME EncodeIInv, [Next]_vars PROVE EncodeIInv'
  OBVIOUS
<1>1. TheJob /\ ThePrepass
  BY DEF EncodeIInv
<1>2. ASSUME Substitute \/ ApplyRule PROVE EncodeIInv'
  <2>1. phase = "prepass" /\ phase' = phase /\ input' = input /\ key' = key /\ legend' = legend
    BY <1>2 DEF Substitute, ApplyRule, AtEntry, PassOn, Apply
  <2>2. TheJob'
    BY <1>1, <2>1, JobStays
  <2>3. ThePrepass'
    BY <1>1, <1>2, SubstituteKeeps, ApplyRuleKeeps
  <2> QED BY <2>1, <2>2, <2>3 DEF EncodeIInv, Phases
<1>3. ASSUME DelimitersExhausted PROVE EncodeIInv'
  <2>1. /\ phase = "prepass" /\ phase' = "refused" /\ input' = input /\ key' = key /\ legend' = legend
        /\ entry' = entry /\ current' = current /\ used' = used
    BY <1>3 DEF DelimitersExhausted
  <2>2. TheJob' /\ ThePrepass'
    BY <1>1, <2>1, JobStays, PrepassStays
  <2> QED BY <2>1, <2>2 DEF EncodeIInv, Phases
<1>4. ASSUME MineAlone \/ SqueezeStage \/ MosaicStage PROVE EncodeIInv'
  <2>1. phase = "prepass" /\ phase' = "mine" /\ input' = input /\ key' = key
    BY <1>4, Zenon DEF MineAlone, SqueezeStage, MosaicStage, Prepared, Stage
  <2>2. legend = << >>
    BY <2>1 DEF EncodeIInv
  <2>3. TheJob'
    BY <1>1, <2>1, JobStays
  <2>4. ThePrepass' /\ KeyDone' /\ MinerHas'
    BY <1>1, <1>4, <2>2, StagesKeep
  <2> QED BY <2>1, <2>3, <2>4 DEF EncodeIInv, Phases
<1>5. ASSUME NEW phrase \in Phrases(Mined), NEW alias \in Pool(staged), Commit(alias, phrase) PROVE EncodeIInv'
  <2>1. /\ phase = "mine" /\ phase' = phase /\ input' = input /\ key' = key
        /\ entry' = entry /\ current' = current /\ used' = used
    BY <1>5 DEF Commit
  <2>2. TheJob' /\ ThePrepass' /\ KeyDone'
    BY <1>1, <2>1, JobStays, PrepassStays DEF EncodeIInv
  <2>3. MinerHas'
    BY <1>5, <2>1, CommitKeeps DEF EncodeIInv
  <2> QED BY <2>1, <2>2, <2>3 DEF EncodeIInv, Phases
<1>6. ASSUME KeepMined \/ KeepStage \/ KeepRaw PROVE EncodeIInv'
  <2>1. /\ phase = "mine" /\ phase' = "wrap" /\ input' = input /\ key' = key
        /\ entry' = entry /\ current' = current /\ used' = used
    BY <1>6 DEF KeepMined, KeepStage, KeepRaw, Inner
  <2>2. TheJob' /\ ThePrepass' /\ KeyDone'
    BY <1>1, <2>1, JobStays, PrepassStays DEF EncodeIInv
  <2>3. WrapperHas'
    BY <1>1, <1>6, <2>1, KeptKeeps DEF EncodeIInv
  <2> QED BY <2>1, <2>2, <2>3 DEF EncodeIInv, Phases
<1>7. ASSUME Bare \/ Wrap \/ GiveUp PROVE EncodeIInv'
  <2>1. /\ phase = "wrap" /\ phase' = "done" /\ input' = input /\ key' = key
        /\ entry' = entry /\ current' = current /\ used' = used
    BY <1>7 DEF Bare, Wrap, GiveUp, Write
  <2>2. TheJob' /\ ThePrepass' /\ KeyDone'
    BY <1>1, <2>1, JobStays, PrepassStays DEF EncodeIInv
  <2>3. (Stands \/ Wrapped)'
    BY <1>1, <1>7, <2>1, WrittenKeeps DEF EncodeIInv
  <2> QED BY <2>1, <2>2, <2>3 DEF EncodeIInv, Phases
<1>8. ASSUME UNCHANGED vars PROVE EncodeIInv'
  BY <1>8 DEF vars, EncodeIInv, TheJob, ThePrepass, KeyDone, MinerHas, WrapperHas, Stands, Wrapped, Pinned,
              Entries, DelimitersLeft
<1> QED BY <1>2, <1>3, <1>4, <1>5, <1>6, <1>7, <1>8 DEF Next

(* What a reader makes of it. *)
LEMMA ReadsUnpinned ==
  ASSUME NEW t, NEW k, Unpinned(t)
  PROVE  DecodeWithKeys(t, k) = DecodeAll(t) /\ {c \in Parse(t) : c.codec \in {"ext", "rules"}} = {}
BY DEF DecodeWithKeys, Unpinned

LEMMA ReadsPinned ==
  ASSUME NEW t, NEW k, NEW c, Parse(t) = {c}, c.codec \in {"ext", "rules"}
  PROVE  /\ DecodeWithKeys(t, k) = UNION {ExpandKey(c, inner, k) : inner \in DecodeAll(c.body)}
         /\ {d \in Parse(t) : d.codec \in {"ext", "rules"}} # {}
<1>1. {d \in Parse(t) : d.codec \in {"ext", "rules"}} = {c}
  OBVIOUS
<1>2. PICK U : U = UNION {ExpandKey(c, inner, k) : inner \in DecodeAll(c.body)}
  BY Zenon
<1>3. UNION {UNION {ExpandKey(d, inner, k) : inner \in DecodeAll(d.body)} : d \in {c}} = U
  BY <1>2
<1> QED BY <1>1, <1>2, <1>3 DEF DecodeWithKeys

(* Another file, or none: refused.                                          *)
LEMMA ReadsNothing ==
  ASSUME NEW t, NEW k, NEW c, Parse(t) = {c}, c.codec \in {"ext", "rules"}, ~SameFile(c, k)
  PROVE  DecodeWithKeys(t, k) = {}
<1>1. \A inner : ExpandKey(c, inner, k) = {}
  BY DEF ExpandKey
<1>2. UNION {ExpandKey(c, inner, k) : inner \in DecodeAll(c.body)} = {}
  BY <1>1
<1> QED BY <1>2, ReadsPinned

LEMMA ShapelessIs ==
  ASSUME TheJob, ThePrepass, Shapeless
  PROVE  DecodeAll(input) = {input} /\ DecodeAll(current) = {current}
<1>1. PICK t \in Texts : t = input
  BY DEF TheJob
<1>2. PICK u \in Texts : u = current
  BY DEF ThePrepass
<1> QED BY <1>1, <1>2, DecodeAllLaws DEF Shapeless

LEMMA StandingReads ==
  ASSUME TheJob, ThePrepass, Stands, NEW k
  PROVE  /\ ~Pins /\ DecodeWithKeys(artifact, k) = DecodeAll(input)
         /\ Shapeless => DecodeWithKeys(artifact, k) = {input}
<1>1. DecodeWithKeys(artifact, k) = DecodeAll(input) /\ ~Pins
  BY ReadsUnpinned, Zenon DEF Stands, Pins
<1> QED BY <1>1, ShapelessIs

LEMMA WholeLegend ==
  ASSUME TheJob, ThePrepass, KeyDone, key.kind = "legend"
  PROVE  ExpandLegend(current, key.entries, FlattenSeq(used)) = input
<1>1. LegendKey(key) /\ Entries = key.entries
  BY EntriesAre
<1>2. PICK es \in Rows : es = key.entries
  BY <1>1, LegendKeyIs
<1>3. LegendAt(es, Len(es) + 1, current, used, input)
  BY <1>1, <1>2 DEF ThePrepass, KeyDone
<1>4. ExpandLegend(current, SubSeq(es, 1, (Len(es) + 1) - 1), FlattenSeq(used)) = input
  BY <1>3 DEF LegendAt
<1>5. Len(es) \in Nat /\ es \in Seq(Row)
  BY RowsAre DEF Rows
<1>6. SubSeq(es, 1, (Len(es) + 1) - 1) = es
  <2>1. (Len(es) + 1) - 1 = Len(es)
    BY <1>5
  <2>2. SubSeq(es, 1, Len(es)) = es
    BY <1>5, SubSeqFull
  <2> QED BY <2>1, <2>2
<1> QED BY <1>2, <1>4, <1>6, Zenon

(* The wrapper of a wrapped artifact, and what it opens with.               *)
LEMMA WrappedReads ==
  ASSUME TheJob, ThePrepass, KeyDone, Wrapped
  PROVE  /\ Pins /\ used # << >> /\ key # NoKey
         /\ key.kind = "legend" /\ Shapeless => DecodeWithKeys(artifact, key) = {input}
         /\ DecodeWithKeys(artifact, NoKey) = {} /\ DecodeWithKeys(artifact, Drifted) = {}
<1>1. PICK codec, ps, body : /\ Pinned(codec, ps, body)
                             /\ codec = IF key.kind = "legend" THEN "ext" ELSE "rules"
  BY DEF Wrapped
<1>2. used # << >> /\ key.kind \in {"legend", "rules"} /\ key # NoKey
  <2>1. used # << >> /\ key.kind # "none"
    BY DEF Wrapped, ThePrepass
  <2> QED BY <2>1, EntriesAre
<1>3. PICK c : c = Container(codec, ps, << >>, body)
  OBVIOUS
<1>4. /\ Parse(artifact) = {c} /\ Param(c, "sum") = {<<key.sum>>} /\ Param(c, "used") = {FlattenSeq(used)}
      /\ DecodeAll(c.body) = DecodeAll(current) /\ c.codec = codec
  BY <1>1, <1>3 DEF Pinned, HasParam, Container
<1>5. c.codec \in {"ext", "rules"}
  BY <1>1, <1>4
<1>6. Pins
  BY <1>4, <1>5, ReadsPinned DEF Pins
<1>7. ~SameFile(c, NoKey)
  BY DEF SameFile, NoKey
<1>8. ~SameFile(c, Drifted)
  <2>1. key.sum # "another"
    BY <1>2, EntriesAre, LegendKeyIs, RulesKeyIs
  <2>2. Drifted.sum = "another"
    <3>1. \E K \in {LegendFiles, RulesFiles} : key \in K
      BY <1>2, EntriesAre DEF LegendKey, RulesKey
    <3>2. CASE key \in LegendFiles
      BY <3>2 DEF LegendFiles, Drifted
    <3>3. CASE key \in RulesFiles
      BY <3>3 DEF RulesFiles, Drifted
    <3> QED BY <3>1, <3>2, <3>3
  <2>3. <<key.sum>> # <<Drifted.sum>>
    <3>1. <<key.sum>>[1] = key.sum /\ <<Drifted.sum>>[1] = Drifted.sum
      OBVIOUS
    <3> QED BY <2>1, <2>2, <3>1
  <2> QED BY <1>4, <2>3, Zenon DEF SameFile
<1>9. DecodeWithKeys(artifact, NoKey) = {} /\ DecodeWithKeys(artifact, Drifted) = {}
  BY <1>4, <1>5, <1>7, <1>8, ReadsNothing
<1>10. ASSUME key.kind = "legend", Shapeless PROVE DecodeWithKeys(artifact, key) = {input}
  <2>1. DecodeAll(c.body) = {current}
    BY <1>4, <1>10, ShapelessIs
  <2>2. c.codec = "ext"
    BY <1>1, <1>4, <1>10
  <2>3. SameFile(c, key)
    BY <1>4, <1>10, <2>2 DEF SameFile
  <2>4. ExpandKey(c, current, key) = {ExpandLegend(current, key.entries, u) : u \in {FlattenSeq(used)}}
    BY <1>4, <2>2, <2>3 DEF ExpandKey
  <2>5. ExpandKey(c, current, key) = {input}
    BY <1>10, <2>4, WholeLegend
  <2>6. DecodeWithKeys(artifact, key) = UNION {ExpandKey(c, inner, key) : inner \in {current}}
    BY <1>4, <1>5, <2>1, ReadsPinned
  <2> QED BY <2>5, <2>6
<1> QED BY <1>2, <1>6, <1>9, <1>10

-----------------------------------------------------------------------------
(* For every text, every key and every choice of the meter: what is encoded *)
(* decodes to what was read.  A rules artifact that pins its key is the one *)
(* exception, and the finding about rules applied one after the other.      *)
THEOREM EncodingDecodes == Spec => []((key.kind = "rules" => ~Pins) => DecodesToTheInput)
<1>1. EncodeIInv => ((key.kind = "rules" => ~Pins) => DecodesToTheInput)
  <2> SUFFICES ASSUME EncodeIInv, key.kind = "rules" => ~Pins, phase = "done"
               PROVE  /\ Shapeless => DecodeWithKeys(artifact, key) = {input}
                      /\ key = NoKey => DecodeWithKeys(artifact, key) = DecodeAll(input)
    BY DEF DecodesToTheInput
  <2>1. TheJob /\ ThePrepass /\ KeyDone /\ (Stands \/ Wrapped)
    BY DEF EncodeIInv
  <2>2. CASE Stands
    BY <2>1, <2>2, StandingReads
  <2>3. CASE Wrapped
    <3>1. /\ Pins /\ key # NoKey
          /\ key.kind = "legend" /\ Shapeless => DecodeWithKeys(artifact, key) = {input}
      BY <2>1, <2>3, WrappedReads
    <3>2. key.kind = "legend"
      BY <2>1, <3>1, EntriesAre
    <3> QED BY <3>1, <3>2
  <2> QED BY <2>1, <2>2, <2>3
<1> QED BY <1>1, EncodeInit, EncodeStep, PTL DEF Spec

(* An artifact asks for the key it was written with, and no other opens it. *)
THEOREM AsksForItsKey == Spec => []AsksForTheKeyItUsed
<1>1. EncodeIInv => AsksForTheKeyItUsed
  <2> SUFFICES ASSUME EncodeIInv, phase = "done", key # NoKey, Shapeless
               PROVE  /\ Pins => used # << >>
                      /\ IF Pins THEN DecodeWithKeys(artifact, NoKey) = {} /\ DecodeWithKeys(artifact, Drifted) = {}
                         ELSE DecodeWithKeys(artifact, NoKey) = {input}
    BY DEF AsksForTheKeyItUsed
  <2>1. TheJob /\ ThePrepass /\ KeyDone /\ (Stands \/ Wrapped)
    BY DEF EncodeIInv
  <2>2. CASE Stands
    BY <2>1, <2>2, StandingReads
  <2>3. CASE Wrapped
    BY <2>1, <2>3, WrappedReads
  <2> QED BY <2>1, <2>2, <2>3
<1> QED BY <1>1, EncodeInit, EncodeStep, PTL DEF Spec

(* A staged mosaic with another count, or cut anywhere, has no segments.    *)
THEOREM MosaicsAreWhole == Spec => []MiscountsAreRefused
<1>1. EncodeIInv => MiscountsAreRefused
  <2> SUFFICES ASSUME EncodeIInv, phase = "mine", NEW c \in Mosaics, SplitMosaic(c) # {}
               PROVE  /\ \A n \in 0..Len(c.body) :
                           SplitMosaic([c EXCEPT !.params = <<<<"n", Number(n)>>>>]) # {} => Declared(c) = {n}
                      /\ \A cut \in 0..Len(c.body) - 1 : SplitMosaic([c EXCEPT !.body = SubSeq(@, 1, cut)]) = {}
    BY Zenon DEF MiscountsAreRefused
  <2>1. PICK t \in Texts : t = staged
    BY DEF EncodeIInv, MinerHas
  <2>2. c \in Parse(t)
    BY <2>1 DEF Mosaics
  <2> QED BY <2>2, OtherCount, CutMosaic, Zenon
<1> QED BY <1>1, EncodeInit, EncodeStep, PTL DEF Spec
=============================================================================
