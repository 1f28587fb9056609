-------------------------- MODULE IdentityLockProofs --------------------------
(***************************************************************************)
(* The two halves of the identity lock.                                    *)
(*                                                                         *)
(* The pair, for any jobs, number of attempts and cap: a receipt lies      *)
(* beside an output and is that of a capture that completed (PairInv);     *)
(* what the verifier aligns is equal and what it finds uncovered is        *)
(* nothing, so lines differ where a report says so; and canonical lines    *)
(* are the raw ones but for their tokens, so what is equal there differs   *)
(* in tokens only.                                                         *)
(*                                                                         *)
(* The records, for any corpus, measurements and number of edits.  The     *)
(* first theorem follows from what the verifiers compare; the second needs *)
(* an invariant: as long as nobody has touched the closure, it is a record *)
(* its builder can have written (Written), and a record like that has few  *)
(* free parts.  The verifier compares each of them with the disk, but for  *)
(* those that Compared leaves out.                                         *)
(***************************************************************************)
EXTENDS EvidenceChain, PilotPair, WellFoundedInduction, TLAPS

-----------------------------------------------------------------------------
(* Numbers and recursion. *)

(* Every set of numbers that has an element has a least one.                *)
LEMMA NatHasMinimum ==
  ASSUME NEW T, T \subseteq Nat, T # {}
  PROVE  \E x \in T : \A y \in T : x <= y
<1> DEFINE Below == {ss \in Nat \X Nat : ss[1] < ss[2]}
<1>1. IsWellFoundedOn(Below, Nat)
  BY NatLessThanWellFounded, Zenon DEF OpToRel
<1>2. PICK x \in T : \A y \in T : <<y, x>> \notin Below
  BY <1>1, WFMin, Zenon
<1>3. ASSUME NEW y \in T PROVE x <= y
  <2>1. x \in Nat /\ y \in Nat
    OBVIOUS
  <2>2. <<y, x>> \notin Below
    BY <1>2
  <2>3. ~(y < x)
    BY <2>1, <2>2
  <2> QED BY <2>1, <2>3
<1> QED BY <1>3

(* Values computed one from the other, up to some number, exist.            *)
Rules(hi, V) == [(1..hi) \X V -> V]
Runs1(hi, V) == [0..hi -> V]
Follows(g, hi, base, G) == g[0] = base /\ \A i \in 1..hi : g[i] = G[<<i, g[i - 1]>>]
LEMMA RecursionExists ==
  ASSUME NEW hi \in Nat, NEW V, NEW base \in V, NEW G \in Rules(hi, V)
  PROVE  \E g \in Runs1(hi, V) : Follows(g, hi, base, G)
<1> USE DEF Rules, Runs1, Follows
<1> DEFINE Steps(n, g) == g[0] = base /\ \A i \in 1..n : g[i] = G[<<i, g[i - 1]>>]
           Stuck == {n \in 0..hi : ~\E g \in [0..n -> V] : Steps(n, g)}
<1>1. ASSUME Stuck # {} PROVE FALSE
  <2>0. Stuck \subseteq Nat
    OBVIOUS
  <2>1. PICK n \in Stuck : \A m \in Stuck : n <= m
    <3> HIDE DEF Stuck
    <3> QED BY <1>1, <2>0, NatHasMinimum
  <2>2. ASSUME n = 0 PROVE FALSE
    <3> DEFINE h == [i \in 0..0 |-> base]
    <3>1. h \in [0..0 -> V] /\ Steps(0, h)
      OBVIOUS
    <3> QED BY <2>1, <2>2, <3>1
  <2>3. n - 1 \in 0..hi /\ n \in 1..hi
    BY <2>1, <2>2
  <2>4. n - 1 \notin Stuck
    <3> HIDE DEF Stuck
    <3> QED BY <2>1, <2>3
  <2>5. PICK g \in [0..(n - 1) -> V] : Steps(n - 1, g)
    BY <2>3, <2>4
  <2>6. g[n - 1] \in V /\ G[<<n, g[n - 1]>>] \in V
    BY <2>3
  <2> DEFINE h == [i \in 0..n |-> IF i = n THEN G[<<n, g[n - 1]>>] ELSE g[i]]
  <2>7. h \in [0..n -> V]
    BY <2>3, <2>6
  <2>8. h[0] = base
    BY <2>3, <2>5
  <2>9. ASSUME NEW i \in 1..n PROVE h[i] = G[<<i, h[i - 1]>>]
    <3>1. h[i - 1] = g[i - 1] /\ i \in 0..n
      BY <2>3
    <3>2. CASE i = n
      <4>1. h[i] = G[<<n, g[n - 1]>>]
        BY <3>1, <3>2
      <4> HIDE DEF h
      <4> QED BY <3>1, <3>2, <4>1
    <3>3. CASE i # n
      <4>1. h[i] = g[i]
        BY <3>1, <3>3
      <4>2. i \in 1..(n - 1)
        BY <2>3, <3>3
      <4> HIDE DEF h
      <4> QED BY <2>5, <3>1, <4>1, <4>2
    <3> QED BY <3>2, <3>3
  <2>10. Steps(n, h)
    BY <2>8, <2>9
  <2> QED BY <2>1, <2>7, <2>10
<1>2. hi \notin Stuck
  BY <1>1
<1> QED BY <1>2

(* What holds at first and goes on holding holds up to any number.          *)
LEMMA Climbs ==
  ASSUME NEW hi \in Nat, NEW P, 0 \in P, \A n \in 1..hi : n - 1 \in P => n \in P
  PROVE  \A n \in 0..hi : n \in P
<1> DEFINE Missing == {n \in 0..hi : n \notin P}
<1>1. ASSUME Missing # {} PROVE FALSE
  <2>1. Missing \subseteq Nat
    OBVIOUS
  <2>2. PICK n \in Missing : \A m \in Missing : n <= m
    <3> HIDE DEF Missing
    <3> QED BY <1>1, <2>1, NatHasMinimum
  <2>3. n \in 1..hi /\ n - 1 \in 0..hi
    BY <2>2
  <2>4. n - 1 \in P
    BY <2>2, <2>3
  <2> QED BY <2>2, <2>3, <2>4
<1> QED BY <1>1

-----------------------------------------------------------------------------
(* The alignment of two outputs. *)

(* The numbers of a block that lies in a stretch.                           *)
LEMMA BlockNumbers ==
  ASSUME NEW la \in Nat, NEW lb \in Nat,
         NEW s1 \in 1..la + 1, NEW s2 \in 0..la, NEW s3 \in 1..lb + 1, NEW s4 \in 0..lb,
         NEW x \in s1..s2, NEW y \in s3..s4, NEW n \in 1..(s2 - s1 + 1), x + n - 1 <= s2, y + n - 1 <= s4
  PROVE  /\ x \in Nat /\ y \in Nat /\ n \in Nat /\ s2 - s1 + 1 - n \in Nat
         /\ x - 1 \in 0..la /\ y - 1 \in 0..lb /\ x + n \in 1..la + 1 /\ y + n \in 1..lb + 1
         /\ \A k \in 0..(n - 1) : x + k \in 1..la /\ y + k \in 1..lb
OBVIOUS

(* The numbers of a stretch, and of a block in it.                          *)
LEMMA StretchNumbers ==
  ASSUME NEW a, NEW b, NEW s, Len(a) \in Nat, Len(b) \in Nat, s \in Stretches(a, b)
  PROVE  /\ s[1] \in 1..Len(a) + 1 /\ s[2] \in 0..Len(a) /\ s[3] \in 1..Len(b) + 1 /\ s[4] \in 0..Len(b)
BY DEF Stretches

LEMMA NumbersOfABlock ==
  ASSUME NEW a, NEW b, NEW s, Len(a) \in Nat, Len(b) \in Nat, s \in Stretches(a, b),
         NEW t, t \in Blocks(a, b, s)
  PROVE  /\ t[1] \in Nat /\ t[2] \in Nat /\ t[3] \in Nat /\ s[2] - s[1] + 1 - t[3] \in Nat
         /\ t[1] - 1 \in 0..Len(a) /\ t[2] - 1 \in 0..Len(b)
         /\ t[1] + t[3] \in 1..Len(a) + 1 /\ t[2] + t[3] \in 1..Len(b) + 1
         /\ \A k \in 0..(t[3] - 1) : /\ t[1] + k \in 1..Len(a) /\ t[2] + k \in 1..Len(b)
                                      /\ a[t[1] + k] = b[t[2] + k]
<1>1. /\ t[1] \in s[1]..s[2] /\ t[2] \in s[3]..s[4] /\ t[3] \in 1..(s[2] - s[1] + 1)
      /\ t[1] + t[3] - 1 <= s[2] /\ t[2] + t[3] - 1 <= s[4]
      /\ \A k \in 0..(t[3] - 1) : a[t[1] + k] = b[t[2] + k]
  BY DEF Blocks
<1>2. /\ s[1] \in 1..Len(a) + 1 /\ s[2] \in 0..Len(a) /\ s[3] \in 1..Len(b) + 1 /\ s[4] \in 0..Len(b)
  BY StretchNumbers
<1>3. PICK la \in Nat, lb \in Nat : la = Len(a) /\ lb = Len(b)
  OBVIOUS
<1>4. PICK s1 \in 1..la + 1, s2 \in 0..la, s3 \in 1..lb + 1, s4 \in 0..lb :
           s1 = s[1] /\ s2 = s[2] /\ s3 = s[3] /\ s4 = s[4]
  BY <1>2, <1>3
<1>5. PICK x \in s1..s2, y \in s3..s4, n \in 1..(s2 - s1 + 1) : x = t[1] /\ y = t[2] /\ n = t[3]
  BY <1>1, <1>4
<1>6. x + n - 1 <= s2 /\ y + n - 1 <= s4
  BY <1>1, <1>4, <1>5
<1>7. /\ x \in Nat /\ y \in Nat /\ n \in Nat /\ s2 - s1 + 1 - n \in Nat
      /\ x - 1 \in 0..la /\ y - 1 \in 0..lb /\ x + n \in 1..la + 1 /\ y + n \in 1..lb + 1
      /\ \A k \in 0..(n - 1) : x + k \in 1..la /\ y + k \in 1..lb
  BY <1>6, BlockNumbers
<1>8. \A k \in 0..(n - 1) : a[x + k] = b[y + k]
  BY <1>1, <1>5
<1> QED BY <1>3, <1>4, <1>5, <1>7, <1>8

(* There is a longest common block, and a first one among those.            *)
LEMMA LongestBlockIsABlock ==
  ASSUME NEW a, NEW b, NEW s, Len(a) \in Nat, Len(b) \in Nat, s \in Stretches(a, b), Blocks(a, b, s) # {}
  PROVE  LongestBlock(a, b, s) \in Blocks(a, b, s)
<1> DEFINE B == Blocks(a, b, s)
           Slack(t) == s[2] - s[1] + 1 - t[3]
<1>1. \A t \in B : t[1] \in Nat /\ t[2] \in Nat /\ t[3] \in Nat /\ s[2] - s[1] + 1 - t[3] \in Nat
  BY NumbersOfABlock
<1>2. PICK t1 \in B : \A u \in B : Slack(t1) <= Slack(u)
  <2> DEFINE T == {Slack(t) : t \in B}
  <2>1. T \subseteq Nat /\ T # {}
    <3>1. \A t \in B : Slack(t) \in Nat
      BY <1>1
    <3>2. B # {}
      OBVIOUS
    <3> HIDE DEF B, Slack
    <3> QED BY <3>1, <3>2
  <2>2. PICK x \in T : \A y \in T : x <= y
    <3> HIDE DEF T
    <3> QED BY <2>1, NatHasMinimum
  <2> QED BY <2>2
<1>3. PICK t2 \in B : t2[3] = t1[3] /\ \A u \in B : u[3] = t1[3] => t2[1] <= u[1]
  <2> DEFINE T == {t[1] : t \in {t \in B : t[3] = t1[3]}}
  <2>1. T \subseteq Nat /\ T # {}
    BY <1>1, <1>2
  <2>2. PICK x \in T : \A y \in T : x <= y
    <3> HIDE DEF T
    <3> QED BY <2>1, NatHasMinimum
  <2> QED BY <2>2
<1>4. PICK t3 \in B : /\ t3[3] = t1[3] /\ t3[1] = t2[1]
                      /\ \A u \in B : u[3] = t1[3] /\ u[1] = t2[1] => t3[2] <= u[2]
  <2> DEFINE T == {t[2] : t \in {t \in B : t[3] = t1[3] /\ t[1] = t2[1]}}
  <2>1. T \subseteq Nat /\ T # {}
    BY <1>1, <1>3
  <2>2. PICK x \in T : \A y \in T : x <= y
    <3> HIDE DEF T
    <3> QED BY <2>1, NatHasMinimum
  <2> QED BY <2>2
<1>5. \A u \in B : \/ t3[3] > u[3]
                   \/ t3[3] = u[3] /\ (t3[1] < u[1] \/ (t3[1] = u[1] /\ t3[2] <= u[2]))
  <2> SUFFICES ASSUME NEW u \in B
               PROVE  \/ t3[3] > u[3]
                      \/ t3[3] = u[3] /\ (t3[1] < u[1] \/ (t3[1] = u[1] /\ t3[2] <= u[2]))
    OBVIOUS
  <2>1. s[1] \in Int /\ s[2] \in Int
    BY DEF Stretches
  <2>2. /\ t1[3] \in Nat /\ t2[1] \in Nat /\ t3[1] \in Nat /\ t3[2] \in Nat /\ t3[3] \in Nat
        /\ u[1] \in Nat /\ u[2] \in Nat /\ u[3] \in Nat
    BY <1>1, <1>2, <1>3, <1>4
  <2>3. t1[3] >= u[3]
    <3>1. Slack(t1) <= Slack(u)
      BY <1>2
    <3>2. ASSUME NEW x \in Int, NEW y \in Int, NEW p \in Nat, NEW q \in Nat, x - y + 1 - p <= x - y + 1 - q PROVE p >= q
      BY <3>2
    <3>3. s[2] - s[1] + 1 - t1[3] <= s[2] - s[1] + 1 - u[3]
      BY <3>1, Zenon
    <3> QED BY <2>1, <2>2, <3>2, <3>3
  <2>4. u[3] = t1[3] => t2[1] <= u[1]
    BY <1>3
  <2>5. u[3] = t1[3] /\ u[1] = t2[1] => t3[2] <= u[2]
    BY <1>4
  <2> HIDE DEF B
  <2> QED BY <1>4, <2>2, <2>3, <2>4, <2>5
<1> QED BY <1>5 DEF LongestBlock

(* What may be aligned: equal lines, whatever the gaps have.                *)
Equal(a, b) == {p \in (1..Len(a)) \X (1..Len(b)) : a[p[1]] = b[p[2]]}
Alignments(a, b) == [Stretches(a, b) -> SUBSET Equal(a, b)]

(* A step of the alignment aligns equal lines if those in the gaps do.      *)
LEMMA PairsAreEqual ==
  ASSUME NEW a, NEW b, NEW s, Len(a) \in Nat, Len(b) \in Nat, s \in Stretches(a, b),
         NEW inGaps \in Alignments(a, b)
  PROVE  Pairs(a, b, s, inGaps) \in SUBSET Equal(a, b)
<1>1. CASE Blocks(a, b, s) = {}
  BY <1>1 DEF Pairs
<1>2. CASE Blocks(a, b, s) # {}
  <2> DEFINE t == LongestBlock(a, b, s)
             left == <<s[1], t[1] - 1, s[3], t[2] - 1>>
             right == <<t[1] + t[3], s[2], t[2] + t[3], s[4]>>
  <2>1. t \in Blocks(a, b, s)
    BY <1>2, LongestBlockIsABlock
  <2>2. /\ s[1] \in 1..Len(a) + 1 /\ s[2] \in 0..Len(a) /\ s[3] \in 1..Len(b) + 1 /\ s[4] \in 0..Len(b)
    BY StretchNumbers
  <2>3. /\ t[1] - 1 \in 0..Len(a) /\ t[2] - 1 \in 0..Len(b)
        /\ t[1] + t[3] \in 1..Len(a) + 1 /\ t[2] + t[3] \in 1..Len(b) + 1
        /\ \A k \in 0..(t[3] - 1) : /\ t[1] + k \in 1..Len(a) /\ t[2] + k \in 1..Len(b)
                                     /\ a[t[1] + k] = b[t[2] + k]
    <3> HIDE DEF t
    <3> QED BY <2>1, NumbersOfABlock
  <2> HIDE DEF t
  <2>4. left \in Stretches(a, b) /\ right \in Stretches(a, b)
    BY <2>2, <2>3 DEF Stretches
  <2>5. inGaps[left] \subseteq Equal(a, b) /\ inGaps[right] \subseteq Equal(a, b)
    BY <2>4 DEF Alignments
  <2>6. ASSUME NEW k \in 0..(t[3] - 1) PROVE <<t[1] + k, t[2] + k>> \in Equal(a, b)
    BY <2>3 DEF Equal
  <2>7. Pairs(a, b, s, inGaps) = {<<t[1] + k, t[2] + k>> : k \in 0..(t[3] - 1)} \cup inGaps[left] \cup inGaps[right]
    BY <1>2 DEF Pairs, t
  <2> HIDE DEF left, right
  <2> QED BY <2>5, <2>6, <2>7
<1> QED BY <1>1, <1>2

(* Lines that are aligned are equal.                                        *)
LEMMA MatchedLinesAreEqual ==
  ASSUME NEW a, NEW b, Len(a) \in Nat, Len(b) \in Nat
  PROVE  Matched(a, b) \subseteq Equal(a, b)
<1> DEFINE V == Alignments(a, b)
           S == Stretches(a, b)
           base == [s \in S |-> {}]
           G == [p \in (1..Len(a)) \X V |-> [s \in S |-> Pairs(a, b, s, p[2])]]
           IsTheFold(h) == h = [n \in 0..Len(a) |->
                                  [s \in S |-> IF n = 0 THEN {} ELSE Pairs(a, b, s, h[n - 1])]]
           f == CHOOSE h : IsTheFold(h)
<1>1. base \in V
  BY DEF Alignments
<1>2. ASSUME NEW v \in V PROVE [s \in S |-> Pairs(a, b, s, v)] \in V
  <2>1. \A s \in S : Pairs(a, b, s, v) \in SUBSET Equal(a, b)
    BY PairsAreEqual
  <2> HIDE DEF S
  <2> QED BY <2>1 DEF Alignments, S
<1>3. G \in Rules(Len(a), V)
  <2> HIDE DEF V, S
  <2> QED BY <1>2 DEF Rules
<1>4. PICK g \in Runs1(Len(a), V) : Follows(g, Len(a), base, G)
  <2> HIDE DEF G, V, base
  <2> QED BY <1>1, <1>3, RecursionExists
<1>5. IsTheFold(g)
  <2>1. /\ g = [n \in 0..Len(a) |-> g[n]] /\ g[0] = base
        /\ \A n \in 1..Len(a) : g[n] = G[<<n, g[n - 1]>>] /\ g[n - 1] \in V
    <3> HIDE DEF G, V, base
    <3>1. g \in [0..Len(a) -> V] /\ g[0] = base /\ \A n \in 1..Len(a) : g[n] = G[<<n, g[n - 1]>>]
      BY <1>4 DEF Runs1, Follows
    <3>2. \A n \in 1..Len(a) : n - 1 \in 0..Len(a)
      OBVIOUS
    <3> QED BY <3>1, <3>2
  <2>2. ASSUME NEW n \in 1..Len(a) PROVE g[n] = [s \in S |-> Pairs(a, b, s, g[n - 1])]
    <3>1. <<n, g[n - 1]>> \in (1..Len(a)) \X V
      BY <2>1
    <3> HIDE DEF V, S
    <3> QED BY <2>1, <3>1
  <2>3. ASSUME NEW n \in 0..Len(a)
        PROVE  g[n] = [s \in S |-> IF n = 0 THEN {} ELSE Pairs(a, b, s, g[n - 1])]
    <3>1. CASE n = 0
      <4> HIDE DEF S
      <4> QED BY <2>1, <3>1
    <3>2. CASE n # 0
      <4>1. n \in 1..Len(a)
        BY <3>2
      <4> HIDE DEF S
      <4> QED BY <2>2, <3>2, <4>1
    <3> QED BY <3>1, <3>2
  <2> HIDE DEF S
  <2> QED BY <2>1, <2>3
<1>6. IsTheFold(f)
  BY <1>5
<1>7. Matched(a, b) = f[Len(a)][<<1, Len(a), 1, Len(b)>>]
  BY DEF Matched
<1> HIDE DEF f
<1>8. \A n \in 0..Len(a) : n \in {m \in 0..Len(a) : f[m] \in V}
  <2> DEFINE P == {m \in 0..Len(a) : f[m] \in V}
  <2>1. 0 \in P
    <3>1. f[0] = base
      <4> HIDE DEF S
      <4> QED BY <1>6
    <3> QED BY <1>1, <3>1
  <2>2. ASSUME NEW n \in 1..Len(a), n - 1 \in P PROVE n \in P
    <3>0. n \in 0..Len(a) /\ n # 0
      OBVIOUS
    <3>1. f[n] = [s \in S |-> Pairs(a, b, s, f[n - 1])]
      <4> HIDE DEF S
      <4>1. f[n] = [s \in S |-> IF n = 0 THEN {} ELSE Pairs(a, b, s, f[n - 1])]
        BY <1>6, <3>0
      <4> QED BY <3>0, <4>1
    <3> HIDE DEF V, S
    <3> QED BY <1>2, <2>2, <3>1
  <2> HIDE DEF P
  <2>3. \A n \in 0..Len(a) : n \in P
    BY <2>1, <2>2, Climbs
  <2> QED BY <2>3 DEF P
<1>9. f[Len(a)] \in V
  BY <1>8
<1>10. <<1, Len(a), 1, Len(b)>> \in S
  BY DEF Stretches
<1> QED BY <1>7, <1>9, <1>10 DEF Alignments

(* A line that is not covered has an equal one on the other side.           *)
CoveredOrThere(a, b, covered) == \A i \in DOMAIN a : a[i] \in covered \/ \E j \in DOMAIN b : b[j] = a[i]
Numbered(a) == Len(a) \in Nat /\ DOMAIN a = 1..Len(a)
LEMMA NothingUncovered ==
  ASSUME NEW a, NEW b, NEW coveredA, NEW coveredB, Numbered(a), Numbered(b),
         Uncovered(a, b, coveredA, coveredB) = {}
  PROVE  CoveredOrThere(a, b, coveredA) /\ CoveredOrThere(b, a, coveredB)
<1>1. \A p \in Matched(a, b) : p[1] \in DOMAIN a /\ p[2] \in DOMAIN b /\ a[p[1]] = b[p[2]]
  BY MatchedLinesAreEqual DEF Equal, Numbered
<1>2. \A i \in DOMAIN a : a[i] \in coveredA \/ \E p \in Matched(a, b) : p[1] = i
  BY DEF Uncovered
<1>3. \A j \in DOMAIN b : b[j] \in coveredB \/ \E p \in Matched(a, b) : p[2] = j
  BY DEF Uncovered
<1> QED BY <1>1, <1>2, <1>3 DEF CoveredOrThere

-----------------------------------------------------------------------------
(* What lies in a directory. *)

(* What a capture of a job may write. *)
WritesOf(job, pol) ==
    {[file |-> "out", content |-> job.output]}
    \cup {[file |-> f, content |-> c] :
             f \in {"err", "content", "canonreport", "canonical", "failure"},
             c \in {job.errors, Classification(job), Report(job.case, job.output),
                    Capped(Report(job.case, job.output).lines),
                    BeforeTheRun(job).gate, "content", "canonicalization"}}
    \cup {w \in {[file |-> "receipt", content |-> Receipt(job, pol, Report(job.case, job.output))]} : Completes(job)}

(* A receipt comes after the output it is about. *)
OutputComesFirst(q, dir) ==
    \A i \in DOMAIN q : q[i].file = "receipt" => dir.out.present \/ q[1].file = "out"
PendingOf(q, dir, job) == \E pol : q \in Seq(WritesOf(job, pol)) /\ OutputComesFirst(q, dir)

(* A receipt lies beside an output of some job, and is that of a completed  *)
(* one.                                                                     *)
OutputsAreSomeJobs(dir) == dir.out.present => \E job \in Jobs : dir.out.content = job.output
ReceiptsAreOfCompleted(dir, done) ==
    dir.receipt.present =>
        /\ dir.out.present
        /\ \E job \in done \cap Jobs : \E pol :
             Completes(job) /\ dir.receipt.content = Receipt(job, pol, Report(job.case, job.output))
IsDir(dir) == dir = [f \in Files |-> dir[f]]

PairInv ==
    /\ dirs = [d \in Sides |-> dirs[d]] /\ pending = [d \in Sides |-> pending[d]]
    /\ running = [d \in Sides |-> running[d]] /\ completed = [d \in Sides |-> completed[d]]
    /\ \A d \in Sides :
         /\ IsDir(dirs[d]) /\ OutputsAreSomeJobs(dirs[d]) /\ ReceiptsAreOfCompleted(dirs[d], completed[d])
         /\ pending[d] # <<>> => \E job \in Jobs : running[d] = <<job>> /\ PendingOf(pending[d], dirs[d], job)

(* Sequences of the same elements, one after the other.                     *)
LEMMA Chained ==
  ASSUME NEW S, NEW s \in Seq(S), NEW t \in Seq(S), s # <<>>
  PROVE  s \o t \in Seq(S) /\ (s \o t)[1] = s[1]
OBVIOUS
LEMMA Single ==
  ASSUME NEW S, NEW f, NEW c, [file |-> f, content |-> c] \in S
  PROVE  Write(f, c) \in Seq(S) /\ Write(f, c) # <<>> /\ Write(f, c)[1].file = f
BY DEF Write

(* What a capture sets out to write is due.                                 *)
LEMMA WritesAreDue ==
  ASSUME NEW job, NEW pol, NEW dir
  PROVE  PendingOf(Writes(job, pol), dir, job)
<1> DEFINE S == WritesOf(job, pol)
           report == Report(job.case, job.output)
           ran == Write("out", job.output) \o Write("err", job.errors) \o Write("content", Classification(job))
           middle == IF job.case \in Canonicalized THEN Write("canonreport", report) ELSE <<>>
           done == [file |-> "receipt", content |-> Receipt(job, pol, report)]
<1>1. \A f \in {"err", "content", "canonreport", "canonical", "failure"} :
        \A c \in {job.errors, Classification(job), report, Capped(report.lines), BeforeTheRun(job).gate, "content", "canonicalization"} :
           Write(f, c) \in Seq(S) /\ Write(f, c) # <<>>
  <2> SUFFICES ASSUME NEW f \in {"err", "content", "canonreport", "canonical", "failure"},
                      NEW c \in {job.errors, Classification(job), report, Capped(report.lines), BeforeTheRun(job).gate,
                                 "content", "canonicalization"}
               PROVE  Write(f, c) \in Seq(S) /\ Write(f, c) # <<>>
    OBVIOUS
  <2>1. [file |-> f, content |-> c] \in S
    BY DEF WritesOf
  <2> HIDE DEF S
  <2> QED BY <2>1, Single
<1>2. Write("out", job.output) \in Seq(S) /\ Write("out", job.output) # <<>> /\ Write("out", job.output)[1].file = "out"
  <2>1. [file |-> "out", content |-> job.output] \in S
    BY DEF WritesOf
  <2> HIDE DEF S
  <2> QED BY <2>1, Single
<1>3. ran \in Seq(S) /\ ran[1].file = "out" /\ ran # <<>>
  <2>1. Write("err", job.errors) \in Seq(S) /\ Write("content", Classification(job)) \in Seq(S)
    <3> HIDE DEF S, report
    <3> QED BY <1>1
  <2> DEFINE o == Write("out", job.output)
             e == Write("err", job.errors)
             k == Write("content", Classification(job))
  <2>2. o \o e \in Seq(S) /\ (o \o e)[1] = o[1] /\ o \o e # <<>>
    <3>1. o \in Seq(S) /\ o # <<>> /\ e \in Seq(S)
      BY <1>2, <2>1
    <3> HIDE DEF S, o, e
    <3> QED BY <3>1, Chained
  <2>3. (o \o e) \o k \in Seq(S) /\ ((o \o e) \o k)[1] = (o \o e)[1] /\ (o \o e) \o k # <<>>
    <3>1. k \in Seq(S)
      BY <2>1
    <3> HIDE DEF S, o, e, k
    <3> QED BY <2>2, <3>1, Chained
  <2> QED BY <1>2, <2>2, <2>3
<1>4. middle \in Seq(S) /\ Write("canonical", Capped(report.lines)) \in Seq(S)
  <2> HIDE DEF S, report
  <2> QED BY <1>1
<1>5. ASSUME NEW q \in Seq(S), q = <<>> \/ q[1].file = "out" PROVE PendingOf(q, dir, job)
  BY <1>5 DEF PendingOf, OutputComesFirst
<1>6. CASE BeforeTheRun(job) # Proceeds
  <2>1. Write("failure", BeforeTheRun(job).gate) \in Seq(S)
    <3> HIDE DEF S, report
    <3> QED BY <1>1
  <2>2. Writes(job, pol) = <<>> \/ Writes(job, pol) = Write("failure", BeforeTheRun(job).gate)
    BY <1>6 DEF Writes
  <2>3. OutputComesFirst(Write("failure", BeforeTheRun(job).gate), dir)
    BY DEF OutputComesFirst, Write
  <2>4. <<>> \in Seq(S)
    OBVIOUS
  <2> HIDE DEF S
  <2> QED BY <1>5, <2>1, <2>2, <2>3, <2>4 DEF PendingOf, S
<1>7. CASE BeforeTheRun(job) = Proceeds /\ ~(ContentAccepted(job) /\ report.ok)
  <2>1. Write("failure", "content") \in Seq(S) /\ Write("failure", "canonicalization") \in Seq(S)
    <3> HIDE DEF S, report
    <3> QED BY <1>1
  <2>2. Writes(job, pol) = ran \o Write("failure", "content") \/ Writes(job, pol) = ran \o Write("failure", "canonicalization")
    BY <1>7 DEF Writes
  <2> HIDE DEF S, ran
  <2>3. ASSUME NEW f \in Seq(S) PROVE ran \o f \in Seq(S) /\ (ran \o f)[1] = ran[1]
    BY <1>3, Chained
  <2>4. Writes(job, pol) \in Seq(S) /\ Writes(job, pol)[1] = ran[1]
    <3> DEFINE f1 == Write("failure", "content")
               f2 == Write("failure", "canonicalization")
    <3>1. f1 \in Seq(S) /\ f2 \in Seq(S) /\ (Writes(job, pol) = ran \o f1 \/ Writes(job, pol) = ran \o f2)
      BY <2>1, <2>2
    <3> HIDE DEF f1, f2
    <3>2. /\ ran \o f1 \in Seq(S) /\ (ran \o f1)[1] = ran[1]
          /\ ran \o f2 \in Seq(S) /\ (ran \o f2)[1] = ran[1]
      BY <2>3, <3>1
    <3> QED BY <3>1, <3>2
  <2> QED BY <1>3, <1>5, <2>4
<1>8. CASE BeforeTheRun(job) = Proceeds /\ ContentAccepted(job) /\ report.ok
  <2> DEFINE last == Write("receipt", Receipt(job, pol, report))
             canon == Write("canonical", Capped(report.lines))
  <2>1. last \in Seq(S)
    <3>1. Completes(job)
      BY <1>8 DEF Completes
    <3>2. done \in S
      BY <3>1 DEF WritesOf
    <3> HIDE DEF S
    <3> QED BY <3>2, Single
  <2>2. Writes(job, pol) = ((ran \o middle) \o canon) \o last
    BY <1>8 DEF Writes
  <2>3. canon \in Seq(S)
    BY <1>4
  <2> HIDE DEF S, ran, middle, last, canon
  <2>4. ran \o middle \in Seq(S) /\ (ran \o middle)[1] = ran[1] /\ ran \o middle # <<>>
    BY <1>3, <1>4, Chained
  <2>5. (ran \o middle) \o canon \in Seq(S) /\ ((ran \o middle) \o canon)[1] = ran[1] /\ (ran \o middle) \o canon # <<>>
    BY <2>3, <2>4, Chained
  <2>6. Writes(job, pol) \in Seq(S) /\ Writes(job, pol)[1] = ran[1]
    BY <2>1, <2>2, <2>5, Chained
  <2> QED BY <1>3, <1>5, <2>6
<1> QED BY <1>6, <1>7, <1>8

-----------------------------------------------------------------------------
(* No directory has anything that a capture did not put there in its order. *)
LEMMA PairInit == Init => PairInv
<1> SUFFICES ASSUME Init PROVE PairInv
  OBVIOUS
<1>1. /\ dirs = [d \in Sides |-> dirs[d]] /\ pending = [d \in Sides |-> pending[d]]
      /\ running = [d \in Sides |-> running[d]] /\ completed = [d \in Sides |-> completed[d]]
  BY DEF Init
<1>2. ASSUME NEW d \in Sides
      PROVE  /\ IsDir(dirs[d]) /\ OutputsAreSomeJobs(dirs[d]) /\ ReceiptsAreOfCompleted(dirs[d], completed[d])
             /\ pending[d] = <<>>
  <2>1. dirs[d] = EmptyDir /\ pending[d] = <<>>
    BY DEF Init
  <2>2. IsDir(EmptyDir) /\ ~EmptyDir.out.present /\ ~EmptyDir.receipt.present
    BY DEF IsDir, EmptyDir, Files, Absent
  <2> QED BY <2>1, <2>2 DEF OutputsAreSomeJobs, ReceiptsAreOfCompleted
<1> QED BY <1>1, <1>2 DEF PairInv

(* One file more in a directory, and what that makes of the captures.       *)
WriterOK(dir, done, q, job) ==
    IsDir(dir) /\ OutputsAreSomeJobs(dir) /\ ReceiptsAreOfCompleted(dir, done) /\ PendingOf(q, dir, job)
PutFile(dir, w) == [dir EXCEPT ![w.file] = File(w.content)]
Completing(done, w, job) == IF w.file = "receipt" THEN done \cup {job} ELSE done

LEMMA FileWritten ==
  ASSUME NEW dir, NEW job \in Jobs, NEW done, NEW q, q # <<>>, WriterOK(dir, done, q, job)
  PROVE  WriterOK(PutFile(dir, Head(q)), Completing(done, Head(q), job), Tail(q), job)
<1> DEFINE after == PutFile(dir, Head(q))
           doneAfter == Completing(done, Head(q), job)
           rest == Tail(q)
<1>0. IsDir(dir) /\ OutputsAreSomeJobs(dir) /\ ReceiptsAreOfCompleted(dir, done) /\ PendingOf(q, dir, job)
  BY DEF WriterOK
<1> DEFINE w == Head(q)
<1>1. PICK pol : q \in Seq(WritesOf(job, pol)) /\ OutputComesFirst(q, dir)
  BY <1>0 DEF PendingOf
<1>2. /\ w \in WritesOf(job, pol) /\ w = q[1] /\ 1 \in DOMAIN q
      /\ rest \in Seq(WritesOf(job, pol)) /\ \A i \in DOMAIN rest : i + 1 \in DOMAIN q /\ rest[i] = q[i + 1]
  <2> DEFINE S == WritesOf(job, pol)
  <2>1. q \in Seq(S)
    BY <1>1
  <2> HIDE DEF S
  <2>2. w \in S /\ w = q[1] /\ 1 \in DOMAIN q /\ rest \in Seq(S) /\ \A i \in DOMAIN rest : i + 1 \in DOMAIN q /\ rest[i] = q[i + 1]
    BY <2>1
  <2> QED BY <2>2 DEF S
<1>3. /\ w.file \in Files
      /\ w.file = "out" => w.content = job.output
      /\ w.file = "receipt" => Completes(job) /\ w.content = Receipt(job, pol, Report(job.case, job.output))
  <2> DEFINE report == Report(job.case, job.output)
             named == {"err", "content", "canonreport", "canonical", "failure"}
  <2>1. CASE w = [file |-> "out", content |-> job.output]
    BY <2>1 DEF Files
  <2>2. CASE \E f \in named : \E c : w = [file |-> f, content |-> c]
    BY <2>2 DEF Files
  <2>3. CASE w = [file |-> "receipt", content |-> Receipt(job, pol, report)] /\ Completes(job)
    BY <2>3 DEF Files
  <2>4. \/ w = [file |-> "out", content |-> job.output]
        \/ \E f \in named : \E c : w = [file |-> f, content |-> c]
        \/ w = [file |-> "receipt", content |-> Receipt(job, pol, report)] /\ Completes(job)
    BY <1>2 DEF WritesOf
  <2> QED BY <2>1, <2>2, <2>3, <2>4
<1>4. \A f \in Files : after[f] = IF f = w.file THEN File(w.content) ELSE dir[f]
  BY <1>0, <1>3 DEF IsDir, PutFile
<1>5. /\ after.out = (IF w.file = "out" THEN File(w.content) ELSE dir.out)
      /\ after.receipt = IF w.file = "receipt" THEN File(w.content) ELSE dir.receipt
  <2>1. "out" \in Files /\ "receipt" \in Files
    BY DEF Files
  <2>2. /\ after["out"] = (IF w.file = "out" THEN File(w.content) ELSE dir["out"])
        /\ after["receipt"] = IF w.file = "receipt" THEN File(w.content) ELSE dir["receipt"]
    BY <1>4, <2>1
  <2> QED BY <2>2
<1>6. IsDir(after)
  BY <1>0 DEF IsDir, PutFile
<1>6a. doneAfter = IF w.file = "receipt" THEN done \cup {job} ELSE done
  BY DEF Completing
<1> HIDE DEF w, after, doneAfter
<1>7. OutputsAreSomeJobs(after)
  <2>1. CASE w.file = "out"
    BY <1>3, <1>5, <2>1 DEF OutputsAreSomeJobs, File
  <2>2. CASE w.file # "out"
    BY <1>0, <1>5, <2>2 DEF OutputsAreSomeJobs
  <2> QED BY <2>1, <2>2
<1>8. dir.out.present => after.out.present
  BY <1>5 DEF File
<1>9. ReceiptsAreOfCompleted(after, doneAfter)
  <2>1. CASE w.file = "receipt"
    <3>1. dir.out.present
      <4>1. q[1].file = "receipt"
        BY <1>2, <2>1
      <4> QED BY <1>1, <1>2, <4>1 DEF OutputComesFirst
    <3>2. job \in doneAfter /\ job \in Jobs
      BY <1>6a, <2>1
    <3>3. after.receipt.content = Receipt(job, pol, Report(job.case, job.output)) /\ Completes(job)
      BY <1>3, <1>5, <2>1 DEF File
    <3> QED BY <1>8, <3>1, <3>2, <3>3 DEF ReceiptsAreOfCompleted
  <2>2. CASE w.file # "receipt"
    <3>1. after.receipt = dir.receipt /\ doneAfter = done
      BY <1>5, <1>6a, <2>2
    <3> QED BY <1>0, <1>8, <3>1 DEF ReceiptsAreOfCompleted
  <2> QED BY <2>1, <2>2
<1>10. OutputComesFirst(rest, after)
  <2> SUFFICES ASSUME NEW i \in DOMAIN rest, rest[i].file = "receipt" PROVE after.out.present
    BY DEF OutputComesFirst
  <2>1. dir.out.present \/ q[1].file = "out"
    BY <1>1, <1>2 DEF OutputComesFirst
  <2>2. CASE q[1].file = "out"
    BY <1>2, <1>5, <2>2 DEF File
  <2> QED BY <1>8, <2>1, <2>2
<1> QED BY <1>2, <1>6, <1>7, <1>9, <1>10 DEF PendingOf, WriterOK, after, doneAfter

(* Every step keeps what lies in the directories that way.                  *)
LEMMA PairStep == PairInv /\ [Next]_vars => PairInv'
<1> SUFFICES ASSUME PairInv, [Next]_vars PROVE PairInv'
  OBVIOUS
<1>0. /\ dirs = [d \in Sides |-> dirs[d]] /\ pending = [d \in Sides |-> pending[d]]
      /\ running = [d \in Sides |-> running[d]] /\ completed = [d \in Sides |-> completed[d]]
  BY DEF PairInv
<1>1. ASSUME NEW d \in Sides, NEW job \in Jobs, Start(d, job) PROVE PairInv'
  <2>1. /\ pending' = [pending EXCEPT ![d] = Writes(job, policy)] /\ running' = [running EXCEPT ![d] = <<job>>]
        /\ dirs' = dirs /\ completed' = completed
    BY <1>1 DEF Start
  <2>2. /\ dirs' = [e \in Sides |-> dirs'[e]] /\ pending' = [e \in Sides |-> pending'[e]]
        /\ running' = [e \in Sides |-> running'[e]] /\ completed' = [e \in Sides |-> completed'[e]]
    BY <1>0, <2>1
  <2>3. ASSUME NEW e \in Sides
        PROVE  /\ IsDir(dirs'[e]) /\ OutputsAreSomeJobs(dirs'[e]) /\ ReceiptsAreOfCompleted(dirs'[e], completed'[e])
               /\ pending'[e] # <<>> => \E k \in Jobs : running'[e] = <<k>> /\ PendingOf(pending'[e], dirs'[e], k)
    <3>1. CASE e = d
      <4>1. pending'[e] = Writes(job, policy) /\ running'[e] = <<job>>
        BY <1>0, <2>1, <3>1
      <4>2. PendingOf(Writes(job, policy), dirs'[e], job)
        BY WritesAreDue
      <4> QED BY <2>1, <4>1, <4>2 DEF PairInv
    <3>2. CASE e # d
      <4>1. pending'[e] = pending[e] /\ running'[e] = running[e]
        BY <1>0, <2>1, <3>2
      <4> QED BY <2>1, <4>1 DEF PairInv
    <3> QED BY <3>1, <3>2
  <2> QED BY <2>2, <2>3 DEF PairInv
<1>2. ASSUME NEW d \in Sides, WriteFile(d) PROVE PairInv'
  <2> DEFINE w == Head(pending[d])
  <2>1. PICK job \in Jobs : running[d] = <<job>> /\ PendingOf(pending[d], dirs[d], job)
    BY <1>2 DEF PairInv, WriteFile
  <2>2. /\ dirs' = [dirs EXCEPT ![d][w.file] = File(w.content)]
        /\ completed' = IF w.file = "receipt" THEN [completed EXCEPT ![d] = @ \cup {running[d][1]}] ELSE completed
        /\ pending' = [pending EXCEPT ![d] = Tail(@)] /\ running' = running /\ pending[d] # <<>>
    BY <1>2 DEF WriteFile
  <2>3. running[d][1] = job
    BY <2>1
  <2>4. /\ dirs'[d] = [dirs[d] EXCEPT ![w.file] = File(w.content)]
        /\ completed'[d] = (IF w.file = "receipt" THEN completed[d] \cup {job} ELSE completed[d])
        /\ pending'[d] = Tail(pending[d])
    BY <1>0, <2>2, <2>3
  <2>5. /\ dirs' = [e \in Sides |-> dirs'[e]] /\ pending' = [e \in Sides |-> pending'[e]]
        /\ running' = [e \in Sides |-> running'[e]] /\ completed' = [e \in Sides |-> completed'[e]]
    BY <1>0, <2>2
  <2>6. /\ IsDir(dirs'[d]) /\ OutputsAreSomeJobs(dirs'[d]) /\ ReceiptsAreOfCompleted(dirs'[d], completed'[d])
        /\ PendingOf(pending'[d], dirs'[d], job)
    <3>1. IsDir(dirs[d]) /\ OutputsAreSomeJobs(dirs[d]) /\ ReceiptsAreOfCompleted(dirs[d], completed[d])
      BY DEF PairInv
    <3>2. pending[d] # <<>> /\ WriterOK(dirs[d], completed[d], pending[d], job)
      BY <2>1, <2>2, <3>1 DEF WriterOK
    <3>3. dirs'[d] = PutFile(dirs[d], w) /\ completed'[d] = Completing(completed[d], w, job)
      BY <2>4 DEF PutFile, Completing
    <3>4. WriterOK(PutFile(dirs[d], w), Completing(completed[d], w, job), Tail(pending[d]), job)
      BY <3>2, FileWritten
    <3> QED BY <2>4, <3>3, <3>4 DEF WriterOK
  <2>7. ASSUME NEW e \in Sides
        PROVE  /\ IsDir(dirs'[e]) /\ OutputsAreSomeJobs(dirs'[e]) /\ ReceiptsAreOfCompleted(dirs'[e], completed'[e])
               /\ pending'[e] # <<>> => \E k \in Jobs : running'[e] = <<k>> /\ PendingOf(pending'[e], dirs'[e], k)
    <3>1. CASE e = d
      BY <2>1, <2>2, <2>6, <3>1
    <3>2. CASE e # d
      <4>1. pending'[e] = pending[e] /\ running'[e] = running[e] /\ dirs'[e] = dirs[e] /\ completed'[e] = completed[e]
        BY <1>0, <2>2, <3>2
      <4> QED BY <4>1 DEF PairInv
    <3> QED BY <3>1, <3>2
  <2> QED BY <2>5, <2>7 DEF PairInv
<1>3. ASSUME NEW d \in Sides, Die(d) PROVE PairInv'
  <2>1. pending' = [pending EXCEPT ![d] = <<>>] /\ dirs' = dirs /\ running' = running /\ completed' = completed
    BY <1>3 DEF Die
  <2>2. pending' = [e \in Sides |-> pending'[e]]
    BY <1>0, <2>1
  <2>3. \A e \in Sides : pending'[e] = <<>> \/ pending'[e] = pending[e]
    BY <1>0, <2>1
  <2> QED BY <2>1, <2>2, <2>3 DEF PairInv
<1>4. CASE EditPolicy \/ UNCHANGED vars
  <2>1. dirs' = dirs /\ pending' = pending /\ running' = running /\ completed' = completed
    BY <1>4 DEF EditPolicy, vars
  <2> QED BY <2>1 DEF PairInv
<1> QED BY <1>1, <1>2, <1>3, <1>4 DEF Next

LEMMA PairAlways == Spec => []PairInv
BY PairInit, PairStep, PTL DEF Spec

-----------------------------------------------------------------------------
(* What the canonicalizers keep of a line. *)

(* What the rules may make of a line: it, with other tokens.                *)
Tokens(line, rules) ==
    {line.hits[j].token : j \in DOMAIN line.hits} \cup {rules[n].placeholder : n \in DOMAIN rules}
Hits(line, rules) ==
    [trigger : {line.hits[j].trigger : j \in DOMAIN line.hits}, token : Tokens(line, rules)]
Marked(line, rules) ==
    {h \in [DOMAIN line.hits -> Hits(line, rules)] : \A j \in DOMAIN line.hits : h[j].trigger = line.hits[j].trigger}
Variants(line, rules) == {[line EXCEPT !.hits = h] : h \in Marked(line, rules)}
Results(line, rules) == {Refused} \cup {Accepted(l) : l \in Variants(line, rules)}

(* A line has four fields, and its places have two.                         *)
LEMMA LinesAreRecords ==
  ASSUME NEW line, IsLine(line)
  PROVE  /\ line = [kept |-> line.kept, whole |-> line.whole, hits |-> line.hits, nl |-> line.nl]
         /\ line.hits \in Seq(Range(line.hits)) /\ DOMAIN line.hits = 1..Len(line.hits) /\ Len(line.hits) \in Nat
         /\ \A j \in DOMAIN line.hits : line.hits[j] = [trigger |-> line.hits[j].trigger, token |-> line.hits[j].token]
<1>1. line.hits \in Seq(Range(line.hits)) /\ \A hit \in Range(line.hits) : hit = [trigger |-> hit.trigger, token |-> hit.token]
  BY DEF IsLine
<1>2. DOMAIN line.hits = 1..Len(line.hits) /\ Len(line.hits) \in Nat
  BY <1>1
<1>3. \A j \in DOMAIN line.hits : line.hits[j] \in Range(line.hits)
  BY DEF Range
<1> QED BY <1>1, <1>2, <1>3 DEF IsLine

(* A variant is the line but for its tokens, and the line is one.           *)
LEMMA AVariant ==
  ASSUME NEW line, IsLine(line), NEW rules, NEW l \in Variants(line, rules)
  PROVE  /\ l.hits \in Marked(line, rules)
         /\ l = [kept |-> line.kept, whole |-> line.whole, hits |-> l.hits, nl |-> line.nl]
         /\ WithoutTokens(l) = WithoutTokens(line)
<1>1. line = [kept |-> line.kept, whole |-> line.whole, hits |-> line.hits, nl |-> line.nl]
  BY LinesAreRecords
<1>2. PICK h \in Marked(line, rules) : l = [line EXCEPT !.hits = h]
  BY DEF Variants
<1>3. l.hits = h /\ l = [kept |-> line.kept, whole |-> line.whole, hits |-> h, nl |-> line.nl]
  BY <1>1, <1>2
<1>4. DOMAIN h = DOMAIN line.hits /\ \A j \in DOMAIN line.hits : h[j].trigger = line.hits[j].trigger
  BY DEF Marked
<1>5. [j \in DOMAIN h |-> [trigger |-> h[j].trigger, token |-> "*"]]
        = [j \in DOMAIN line.hits |-> [trigger |-> line.hits[j].trigger, token |-> "*"]]
  BY <1>4
<1>6. WithoutTokens(l) = [kept |-> line.kept, whole |-> line.whole, nl |-> line.nl,
                          hits |-> [j \in DOMAIN h |-> [trigger |-> h[j].trigger, token |-> "*"]]]
  <2> DEFINE X == [j \in DOMAIN h |-> [trigger |-> h[j].trigger, token |-> "*"]]
  <2>1. WithoutTokens(l) = [l EXCEPT !.hits = [j \in DOMAIN l.hits |-> [trigger |-> l.hits[j].trigger, token |-> "*"]]]
    BY Zenon DEF WithoutTokens
  <2>2. WithoutTokens(l) = [l EXCEPT !.hits = X]
    <3>1. l.hits = h
      BY <1>3
    <3> QED BY <2>1, <3>1, Zenon
  <2> HIDE DEF X
  <2>3. [l EXCEPT !.hits = X] = [kept |-> line.kept, whole |-> line.whole, nl |-> line.nl, hits |-> X]
    BY <1>3
  <2> QED BY <2>2, <2>3 DEF X
<1>7. WithoutTokens(line) = [kept |-> line.kept, whole |-> line.whole, nl |-> line.nl,
                          hits |-> [j \in DOMAIN line.hits |-> [trigger |-> line.hits[j].trigger, token |-> "*"]]]
  BY <1>1 DEF WithoutTokens
<1> QED BY <1>2, <1>3, <1>5, <1>6, <1>7

LEMMA TheLineItself ==
  ASSUME NEW line, IsLine(line), NEW rules
  PROVE  line \in Variants(line, rules)
<1>1. /\ line = [kept |-> line.kept, whole |-> line.whole, hits |-> line.hits, nl |-> line.nl]
      /\ DOMAIN line.hits = 1..Len(line.hits)
      /\ \A j \in DOMAIN line.hits : line.hits[j] = [trigger |-> line.hits[j].trigger, token |-> line.hits[j].token]
  BY LinesAreRecords
<1>2. \A j \in DOMAIN line.hits : line.hits[j] \in Hits(line, rules)
  <2> SUFFICES ASSUME NEW j \in DOMAIN line.hits PROVE line.hits[j] \in Hits(line, rules)
    OBVIOUS
  <2>1. line.hits[j].token \in Tokens(line, rules)
    BY DEF Tokens
  <2> DEFINE t == line.hits[j].token
  <2>2. t \in Tokens(line, rules)
    BY <2>1
  <2> HIDE DEF t
  <2>3. [trigger |-> line.hits[j].trigger, token |-> t] \in Hits(line, rules)
    BY <2>2 DEF Hits
  <2>4. line.hits[j] = [trigger |-> line.hits[j].trigger, token |-> t]
    BY <1>1 DEF t
  <2> QED BY <2>3, <2>4
<1>3. line.hits = [j \in DOMAIN line.hits |-> line.hits[j]]
  <2>1. line.hits \in Seq(Range(line.hits))
    BY LinesAreRecords
  <2> QED BY <2>1
<1>4. line.hits \in Marked(line, rules)
  BY <1>2, <1>3 DEF Marked
<1>5. line = [line EXCEPT !.hits = line.hits]
  BY <1>1
<1> QED BY <1>4, <1>5 DEF Variants

(* An anchored rule changes a token at most. *)
LEMMA AnchoredVariant ==
  ASSUME NEW line, IsLine(line), NEW rules, NEW l \in Variants(line, rules), NEW n \in DOMAIN rules
  PROVE  ApplyAnchored(rules[n], l) \in Results(line, rules)
<1> DEFINE p == rules[n].placeholder
           told == [l EXCEPT !.hits[1].token = p]
           h == [l.hits EXCEPT ![1] = [l.hits[1] EXCEPT !.token = p]]
<1>1. /\ l.hits \in Marked(line, rules)
      /\ l = [kept |-> line.kept, whole |-> line.whole, hits |-> l.hits, nl |-> line.nl]
  BY AVariant
<1>2. /\ line = [kept |-> line.kept, whole |-> line.whole, hits |-> line.hits, nl |-> line.nl]
      /\ \A j \in DOMAIN line.hits : line.hits[j] = [trigger |-> line.hits[j].trigger, token |-> line.hits[j].token]
  BY LinesAreRecords
<1>3. l.hits \in [DOMAIN line.hits -> Hits(line, rules)] /\ \A j \in DOMAIN line.hits : l.hits[j].trigger = line.hits[j].trigger
  BY <1>1 DEF Marked
<1>4. ASSUME NEW j \in DOMAIN line.hits PROVE h[j] \in Hits(line, rules) /\ h[j].trigger = line.hits[j].trigger
  <2>1. CASE j = 1
    <3>1. l.hits[1] \in Hits(line, rules) /\ l.hits[1].trigger = line.hits[1].trigger
      BY <1>3, <2>1
    <3>2. h[1] = [l.hits[1] EXCEPT !.token = p]
      BY <1>3, <2>1
    <3>3. l.hits[1] = [trigger |-> l.hits[1].trigger, token |-> l.hits[1].token]
      BY <3>1 DEF Hits
    <3>4. h[1] = [trigger |-> line.hits[1].trigger, token |-> p]
      BY <3>1, <3>2, <3>3
    <3>5. p \in Tokens(line, rules)
      BY DEF Tokens
    <3> HIDE DEF h, p
    <3> QED BY <2>1, <3>4, <3>5 DEF Hits
  <2>2. CASE j # 1
    <3>1. h[j] = l.hits[j]
      BY <1>3, <2>2
    <3> HIDE DEF h
    <3> QED BY <1>3, <3>1
  <2> QED BY <2>1, <2>2
<1>5. h \in Marked(line, rules)
  <2>1. h = [j \in DOMAIN line.hits |-> h[j]]
    BY <1>3
  <2> HIDE DEF h
  <2> QED BY <1>4, <2>1 DEF Marked
<1>6. told = [line EXCEPT !.hits = h]
  <2>1. told = [l EXCEPT !.hits = h]
    BY <1>1
  <2> HIDE DEF h
  <2> QED BY <1>1, <1>2, <2>1
<1>7. told \in Variants(line, rules)
  <2> HIDE DEF told, h
  <2> QED BY <1>5, <1>6 DEF Variants
<1>8. \/ ApplyAnchored(rules[n], l) = Accepted(l) \/ ApplyAnchored(rules[n], l) = Accepted(told)
      \/ ApplyAnchored(rules[n], l) = Refused
  BY DEF ApplyAnchored
<1> HIDE DEF told
<1> QED BY <1>7, <1>8 DEF Results

(* Whatever the rules, one after the other, a line comes out as a variant. *)
LEMMA AllRulesVariant ==
  ASSUME NEW line, IsLine(line), NEW rules, Len(rules) \in Nat, DOMAIN rules = 1..Len(rules)
  PROVE  ApplyAll(rules, TRUE, line) \in Results(line, rules)
<1> DEFINE V == Results(line, rules)
           base == Accepted(line)
           step(n, r) == IF r.ok THEN Apply(rules[n], TRUE, r.line) ELSE r
           G == [p \in (1..Len(rules)) \X V |-> step(p[1], p[2])]
           IsTheFold(h) == h = [n \in 0..Len(rules) |->
                                  IF n = 0 THEN Accepted(line)
                                  ELSE IF h[n - 1].ok THEN Apply(rules[n], TRUE, h[n - 1].line) ELSE h[n - 1]]
           f == CHOOSE h : IsTheFold(h)
<1>1. base \in V
  BY TheLineItself DEF Results
<1>2. ASSUME NEW n \in 1..Len(rules), NEW v \in V PROVE step(n, v) \in V
  <2>1. CASE v = Refused
    BY <2>1 DEF Refused
  <2>2. CASE v # Refused
    <3>1. PICK l \in Variants(line, rules) : v = Accepted(l)
      BY <2>2 DEF Results
    <3>2. v.ok /\ v.line = l
      BY <3>1 DEF Accepted
    <3>3. step(n, v) = ApplyAnchored(rules[n], l)
      BY <3>2 DEF Apply
    <3> HIDE DEF step
    <3> QED BY <3>3, AnchoredVariant
  <2> QED BY <2>1, <2>2
<1>3. G \in Rules(Len(rules), V)
  <2> HIDE DEF V, step
  <2> QED BY <1>2 DEF Rules
<1>4. PICK g \in Runs1(Len(rules), V) : Follows(g, Len(rules), base, G)
  <2> HIDE DEF G, V, base
  <2> QED BY <1>1, <1>3, RecursionExists
<1>5. IsTheFold(g)
  <2>1. /\ g \in [0..Len(rules) -> V] /\ g[0] = base
        /\ \A n \in 1..Len(rules) : g[n] = G[<<n, g[n - 1]>>]
    <3> HIDE DEF G, V, base
    <3> QED BY <1>4 DEF Runs1, Follows
  <2>2. ASSUME NEW n \in 1..Len(rules) PROVE g[n] = step(n, g[n - 1])
    <3>1. n - 1 \in 0..Len(rules)
      OBVIOUS
    <3>2. g[n - 1] \in V
      <4> HIDE DEF V
      <4> QED BY <2>1, <3>1
    <3>3. <<n, g[n - 1]>> \in (1..Len(rules)) \X V
      BY <3>2
    <3> HIDE DEF V, step
    <3> QED BY <2>1, <3>3
  <2>3. ASSUME NEW n \in 0..Len(rules)
        PROVE  g[n] = IF n = 0 THEN Accepted(line)
                      ELSE IF g[n - 1].ok THEN Apply(rules[n], TRUE, g[n - 1].line) ELSE g[n - 1]
    <3>1. CASE n = 0
      BY <2>1, <3>1
    <3>2. CASE n # 0
      <4>1. n \in 1..Len(rules)
        BY <3>2
      <4> QED BY <2>2, <3>2, <4>1
    <3> QED BY <3>1, <3>2
  <2> HIDE DEF V, G
  <2> QED BY <2>1, <2>3
<1>6. IsTheFold(f)
  BY <1>5
<1>7. ApplyAll(rules, TRUE, line) = f[Len(rules)]
  BY DEF ApplyAll
<1> HIDE DEF f
<1>8. \A n \in 0..Len(rules) : n \in {m \in 0..Len(rules) : f[m] \in V}
  <2> DEFINE P == {m \in 0..Len(rules) : f[m] \in V}
  <2>1. 0 \in P
    <3>1. f[0] = base
      BY <1>6
    <3> HIDE DEF V
    <3> QED BY <1>1, <3>1
  <2>2. ASSUME NEW n \in 1..Len(rules), n - 1 \in P PROVE n \in P
    <3>1. n \in 0..Len(rules) /\ n # 0
      OBVIOUS
    <3>2. f[n] = step(n, f[n - 1])
      BY <1>6, <3>1
    <3>3. f[n - 1] \in V
      BY <2>2
    <3> HIDE DEF V, step
    <3> QED BY <1>2, <3>1, <3>2, <3>3
  <2> HIDE DEF P
  <2>3. \A n \in 0..Len(rules) : n \in P
    BY <2>1, <2>2, Climbs
  <2> QED BY <2>3 DEF P
<1>9. f[Len(rules)] \in V
  BY <1>8
<1> QED BY <1>7, <1>9

(* The lines that an accepted text has, one by one, with other tokens.      *)
AsManyLines(lines, told) ==
    /\ told \in Seq(Range(told)) /\ Len(told) = Len(lines)
    /\ \A i \in 1..Len(lines) : WithoutTokens(told[i]) = WithoutTokens(lines[i])

(* A text is a sequence of lines.                                           *)
LEMMA TextsHaveLines ==
  ASSUME NEW text, IsText(text)
  PROVE  /\ DOMAIN text.lines = 1..Len(text.lines) /\ Len(text.lines) \in Nat
         /\ \A i \in 1..Len(text.lines) : IsLine(text.lines[i])
<1>1. text.lines \in Seq(Range(text.lines)) /\ \A line \in Range(text.lines) : IsLine(line)
  BY DEF IsText
<1>2. DOMAIN text.lines = 1..Len(text.lines) /\ Len(text.lines) \in Nat
  BY <1>1
<1> QED BY <1>1, <1>2 DEF Range

(* A function on the first n numbers is a sequence of length n.             *)
LEMMA FunctionsAreSequences ==
  ASSUME NEW n \in Nat, NEW told, told = [i \in 1..n |-> told[i]]
  PROVE  told \in Seq(Range(told)) /\ Len(told) = n /\ DOMAIN told = 1..n
<1>1. told \in [1..n -> Range(told)]
  BY DEF Range
<1> QED BY <1>1

(* Rule by rule, a text that is accepted keeps its lines.                   *)
LEMMA RulesKeepLines ==
  ASSUME NEW rules, Len(rules) \in Nat, DOMAIN rules = 1..Len(rules), NEW text, IsText(text),
         Canonicalize(rules, TRUE, text).ok
  PROVE  AsManyLines(text.lines, Canonicalize(rules, TRUE, text).lines)
<1> DEFINE out == [i \in DOMAIN text.lines |-> ApplyAll(rules, TRUE, text.lines[i])]
           told == [i \in DOMAIN out |-> out[i].line]
           n == Len(text.lines)
<1>1. DOMAIN text.lines = 1..n /\ n \in Nat /\ \A i \in 1..n : IsLine(text.lines[i])
  BY TextsHaveLines
<1>2. Canonicalize(rules, TRUE, text).lines = told /\ \A i \in DOMAIN out : out[i].ok
  BY DEF Canonicalize, RefusedText
<1>3. told = [i \in 1..n |-> told[i]] /\ DOMAIN out = 1..n
  BY <1>1
<1>4. told \in Seq(Range(told)) /\ Len(told) = n
  <2> HIDE DEF told, n
  <2> QED BY <1>1, <1>3, FunctionsAreSequences
<1>5. ASSUME NEW i \in 1..n PROVE WithoutTokens(told[i]) = WithoutTokens(text.lines[i])
  <2> DEFINE line == text.lines[i]
  <2>1. out[i] = ApplyAll(rules, TRUE, line) /\ out[i].ok /\ told[i] = out[i].line
    BY <1>1, <1>2
  <2>2. IsLine(line)
    BY <1>1
  <2>3. ApplyAll(rules, TRUE, line) \in Results(line, rules)
    <3> HIDE DEF line
    <3> QED BY <2>2, AllRulesVariant
  <2>4. PICK l \in Variants(line, rules) : out[i] = Accepted(l)
    <3> HIDE DEF out, told, line
    <3>1. out[i] \in Results(line, rules) /\ out[i].ok
      BY <2>1, <2>3
    <3>2. out[i] # Refused
      BY <3>1 DEF Refused
    <3> QED BY <3>1, <3>2 DEF Results
  <2>5. told[i] = l
    <3> HIDE DEF out, told, line
    <3>1. out[i].line = l
      BY <2>4 DEF Accepted
    <3> QED BY <2>1, <3>1
  <2> HIDE DEF told, line, out
  <2> QED BY <2>2, <2>5, AVariant DEF line
<1> HIDE DEF told, n
<1> QED BY <1>2, <1>4, <1>5 DEF AsManyLines, n

(* Gradle has one rule, whose token is in two parts. *)
LEMMA GradleKeepsALine ==
  ASSUME NEW rule, NEW durations, NEW line, IsLine(line), ApplyGradle(rule, durations, line).ok
  PROVE  WithoutTokens(ApplyGradle(rule, durations, line).line) = WithoutTokens(line)
<1> DEFINE token == [kind |-> "placeholder", duration |-> Unprinted]
           h == [line.hits EXCEPT ![1] = [line.hits[1] EXCEPT !.token = token]]
           told == [line EXCEPT !.hits[1].token = token]
           bare(g) == [j \in DOMAIN g |-> [trigger |-> g[j].trigger, token |-> "*"]]
<1>1. /\ line = [kept |-> line.kept, whole |-> line.whole, hits |-> line.hits, nl |-> line.nl]
      /\ line.hits \in Seq(Range(line.hits)) /\ DOMAIN line.hits = 1..Len(line.hits) /\ Len(line.hits) \in Nat
      /\ \A j \in DOMAIN line.hits : line.hits[j] = [trigger |-> line.hits[j].trigger, token |-> line.hits[j].token]
  BY LinesAreRecords
<1>2. ApplyGradle(rule, durations, line) = Accepted(line)
        \/ (line.hits # <<>> /\ ApplyGradle(rule, durations, line) = Accepted(told))
  BY DEF ApplyGradle, Refused
<1>3. CASE ApplyGradle(rule, durations, line) = Accepted(line)
  BY <1>3 DEF Accepted
<1>4. CASE line.hits # <<>> /\ ApplyGradle(rule, durations, line) = Accepted(told)
  <2>1. 1 \in DOMAIN line.hits
    BY <1>1, <1>4
  <2>2. told = [line EXCEPT !.hits = h]
    BY <1>1, <2>1
  <2>3. DOMAIN h = DOMAIN line.hits /\ \A j \in DOMAIN line.hits : h[j].trigger = line.hits[j].trigger
    <3>1. h[1] = [line.hits[1] EXCEPT !.token = token]
      BY <2>1
    <3>2. h[1].trigger = line.hits[1].trigger
      <4> HIDE DEF h, token
      <4>1. line.hits[1] = [trigger |-> line.hits[1].trigger, token |-> line.hits[1].token]
        BY <1>1, <2>1
      <4> QED BY <3>1, <4>1
    <3>3. \A j \in DOMAIN line.hits : j # 1 => h[j] = line.hits[j]
      OBVIOUS
    <3>4. DOMAIN h = DOMAIN line.hits
      OBVIOUS
    <3> HIDE DEF h
    <3> QED BY <3>2, <3>3, <3>4
  <2> HIDE DEF h, told
  <2>4. bare(h) = bare(line.hits)
    BY <2>3
  <2>5. told = [kept |-> line.kept, whole |-> line.whole, hits |-> h, nl |-> line.nl]
    BY <1>1, <2>2
  <2>6. ASSUME NEW g, NEW l, l = [kept |-> line.kept, whole |-> line.whole, hits |-> g, nl |-> line.nl]
        PROVE  WithoutTokens(l) = [kept |-> line.kept, whole |-> line.whole, hits |-> bare(g), nl |-> line.nl]
    <3>1. WithoutTokens(l) = [l EXCEPT !.hits = bare(l.hits)]
      BY Zenon DEF WithoutTokens
    <3>2. l.hits = g
      BY <2>6
    <3>3. WithoutTokens(l) = [l EXCEPT !.hits = bare(g)]
      BY <3>1, <3>2, Zenon
    <3> HIDE DEF bare
    <3> QED BY <2>6, <3>3
  <2>7. WithoutTokens(told) = WithoutTokens(line)
    <3> HIDE DEF bare
    <3>1. WithoutTokens(told) = [kept |-> line.kept, whole |-> line.whole, hits |-> bare(h), nl |-> line.nl]
      BY <2>5, <2>6
    <3>2. WithoutTokens(line) = [kept |-> line.kept, whole |-> line.whole, hits |-> bare(line.hits), nl |-> line.nl]
      BY <1>1, <2>6, Zenon
    <3> QED BY <2>4, <3>1, <3>2
  <2> QED BY <1>4, <2>7 DEF Accepted
<1> QED BY <1>2, <1>3, <1>4

LEMMA GradleKeepsLines ==
  ASSUME NEW rule, NEW durations, NEW text, IsText(text), CanonicalizeGradle(rule, durations, text).ok
  PROVE  AsManyLines(text.lines, CanonicalizeGradle(rule, durations, text).lines)
<1> DEFINE out == [i \in DOMAIN text.lines |-> ApplyGradle(rule, durations, text.lines[i])]
           told == [i \in DOMAIN out |-> out[i].line]
           n == Len(text.lines)
<1>1. DOMAIN text.lines = 1..n /\ n \in Nat /\ \A i \in 1..n : IsLine(text.lines[i])
  BY TextsHaveLines
<1>2. CanonicalizeGradle(rule, durations, text).lines = told /\ \A i \in DOMAIN out : out[i].ok
  BY DEF CanonicalizeGradle, RefusedText
<1>3. told = [i \in 1..n |-> told[i]] /\ DOMAIN out = 1..n
  BY <1>1
<1>4. told \in Seq(Range(told)) /\ Len(told) = n
  <2> HIDE DEF told, n
  <2> QED BY <1>1, <1>3, FunctionsAreSequences
<1>5. ASSUME NEW i \in 1..n PROVE WithoutTokens(told[i]) = WithoutTokens(text.lines[i])
  <2>1. /\ ApplyGradle(rule, durations, text.lines[i]).ok
        /\ told[i] = ApplyGradle(rule, durations, text.lines[i]).line
    BY <1>1, <1>2
  <2> QED BY <1>1, <2>1, GradleKeepsALine
<1> HIDE DEF told, n
<1> QED BY <1>2, <1>4, <1>5 DEF AsManyLines, n

(* But for the case whose lines come in either order, a report's canonical  *)
(* lines are the raw ones.                                                  *)
LEMMA ReportsKeepLines ==
  ASSUME NEW case, NEW text, IsText(text), case # "repo-kubeops-generator", Report(case, text).ok
  PROVE  AsManyLines(text.lines, Report(case, text).lines)
<1>1. /\ Len(MavenRules) \in Nat /\ DOMAIN MavenRules = 1..Len(MavenRules)
      /\ Len(CargoRules) \in Nat /\ DOMAIN CargoRules = 1..Len(CargoRules)
      /\ Len(PytestDurationRules) \in Nat /\ DOMAIN PytestDurationRules = 1..Len(PytestDurationRules)
  BY DEF MavenRules, CargoRules, PytestDurationRules
<1>2. CASE case \notin Canonicalized
  <2>1. Report(case, text).lines = text.lines
    BY <1>2 DEF Report
  <2>2. text.lines \in Seq(Range(text.lines))
    BY DEF IsText
  <2> QED BY <2>1, <2>2 DEF AsManyLines
<1>3. CASE case = "repo-docker-java-parser"
  <2>1. Report(case, text) = Canonicalize(MavenRules, TRUE, text)
    BY <1>3 DEF Report, Canonicalized, CanonicalFor, CanonicalizeMaven
  <2> QED BY <1>1, <2>1, RulesKeepLines
<1>4. CASE case \in {"repo-rustlings", "repo-dockerfile-parser-rs"}
  <2>1. Report(case, text) = Canonicalize(CargoRules, TRUE, text)
    BY <1>4 DEF Report, Canonicalized, CanonicalFor, CanonicalizeCargo
  <2> QED BY <1>1, <2>1, RulesKeepLines
<1>5. CASE case = "repo-requests"
  <2>1. Report(case, text) = Canonicalize(PytestDurationRules, TRUE, text)
    BY <1>5 DEF Report, Canonicalized, CanonicalFor, CanonicalizePytestDuration
  <2> QED BY <1>1, <2>1, RulesKeepLines
<1>6. CASE case = "repo-moshi"
  <2>1. Report(case, text) = CanonicalizeGradle(GradleRuleV2, GradleDurationsV2, text)
    BY <1>6 DEF Report, Canonicalized, CanonicalFor, CanonicalizeGradleV2
  <2> QED BY <2>1, GradleKeepsLines
<1>7. CASE case = "repo-helm-values"
  <2>1. Report(case, text) = CanonicalizeGradle(GradleRuleHelmValues, GradleDurationsHelmValues, text)
    BY <1>7 DEF Report, Canonicalized, CanonicalFor, CanonicalizeGradleHelmValues
  <2> QED BY <2>1, GradleKeepsLines
<1> QED BY <1>2, <1>3, <1>4, <1>5, <1>6, <1>7 DEF Canonicalized

-----------------------------------------------------------------------------
(* What a pair that passes is. *)

(* What a valid directory is: the bytes and the receipt of one capture that *)
(* completed there.                                                         *)
ACaptureOf(job, dir, pol, intact) ==
    /\ Completes(job) /\ job.output = dir.out.content
    /\ Rederived(dir) = Report(job.case, job.output)
    /\ \E p : dir.receipt.content = Receipt(job, p, Report(job.case, job.output))
    /\ job.case \in Canonicalized => intact /\ job.case \in pol.body.cases /\ dir.receipt.content.policy = <<pol>>
LEMMA ValidMeansCompleted ==
  ASSUME NEW dir, NEW done, NEW pol, NEW intact,
         OutputsAreSomeJobs(dir), ReceiptsAreOfCompleted(dir, done), CaptureValid(dir, pol, intact)
  PROVE  \E job \in done \cap Jobs : ACaptureOf(job, dir, pol, intact)
<1> DEFINE r == dir.receipt.content
<1>1. /\ dir.receipt.present /\ r.raw = RawOf(dir).lines
      /\ r.derivation # "raw-capped-stream" => intact /\ r.policy = <<pol>> /\ r.case \in pol.body.cases
  BY DEF CaptureValid
<1>2. dir.out.present
  BY <1>1 DEF ReceiptsAreOfCompleted
<1>3. PICK job \in done \cap Jobs : \E p : Completes(job) /\ r = Receipt(job, p, Report(job.case, job.output))
  BY <1>1 DEF ReceiptsAreOfCompleted
<1>4. PICK p : Completes(job) /\ r = Receipt(job, p, Report(job.case, job.output))
  BY <1>3
<1>5. /\ r.raw = job.output.lines /\ r.case = job.case
      /\ job.case \in Canonicalized => r.derivation # "raw-capped-stream"
  BY <1>4 DEF Receipt, DerivationOf
<1>6. RawOf(dir) = dir.out.content
  BY <1>2 DEF RawOf
<1>7. PICK k \in Jobs : dir.out.content = k.output
  BY <1>2 DEF OutputsAreSomeJobs
<1>8. job.output = dir.out.content
  <2>1. job.output.lines = k.output.lines
    BY <1>1, <1>5, <1>6, <1>7
  <2> QED BY <1>7, <2>1, BytesAssumption
<1>9. Rederived(dir) = Report(job.case, job.output)
  <2>1. Rederived(dir) = Report(r.case, RawOf(dir))
    BY DEF Rederived
  <2> QED BY <1>5, <1>6, <1>8, <2>1
<1>10. job.case \in Canonicalized => intact /\ job.case \in pol.body.cases /\ r.policy = <<pol>>
  BY <1>1, <1>5
<1> QED BY <1>4, <1>8, <1>9, <1>10 DEF ACaptureOf

(* Two texts whose canonical lines are alike as far as they are kept differ *)
(* in tokens only, as far as they are kept.                                 *)
Bare(lines) == LET kept == Capped(lines) IN [i \in DOMAIN kept |-> WithoutTokens(kept[i])]
LEMMA BareOfTold ==
  ASSUME NEW text, IsText(text), NEW told, AsManyLines(text.lines, told)
  PROVE  Bare(text.lines) = Bare(told)
<1> DEFINE n == Len(text.lines)
           m == IF n <= ByteCap THEN n ELSE ByteCap
<1>1. /\ text.lines \in Seq(Range(text.lines)) /\ told \in Seq(Range(told)) /\ Len(told) = n /\ n \in Nat
      /\ \A i \in 1..n : WithoutTokens(told[i]) = WithoutTokens(text.lines[i])
  BY TextsHaveLines DEF IsText, AsManyLines
<1>2. m \in Nat /\ m <= n
  BY <1>1, ByteCapAssumption
<1>3. Capped(text.lines) = SubSeq(text.lines, 1, m) /\ Capped(told) = SubSeq(told, 1, m)
  BY <1>1 DEF Capped
<1> HIDE DEF m, n
<1>4. ASSUME NEW s, s \in Seq(Range(s)), m <= Len(s)
      PROVE  DOMAIN SubSeq(s, 1, m) = 1..m /\ \A i \in 1..m : SubSeq(s, 1, m)[i] = s[i]
  BY <1>2, <1>4
<1>5. /\ DOMAIN Capped(text.lines) = 1..m /\ \A i \in 1..m : Capped(text.lines)[i] = text.lines[i]
      /\ DOMAIN Capped(told) = 1..m /\ \A i \in 1..m : Capped(told)[i] = told[i]
  BY <1>1, <1>2, <1>3, <1>4 DEF n
<1>6. \A i \in 1..m : WithoutTokens(Capped(text.lines)[i]) = WithoutTokens(Capped(told)[i])
  <2>1. \A i \in 1..m : i \in 1..n
    BY <1>1, <1>2
  <2> QED BY <1>1, <1>5, <2>1
<1> QED BY <1>5, <1>6 DEF Bare

(* What the verifier found of two such captures. *)
LEMMA CoveredLines ==
  ASSUME NEW ja \in Jobs, NEW jb \in Jobs,
         Uncovered(Contents(ja.output.lines), Contents(jb.output.lines),
                   Report(ja.case, ja.output).replaced, Report(jb.case, jb.output).replaced) = {}
  PROVE  DiffersWhereReplaced(ja, jb) /\ DiffersWhereReplaced(jb, ja)
<1> DEFINE a == ja.output.lines
           b == jb.output.lines
           ca == Contents(a)
           cb == Contents(b)
           ra == Report(ja.case, ja.output).replaced
           rb == Report(jb.case, jb.output).replaced
<1>1. /\ DOMAIN a = 1..Len(a) /\ Len(a) \in Nat /\ DOMAIN b = 1..Len(b) /\ Len(b) \in Nat
  BY OutputsAssumption, TextsHaveLines
<1>2. /\ ca = [i \in 1..Len(a) |-> ca[i]] /\ cb = [i \in 1..Len(b) |-> cb[i]]
      /\ \A i \in 1..Len(a) : ca[i] = Content(a[i])
      /\ \A i \in 1..Len(b) : cb[i] = Content(b[i])
  BY <1>1 DEF Contents
<1>3. Uncovered(ca, cb, ra, rb) = {}
  OBVIOUS
<1> HIDE DEF ca, cb, ra, rb
<1>4. /\ Len(ca) = Len(a) /\ DOMAIN ca = 1..Len(a) /\ Len(cb) = Len(b) /\ DOMAIN cb = 1..Len(b)
  BY <1>1, <1>2, FunctionsAreSequences
<1>5. CoveredOrThere(ca, cb, ra) /\ CoveredOrThere(cb, ca, rb)
  <2>1. Numbered(ca) /\ Numbered(cb)
    BY <1>1, <1>4 DEF Numbered
  <2> QED BY <1>3, <2>1, NothingUncovered
<1>6. /\ \A i \in DOMAIN a : Content(a[i]) \in ra \/ \E j \in DOMAIN b : Content(b[j]) = Content(a[i])
      /\ \A j \in DOMAIN b : Content(b[j]) \in rb \/ \E i \in DOMAIN a : Content(a[i]) = Content(b[j])
  <2> HIDE DEF a, b
  <2> QED BY <1>1, <1>2, <1>4, <1>5 DEF CoveredOrThere
<1>7. DiffersWhereReplaced(ja, jb)
  <2> SUFFICES ASSUME NEW i \in DOMAIN a PROVE IsReplaced(a[i], ja) \/ Prints(jb, a[i])
    BY DEF DiffersWhereReplaced, Range
  <2> QED BY <1>6 DEF IsReplaced, Prints, ra
<1>8. DiffersWhereReplaced(jb, ja)
  <2> SUFFICES ASSUME NEW i \in DOMAIN b PROVE IsReplaced(b[i], jb) \/ Prints(ja, b[i])
    BY DEF DiffersWhereReplaced, Range
  <2> QED BY <1>6 DEF IsReplaced, Prints, rb
<1> QED BY <1>7, <1>8

(* In such directories a pair that passes is as stated.                     *)
LEMMA PassedPair == PairInv => PassedMeansTwoAcceptedCaptures
<1> SUFFICES ASSUME PairInv, Passed
             PROVE  \E ja \in completed.a, jb \in completed.b :
        /\ ContentAccepted(ja) /\ ContentAccepted(jb)
        /\ BeforeTheRun(ja) = Proceeds /\ BeforeTheRun(jb) = Proceeds
        /\ ja.output = dirs.a.out.content /\ jb.output = dirs.b.out.content
        /\ ja.case = jb.case /\ ja.toolchain.resolved = jb.toolchain.resolved /\ EffectiveArgv(ja) = EffectiveArgv(jb)
        /\ ja.case \in Canonicalized => /\ Intact /\ ja.case \in policy.body.cases
                                        /\ \A d \in Sides : dirs[d].receipt.content.policy = <<policy>>
        /\ DiffersWhereReplaced(ja, jb) /\ DiffersWhereReplaced(jb, ja)
        /\ ja.case # "repo-kubeops-generator" => Kept(ja) = Kept(jb)
  BY DEF PassedMeansTwoAcceptedCaptures
<1> DEFINE ra == dirs.a.receipt.content
           rb == dirs.b.receipt.content
<1>1. /\ CaptureValid(dirs.a, policy, Intact) /\ CaptureValid(dirs.b, policy, Intact)
      /\ IdentityMismatches(ra, rb) = {} /\ ra.canonical = rb.canonical
      /\ Uncovered(Contents(ra.raw), Contents(rb.raw), Rederived(dirs.a).replaced, Rederived(dirs.b).replaced) = {}
  BY DEF Passed, VerifyPair
<1>2. /\ OutputsAreSomeJobs(dirs.a) /\ ReceiptsAreOfCompleted(dirs.a, completed.a)
      /\ OutputsAreSomeJobs(dirs.b) /\ ReceiptsAreOfCompleted(dirs.b, completed.b)
  BY DEF PairInv, Sides
<1>3. PICK ja \in completed.a \cap Jobs : ACaptureOf(ja, dirs.a, policy, Intact)
  BY <1>1, <1>2, ValidMeansCompleted
<1>4. PICK jb \in completed.b \cap Jobs : ACaptureOf(jb, dirs.b, policy, Intact)
  BY <1>1, <1>2, ValidMeansCompleted
<1>5. PICK pa : ra = Receipt(ja, pa, Report(ja.case, ja.output))
  BY <1>3 DEF ACaptureOf
<1>6. PICK pb : rb = Receipt(jb, pb, Report(jb.case, jb.output))
  BY <1>4 DEF ACaptureOf
<1>7. /\ ra.case = ja.case /\ ra.toolchain = ja.toolchain.resolved /\ ra.argv = EffectiveArgv(ja)
      /\ ra.raw = ja.output.lines /\ ra.canonical = Capped(Report(ja.case, ja.output).lines)
  BY <1>5 DEF Receipt
<1>8. /\ rb.case = jb.case /\ rb.toolchain = jb.toolchain.resolved /\ rb.argv = EffectiveArgv(jb)
      /\ rb.raw = jb.output.lines /\ rb.canonical = Capped(Report(jb.case, jb.output).lines)
  BY <1>6 DEF Receipt
<1>9. ra.case = rb.case /\ ra.toolchain = rb.toolchain /\ ra.argv = rb.argv
  <2> HIDE DEF ra, rb
  <2>1. ra["case"] = rb["case"] /\ ra["toolchain"] = rb["toolchain"] /\ ra["argv"] = rb["argv"]
    BY <1>1 DEF IdentityMismatches
  <2> QED BY <2>1
<1>10. /\ ContentAccepted(ja) /\ BeforeTheRun(ja) = Proceeds /\ Report(ja.case, ja.output).ok
       /\ ContentAccepted(jb) /\ BeforeTheRun(jb) = Proceeds /\ Report(jb.case, jb.output).ok
       /\ ja.output = dirs.a.out.content /\ jb.output = dirs.b.out.content
  BY <1>3, <1>4 DEF ACaptureOf, Completes
<1>11. ja.case \in Canonicalized => /\ Intact /\ ja.case \in policy.body.cases
                                    /\ \A d \in Sides : dirs[d].receipt.content.policy = <<policy>>
  BY <1>3, <1>4, <1>7, <1>8, <1>9 DEF ACaptureOf, Sides
<1>12. DiffersWhereReplaced(ja, jb) /\ DiffersWhereReplaced(jb, ja)
  <2>1. Rederived(dirs.a) = Report(ja.case, ja.output) /\ Rederived(dirs.b) = Report(jb.case, jb.output)
    BY <1>3, <1>4 DEF ACaptureOf
  <2>2. Uncovered(Contents(ja.output.lines), Contents(jb.output.lines),
                  Report(ja.case, ja.output).replaced, Report(jb.case, jb.output).replaced) = {}
    BY <1>1, <1>7, <1>8, <2>1
  <2> QED BY <2>2, CoveredLines
<1>13. ASSUME ja.case # "repo-kubeops-generator" PROVE Kept(ja) = Kept(jb)
  <2>1. IsText(ja.output) /\ IsText(jb.output) /\ jb.case # "repo-kubeops-generator"
    BY <1>7, <1>8, <1>9, <1>13, OutputsAssumption
  <2> DEFINE ta == Report(ja.case, ja.output).lines
             tb == Report(jb.case, jb.output).lines
  <2>2. AsManyLines(ja.output.lines, ta) /\ AsManyLines(jb.output.lines, tb)
    BY <1>10, <1>13, <2>1, ReportsKeepLines
  <2>3. Capped(ta) = Capped(tb)
    BY <1>1, <1>7, <1>8
  <2> HIDE DEF ta, tb
  <2>4. Bare(ja.output.lines) = Bare(ta) /\ Bare(jb.output.lines) = Bare(tb)
    BY <2>1, <2>2, BareOfTold
  <2>5. Bare(ta) = Bare(tb)
    BY <2>3 DEF Bare
  <2>6. Kept(ja) = Bare(ja.output.lines) /\ Kept(jb) = Bare(jb.output.lines)
    BY DEF Kept, Bare
  <2> QED BY <2>4, <2>5, <2>6
<1> HIDE DEF ra, rb
<1>14. ja.case = jb.case /\ ja.toolchain.resolved = jb.toolchain.resolved /\ EffectiveArgv(ja) = EffectiveArgv(jb)
  BY <1>7, <1>8, <1>9
<1> QED BY <1>10, <1>11, <1>12, <1>13, <1>14

(* A pair that the verifier accepts is two captures that completed, in      *)
(* these directories, whose outputs differ only where their own reports     *)
(* say a line was replaced (run_pilot_case.py against verify_pair).         *)
THEOREM PairsAreTwoCaptures == Spec => []PassedMeansTwoAcceptedCaptures
BY PairAlways, PassedPair, PTL

-----------------------------------------------------------------------------
(* Counts that stand on the legs. *)

(* A seal is of one body only.                                              *)
LEMMA SealsBind ==
  ASSUME NEW a, NEW b, Seal(a) = Seal(b)
  PROVE  a = b
BY DEF Seal

(* A benchmark that came out came out of legs that agree, of every case.    *)
LEMMA BenchmarkAgrees ==
  ASSUME NEW pairs, NEW body, BuildBenchmark(pairs) = <<body>>
  PROVE  /\ DOMAIN pairs = Cases
         /\ \A c \in Cases : CombineCaseLegs(pairs[c].a, pairs[c].b)[1].disagreements = {}
<1> DEFINE combined == [c \in DOMAIN pairs |-> CombineCaseLegs(pairs[c].a, pairs[c].b)]
           whole == DOMAIN pairs = Cases /\ \A c \in DOMAIN pairs : combined[c] # Nothing
           agreed == \A c \in DOMAIN pairs : combined[c][1].disagreements = {}
<1>1. <<body>> # Nothing
  BY DEF Nothing
<1>2. ~whole => BuildBenchmark(pairs) = Nothing
  BY DEF BuildBenchmark
<1>3. whole /\ ~agreed => BuildBenchmark(pairs) = Nothing
  BY DEF BuildBenchmark
<1>4. whole /\ agreed
  BY <1>1, <1>2, <1>3
<1> QED BY <1>4

(* A supplement carries the seal of the benchmark it was drawn from.        *)
LEMMA SupplementNamesItsSource ==
  ASSUME NEW body, NEW benchmark, <<body>> = BuildSupplement(benchmark, Draws)
  PROVE  body.source = benchmark
<1>1. <<body>> # Nothing
  BY DEF Nothing
<1> QED BY <1>1 DEF BuildSupplement

(* In every state, an accepted closure's counts follow from what is on disk. *)
LEMMA AcceptedCountsStand == AcceptedCountsAreRederivable
<1> DEFINE r == Body("closure")
<1> SUFFICES ASSUME VerifyClosure, r.counts, r.evidence # Nothing
    PROVE  /\ BuildBenchmark(Body("legs")) = <<Body("benchmark")>>
           /\ \A c \in Cases : CombineCaseLegs(Body("legs")[c].a, Body("legs")[c].b)[1].disagreements = {}
           /\ WholeCorpus(Body("benchmark").corpus)
           /\ Body("supplement").source = Body("benchmark")
           /\ r.n2d3.link = <<Seal(Body("benchmark"))>>
  BY DEF AcceptedCountsAreRederivable
<1>1. GatesHold(r) /\ EvidenceHolds(r)
  BY DEF VerifyClosure
<1> HIDE DEF r
<1>2. VerifyRunEvidence /\ VerifySupplement
  BY <1>1 DEF EvidenceHolds
<1>3. BuildBenchmark(Body("legs")) = <<Body("benchmark")>>
  BY <1>2 DEF VerifyRunEvidence
<1>4. \A c \in Cases : CombineCaseLegs(Body("legs")[c].a, Body("legs")[c].b)[1].disagreements = {}
  BY <1>3, BenchmarkAgrees
<1>5. Body("supplement").source = Body("benchmark")
  BY <1>2, SupplementNamesItsSource DEF VerifySupplement
<1>6. /\ LinkHolds(r.n2d3.link, "benchmark") /\ SealHolds(disk["benchmark"][1])
      /\ WholeCorpus(Body("benchmark").corpus)
  BY <1>1 DEF GatesHold
<1>7. r.n2d3.link = <<Seal(Body("benchmark"))>>
  BY <1>6 DEF LinkHolds, SealHolds, SealOf, Body
<1> QED BY <1>3, <1>4, <1>5, <1>6, <1>7

(* Counts that are accepted can be derived again from the legs on disk, in *)
(* every state a chain of builds and edits leads to.                       *)
THEOREM AcceptedCountsHold == ChainSpec => []AcceptedCountsAreRederivable
BY AcceptedCountsStand, PTL

-----------------------------------------------------------------------------
(* What the builder writes. *)

Gate(g) == g = [status |-> g.status, link |-> g.link]
Written(r) ==
  /\ r = [stage2 |-> r.stage2, tree |-> r.tree, cases |-> r.cases, rejection |-> r.rejection,
          replacement |-> r.replacement, rtkmap |-> r.rtkmap, n2d2 |-> r.n2d2, n2d3 |-> r.n2d3,
          counts |-> r.counts, evidence |-> r.evidence, contract |-> r.contract]
  /\ r.tree = [f \in SourceFiles |-> r.tree[f]]
  /\ r.tree["flake.lock"] = 0 /\ r.tree["rust-toolchain"] = 0
  /\ r.rtkmap # Nothing
  /\ Gate(r.n2d2) /\ Gate(r.n2d3)
  /\ r.n2d3.status = "passed" => r.n2d2.status = "passed"
  /\ r.counts = (r.n2d3.status = "passed")
  /\ r.evidence # Nothing => r.evidence = <<[d \in EvidenceFiles |-> r.evidence[1][d]]>>

Shelved == disk = [d \in Records |-> disk[d]] /\ tree = [f \in SourceFiles |-> tree[f]]
Untouched == asBuilt => OnDisk("closure") /\ Written(Body("closure"))
ChainInv == Shelved /\ Untouched

(* The record of a build that was not refused.                              *)
ClosureRecord ==
  [stage2 |-> SealOf("stage2"), tree |-> tree,
   cases |-> [c \in Cases |-> [canonical |-> CanonicalOf(c), asset |-> AssetOf(c), rest |-> RestOf(c)]],
   contract |-> ContractPart,
   rejection |-> [class |-> Body("rejection"), seal |-> SealOf("rejection")],
   replacement |-> [case |-> Body("replacement"), seal |-> SealOf("replacement")],
   rtkmap |-> <<SealOf("rtkmap")>>, n2d2 |-> N2d2Gate, n2d3 |-> N2d3Gate,
   counts |-> N2d3Gate.status = "passed", evidence |-> EvidenceLink]
Declined ==
  \/ \E d \in ClosureInputs : ~OnDisk(d)
  \/ SealOf("stage2") # PinnedStage2
  \/ tree["flake.lock"] # 0 \/ tree["rust-toolchain"] # 0
  \/ Body("durable").role # "primary" \/ Body("durable").path = Nothing
  \/ ~GatesReadable \/ ~VerifyRtkMap
  \/ EvidenceLink # Nothing /\ ~(VerifyRunEvidence /\ VerifySupplement)

(* A build is refused or gives the one record.                              *)
LEMMA BuildIsARecord == BuildClosure = IF Declined THEN Nothing ELSE <<ClosureRecord>>
BY DEF BuildClosure, Declined, ClosureRecord

LEMMA GatesAreGates ==
  /\ Gate(N2d2Gate) /\ Gate(N2d3Gate)
  /\ N2d3Gate.status = "passed" => N2d2Gate.status = "passed"
<1>1. Gate(N2d2Gate)
  BY DEF Gate, N2d2Gate, NotYetRun
<1>2. Gate(N2d3Gate) /\ (N2d3Gate.status = "passed" => N2d2Gate.status = "passed")
  BY DEF Gate, N2d3Gate, NotYetRun
<1> QED BY <1>1, <1>2

LEMMA RecordIsWritten ==
  ASSUME Shelved, BuildClosure # Nothing
  PROVE  BuildClosure = <<ClosureRecord>> /\ Written(ClosureRecord)
<1>1. ~Declined /\ BuildClosure = <<ClosureRecord>>
  BY BuildIsARecord
<1> DEFINE r == ClosureRecord
<1>2. /\ r.tree = tree /\ r.rtkmap = <<SealOf("rtkmap")>>
      /\ r.n2d2 = N2d2Gate /\ r.n2d3 = N2d3Gate /\ r.evidence = EvidenceLink
      /\ r.counts = (N2d3Gate.status = "passed")
  BY DEF ClosureRecord
<1>3. r = [stage2 |-> r.stage2, tree |-> r.tree, cases |-> r.cases, rejection |-> r.rejection,
           replacement |-> r.replacement, rtkmap |-> r.rtkmap, n2d2 |-> r.n2d2, n2d3 |-> r.n2d3,
           counts |-> r.counts, evidence |-> r.evidence, contract |-> r.contract]
  BY DEF ClosureRecord
<1> HIDE DEF r
<1>4. /\ r.tree = [f \in SourceFiles |-> r.tree[f]]
      /\ r.tree["flake.lock"] = 0 /\ r.tree["rust-toolchain"] = 0
  BY <1>1, <1>2 DEF Shelved, Declined
<1>7. r.rtkmap # Nothing
  BY <1>2 DEF Nothing
<1>8. /\ Gate(r.n2d2) /\ Gate(r.n2d3)
      /\ r.n2d3.status = "passed" => r.n2d2.status = "passed"
      /\ r.counts = (r.n2d3.status = "passed")
  BY <1>2, GatesAreGates
<1>9. r.evidence # Nothing => r.evidence = <<[d \in EvidenceFiles |-> r.evidence[1][d]]>>
  BY <1>2 DEF EvidenceLink
<1>10. Written(r)
  BY <1>3, <1>4, <1>7, <1>8, <1>9 DEF Written
<1> QED BY <1>1, <1>10 DEF r

-----------------------------------------------------------------------------
LEMMA ShelvedInit == ChainInit => ChainInv
BY DEF ChainInit, ChainInv, Shelved, Untouched

LEMMA PutShelves ==
  ASSUME Shelved, NEW d \in Records, NEW body, Put(d, body)
  PROVE  /\ Shelved' /\ disk'[d] = <<Sealed(body[1])>>
         /\ \A e \in Records : e # d => disk'[e] = disk[e]
<1>1. disk' = [disk EXCEPT ![d] = <<Sealed(body[1])>>] /\ tree' = tree
  BY DEF Put
<1> QED BY <1>1 DEF Shelved

(* What leaves the closure and its flag alone.                              *)
LEMMA ClosureStays ==
  ASSUME ChainInv, Shelved', asBuilt' => asBuilt, asBuilt' => disk'["closure"] = disk["closure"]
  PROVE  ChainInv'
BY DEF ChainInv, Untouched, OnDisk, Body

LEMMA PutElsewhere ==
  ASSUME ChainInv, NEW d \in Records \ {"closure"}, NEW body, Put(d, body), UNCHANGED asBuilt
  PROVE  ChainInv'
<1>1. Shelved' /\ disk'["closure"] = disk["closure"]
  BY PutShelves DEF ChainInv, Records
<1> QED BY <1>1, ClosureStays

LEMMA CloseWrites ==
  ASSUME ChainInv, Close
  PROVE  ChainInv'
<1>1. BuildClosure # Nothing /\ Put("closure", BuildClosure) /\ asBuilt'
  BY DEF Close, Put
<1>2. BuildClosure = <<ClosureRecord>> /\ Written(ClosureRecord)
  BY <1>1, RecordIsWritten DEF ChainInv
<1>3. "closure" \in Records
  BY DEF Records
<1>4. Shelved' /\ disk'["closure"] = <<Sealed(BuildClosure[1])>>
  BY <1>1, <1>3, PutShelves DEF ChainInv
<1> HIDE DEF ClosureRecord
<1>5. disk'["closure"] = <<Sealed(ClosureRecord)>>
  BY <1>2, <1>4
<1>6. disk'["closure"] # Nothing /\ disk'["closure"][1].body = ClosureRecord
  BY <1>5 DEF Sealed, Nothing
<1> QED BY <1>2, <1>4, <1>6 DEF ChainInv, Untouched, OnDisk, Body

LEMMA ChainStep == ChainInv /\ [ChainNext]_chain => ChainInv'
<1> SUFFICES ASSUME ChainInv, [ChainNext]_chain PROVE ChainInv'
  OBVIOUS
<1>1. CASE MapFilters \/ RunCanary \/ RecordRun \/ RecordLegs \/ Benchmark \/ Supplement
  <2>1. \E d \in Records \ {"closure"} : \E body : Put(d, body) /\ UNCHANGED asBuilt
    <3>1. {"rtkmap", "n2d2", "run", "legs", "benchmark", "supplement"} \subseteq Records \ {"closure"}
      BY DEF Records
    <3> QED BY <1>1, <3>1 DEF MapFilters, RunCanary, RecordRun, RecordLegs, Benchmark, Supplement
  <2> QED BY <2>1, PutElsewhere
<1>2. CASE Close
  BY <1>2, CloseWrites
<1>3. ASSUME NEW d \in Records, EditRecord(d) \/ Unlink(d) PROVE ChainInv'
  <2>1. PICK new : disk' = [disk EXCEPT ![d] = new] /\ asBuilt' = (asBuilt /\ d # "closure") /\ tree' = tree
    BY <1>3 DEF EditRecord, Unlink, Edited
  <2>2. Shelved' /\ (d # "closure" => disk'["closure"] = disk["closure"])
    BY <2>1 DEF ChainInv, Shelved, Records
  <2> QED BY <2>1, <2>2, ClosureStays
<1>4. ASSUME NEW field, EditClosure(field) PROVE ChainInv'
  <2>1. \E new : disk' = [disk EXCEPT !["closure"] = new]
    BY <1>4 DEF EditClosure
  <2>2. Shelved' /\ ~asBuilt'
    BY <1>4, <2>1 DEF EditClosure, Edited, ChainInv, Shelved
  <2> QED BY <2>2, ClosureStays
<1>5. ASSUME NEW f \in SourceFiles, EditTree(f) PROVE ChainInv'
  <2>1. Shelved' /\ UNCHANGED <<disk, asBuilt>>
    BY <1>5 DEF EditTree, ChainInv, Shelved
  <2> QED BY <2>1, ClosureStays
<1>6. CASE UNCHANGED chain
  BY <1>6 DEF chain, ChainInv, Shelved, Untouched, OnDisk, Body
<1> QED BY <1>1, <1>2, <1>3, <1>4, <1>5, <1>6 DEF ChainNext

-----------------------------------------------------------------------------
(* A closure that verifies is, where anything is compared, the one a build *)
(* would write now.                                                        *)

LEMMA PinnedBody ==
  ASSUME SealOf("stage2") = PinnedStage2, SealHolds(disk["stage2"][1])
  PROVE  \A c \in RepoCases : Body("stage2").canonical[c] = Required[c]
<1>1. Seal(Body("stage2")) = Seal(Stage2Body)
  BY DEF SealOf, SealHolds, Body, PinnedStage2
<1>2. Body("stage2") = Stage2Body
  BY <1>1, SealsBind
<1> QED BY <1>2, PinsAssumption

LEMMA VerifiedGates ==
  ASSUME NEW r, Written(r), GatesHold(r), r.counts
  PROVE  GatesReadable /\ r.n2d2 = N2d2Gate /\ r.n2d3 = N2d3Gate
<1>1. /\ Gate(r.n2d2) /\ Gate(r.n2d3) /\ r.n2d3.status = "passed" /\ r.n2d2.status = "passed"
  BY DEF Written
<1>2. /\ OnDisk("n2d2") /\ r.n2d2.link = <<SealOf("n2d2")>> /\ SealHolds(disk["n2d2"][1])
      /\ Body("n2d2").case = "canary" /\ Body("n2d2").all
  BY <1>1 DEF GatesHold, LinkHolds
<1>3. /\ OnDisk("benchmark") /\ r.n2d3.link = <<SealOf("benchmark")>>
      /\ SealHolds(disk["benchmark"][1]) /\ WholeCorpus(Body("benchmark").corpus)
  BY <1>1 DEF GatesHold, LinkHolds
<1>4. r.n2d2 = N2d2Gate /\ N2d2Gate.status = "passed"
  BY <1>1, <1>2 DEF Gate, N2d2Gate
<1>5. r.n2d3 = N2d3Gate
  BY <1>1, <1>3, <1>4 DEF Gate, N2d3Gate
<1> QED BY <1>2, <1>3, <1>4, <1>5 DEF GatesReadable

LEMMA VerifiedEvidence ==
  ASSUME NEW r, Written(r), EvidenceHolds(r), r.evidence # Nothing
  PROVE  r.evidence = EvidenceLink /\ VerifyRunEvidence /\ VerifySupplement
<1>1. /\ \A d \in EvidenceFiles : OnDisk(d) /\ r.evidence[1][d] = SealOf(d)
      /\ VerifyRunEvidence /\ VerifySupplement
  BY DEF EvidenceHolds
<1>2. r.evidence = <<[d \in EvidenceFiles |-> r.evidence[1][d]]>>
  BY DEF Written
<1>3. [d \in EvidenceFiles |-> r.evidence[1][d]] = [d \in EvidenceFiles |-> SealOf(d)]
  BY <1>1
<1>4. EvidenceLink = <<[d \in EvidenceFiles |-> SealOf(d)]>>
  BY <1>1 DEF EvidenceLink
<1> QED BY <1>1, <1>2, <1>3, <1>4

LEMMA VerifiedIsCurrent == ChainInv => StaleClosureIsRefused
<1> DEFINE r == Body("closure")
<1> SUFFICES ASSUME ChainInv, VerifyClosure, asBuilt, r.counts, r.evidence # Nothing,
                    tree["rust-toolchain"] = 0, Body("durable").path # Nothing
    PROVE  BuildClosure # Nothing /\ Compared(BuildClosure[1]) = Compared(r)
  BY DEF StaleClosureIsRefused
<1>1. Written(r) /\ Shelved
  BY DEF ChainInv, Untouched
<1>2. /\ \A d \in ClosureInputs : OnDisk(d)
      /\ TreeHolds(r)
      /\ \A c \in DOMAIN Required : r.cases[c].canonical = Required[c]
      /\ r.stage2 = PinnedStage2 /\ SealOf("stage2") = PinnedStage2 /\ SealHolds(disk["stage2"][1])
      /\ \A c \in Cases : r.cases[c].asset = AssetOf(c)
      /\ Body("durable").role = "primary"
      /\ \A c \in Cases \ RepoCases : r.cases[c].canonical = Body("durable").canonical[c]
      /\ r.rejection.seal = SealOf("rejection")
      /\ r.replacement = [case |-> Body("replacement"), seal |-> SealOf("replacement")]
      /\ r.rtkmap # Nothing => LinkHolds(r.rtkmap, "rtkmap") /\ VerifyRtkMap
      /\ GatesHold(r) /\ EvidenceHolds(r)
  BY DEF VerifyClosure
<1> HIDE DEF r
<1>4. r.tree = tree /\ tree["flake.lock"] = 0
  <2>1. \A f \in SourceFiles : r.tree[f] = tree[f]
    BY <1>1, <1>2 DEF TreeHolds, Written
  <2>2. "flake.lock" \in SourceFiles
    BY DEF SourceFiles
  <2>3. [f \in SourceFiles |-> r.tree[f]] = [f \in SourceFiles |-> tree[f]]
    BY <2>1
  <2>4. r.tree = [f \in SourceFiles |-> r.tree[f]] /\ tree = [f \in SourceFiles |-> tree[f]]
    BY <1>1 DEF Written, Shelved
  <2>5. r.tree["flake.lock"] = 0
    BY <1>1 DEF Written
  <2> QED BY <2>1, <2>2, <2>3, <2>4, <2>5
<1>5. ASSUME NEW c \in Cases PROVE r.cases[c].canonical = CanonicalOf(c)
  <2>1. CASE c \in RepoCases
    BY <1>2, <2>1, PinnedBody, ChainAssumption DEF CanonicalOf
  <2>2. CASE c \notin RepoCases
    BY <1>2, <2>2 DEF CanonicalOf
  <2> QED BY <2>1, <2>2
<1>6. [c \in Cases |-> [canonical |-> r.cases[c].canonical, asset |-> r.cases[c].asset]]
        = [c \in Cases |-> [canonical |-> CanonicalOf(c), asset |-> AssetOf(c)]]
  BY <1>2, <1>5
<1>8. r.rtkmap = <<SealOf("rtkmap")>> /\ VerifyRtkMap
  BY <1>1, <1>2 DEF Written, LinkHolds
<1>9. GatesReadable /\ r.n2d2 = N2d2Gate /\ r.n2d3 = N2d3Gate
  BY <1>1, <1>2, VerifiedGates
<1>10. r.evidence = EvidenceLink /\ VerifyRunEvidence /\ VerifySupplement
  BY <1>1, <1>2, VerifiedEvidence
<1>11. r.counts = (N2d3Gate.status = "passed")
  BY <1>1, <1>9 DEF Written
<1>12. ~Declined
  BY <1>2, <1>4, <1>8, <1>9, <1>10 DEF Declined
<1>13. BuildClosure = <<ClosureRecord>>
  BY <1>12, BuildIsARecord
<1>14. /\ ClosureRecord.stage2 = r.stage2 /\ ClosureRecord.tree = r.tree
       /\ ClosureRecord.cases
            = [c \in Cases |-> [canonical |-> CanonicalOf(c), asset |-> AssetOf(c), rest |-> RestOf(c)]]
       /\ ClosureRecord.rejection.seal = r.rejection.seal
       /\ ClosureRecord.replacement = r.replacement /\ ClosureRecord.rtkmap = r.rtkmap
       /\ ClosureRecord.n2d2 = r.n2d2 /\ ClosureRecord.n2d3 = r.n2d3
       /\ ClosureRecord.counts = r.counts /\ ClosureRecord.evidence = r.evidence
  BY <1>2, <1>4, <1>8, <1>9, <1>10, <1>11 DEF ClosureRecord
<1> HIDE DEF ClosureRecord
<1>15. [c \in Cases |-> [canonical |-> ClosureRecord.cases[c].canonical, asset |-> ClosureRecord.cases[c].asset]]
         = [c \in Cases |-> [canonical |-> CanonicalOf(c), asset |-> AssetOf(c)]]
  BY <1>14
<1>16. Compared(ClosureRecord) = Compared(r)
  BY <1>6, <1>14, <1>15 DEF Compared
<1>17. BuildClosure # Nothing /\ BuildClosure[1] = ClosureRecord
  BY <1>13 DEF Nothing
<1> QED BY <1>16, <1>17 DEF r

(* No stale closure is accepted, whatever was rebuilt, edited, resealed or *)
(* removed after it was built, and in whatever order: what verifies is     *)
(* what a build would write now wherever a verifier compares anything.     *)
THEOREM NoStaleClosure == ChainSpec => []StaleClosureIsRefused
<1>1. ChainInv => StaleClosureIsRefused
  BY VerifiedIsCurrent
<1> QED BY <1>1, ShelvedInit, ChainStep, PTL DEF ChainSpec
=============================================================================
