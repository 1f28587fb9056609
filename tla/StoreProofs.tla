----------------------------- MODULE StoreProofs -----------------------------
(***************************************************************************)
(* What CanonicalStore::open returns, what a bounded scan of it says and   *)
(* what a verdict of the registry proves, for any artifacts, requests and  *)
(* budgets.                                                                *)
(*                                                                         *)
(* The first part is about texts alone: what the segmentation has found    *)
(* after k lines (Divided), kept by a line of either kind.  The second     *)
(* carries it through the calls of open, to the stores returned.  The      *)
(* third follows the scan of one of them, and the last the results that    *)
(* several stores issue into one registry.                                 *)
(***************************************************************************)
EXTENDS IntersectScan, QueryRegistry, QueryExecutionProofs, FiniteSetTheorems, TLAPS

(* The markers among the first n lines, the last of them, and the place of  *)
(* line n: the section of the last marker and the distance from it.         *)
Marks(text, seg, n) == {m \in 1..n : seg.kind = "marked" /\ text[m].mark # NoMark}
Lines(text, seg, n) == (1..n) \ Marks(text, seg, n)
Largest(M) == CHOOSE m \in M : \A p \in M : p <= m
Start(M) == IF M = {} THEN 0 ELSE Largest(M)
SectionAt(text, seg, n) ==
  IF Start(Marks(text, seg, n)) = 0 THEN seg.section ELSE text[Start(Marks(text, seg, n))].mark
PlaceIn(text, seg, n) ==
  LocalId(SectionAt(text, seg, n), n - Start(Marks(text, seg, n)) - 1)

(* No marker among the first k lines is refused.                            *)
WellMarked(text, seg, k) ==
  \A m \in Marks(text, seg, k) :
    /\ text[m].mark \notin {BadName, seg.section}
    /\ \A p \in Marks(text, seg, m) : text[p].mark = text[m].mark => p = m

LastIsLargest(text, seg, k) ==
  \A n \in 0..k : LET M == Marks(text, seg, n) IN
    M # {} => Start(M) \in M /\ \A p \in M : p <= Start(M)

(* What reading k lines leaves: recs, the sections seen, the section and    *)
(* the ordinal the next record gets.                                        *)
Divided(text, seg, k, recs, secs, cur, ord) ==
  /\ k \in 0..Len(text)
  /\ recs = [id \in DOMAIN recs |-> recs[id]]
  /\ DOMAIN recs = {PlaceIn(text, seg, n) : n \in Lines(text, seg, k)}
  /\ \A n \in Lines(text, seg, k) : recs[PlaceIn(text, seg, n)] = text[n]
  /\ IsFiniteSet(DOMAIN recs)
  /\ Cardinality(DOMAIN recs) = Cardinality(Lines(text, seg, k))
  /\ DOMAIN recs \subseteq Nat \X Nat
  /\ secs = {seg.section} \cup {text[m].mark : m \in Marks(text, seg, k)}
  /\ cur = SectionAt(text, seg, k) /\ cur \in Nat
  /\ ord = k - Start(Marks(text, seg, k)) /\ ord \in Nat
  /\ WellMarked(text, seg, k)
  /\ LastIsLargest(text, seg, k)

LEMMA StartIsBefore ==
  ASSUME NEW text, NEW seg, NEW k \in Nat, LastIsLargest(text, seg, k), NEW n \in 0..k
  PROVE  /\ Start(Marks(text, seg, n)) \in 0..n
         /\ Start(Marks(text, seg, n)) # 0 => Start(Marks(text, seg, n)) \in Marks(text, seg, n)
<1> DEFINE M == Marks(text, seg, n)
<1>1. M \subseteq 1..n
  BY DEF Marks
<1>2. M # {} => Start(M) \in M
  BY DEF LastIsLargest
<1>3. M = {} => Start(M) = 0
  BY DEF Start
<1>5. n \in Nat
  OBVIOUS
<1> HIDE DEF M
<1>4. Start(M) \in 0..n /\ (Start(M) # 0 => Start(M) \in M)
  <2>1. CASE M = {}
    BY <1>3, <1>5, <2>1
  <2>2. CASE M # {}
    <3>1. Start(M) \in M
      BY <1>2, <2>2
    <3>2. Start(M) \in 1..n
      BY <1>1, <3>1
    <3> QED BY <1>5, <3>1, <3>2
  <2> QED BY <2>1, <2>2
<1> QED BY <1>4 DEF M

LEMMA NothingRead ==
  ASSUME NEW text \in Seq(Line), NEW seg, seg.section \in Nat
  PROVE  Divided(text, seg, 0, << >>, {seg.section}, seg.section, 0)
<1>1. Marks(text, seg, 0) = {} /\ Lines(text, seg, 0) = {} /\ 0 \in 0..Len(text)
  BY DEF Marks, Lines
<1>2. Start(Marks(text, seg, 0)) = 0 /\ SectionAt(text, seg, 0) = seg.section
  BY <1>1 DEF Start, SectionAt
<1>3. /\ DOMAIN << >> = {} /\ << >> = [id \in DOMAIN << >> |-> << >>[id]]
      /\ IsFiniteSet({}) /\ Cardinality({}) = 0
  BY FS_EmptySet
<1>4. LastIsLargest(text, seg, 0)
  BY <1>1 DEF LastIsLargest
<1>5. WellMarked(text, seg, 0)
  BY <1>1 DEF WellMarked
<1>6. /\ DOMAIN << >> = {PlaceIn(text, seg, n) : n \in Lines(text, seg, 0)}
      /\ \A n \in Lines(text, seg, 0) : << >>[PlaceIn(text, seg, n)] = text[n]
      /\ IsFiniteSet(DOMAIN << >>) /\ DOMAIN << >> \subseteq Nat \X Nat
      /\ Cardinality(DOMAIN << >>) = Cardinality(Lines(text, seg, 0))
  BY <1>1, <1>3
<1>7. {seg.section} = {seg.section} \cup {text[m].mark : m \in Marks(text, seg, 0)}
  BY <1>1
<1>8. 0 = 0 - Start(Marks(text, seg, 0)) /\ 0 \in Nat
  BY <1>2
<1> QED BY <1>1, <1>2, <1>3, <1>4, <1>5, <1>6, <1>7, <1>8, Zenon DEF Divided

(* One more line adds itself to the markers, or nothing.                    *)
LEMMA OneMoreLine ==
  ASSUME NEW text \in Seq(Line), NEW seg, NEW k \in Nat
  PROVE  /\ (seg.kind = "marked" /\ text[k + 1].mark # NoMark) =>
              /\ Marks(text, seg, k + 1) = Marks(text, seg, k) \cup {k + 1}
              /\ Lines(text, seg, k + 1) = Lines(text, seg, k)
         /\ ~(seg.kind = "marked" /\ text[k + 1].mark # NoMark) =>
              /\ Marks(text, seg, k + 1) = Marks(text, seg, k)
              /\ Lines(text, seg, k + 1) = Lines(text, seg, k) \cup {k + 1}
         /\ Marks(text, seg, k) \subseteq 1..k
         /\ Lines(text, seg, k) \subseteq 1..k
         /\ k + 1 \notin Marks(text, seg, k) /\ k + 1 \notin Lines(text, seg, k)
<1>1. 1..(k + 1) = (1..k) \cup {k + 1} /\ k + 1 \notin 1..k
  OBVIOUS
<1> QED BY <1>1 DEF Marks, Lines

LEMMA MarkerRead ==
  ASSUME NEW text \in Seq(Line), NEW seg, NEW k, NEW recs, NEW secs, NEW cur, NEW ord,
         Divided(text, seg, k, recs, secs, cur, ord),
         k + 1 \in 1..Len(text),
         seg.kind = "marked" /\ text[k + 1].mark # NoMark,
         text[k + 1].mark \notin {BadName} \cup secs
  PROVE  Divided(text, seg, k + 1, recs, secs \cup {text[k + 1].mark}, text[k + 1].mark, 0)
<1> DEFINE M == Marks(text, seg, k)
           N == Marks(text, seg, k + 1)
<1>1. k \in Nat /\ k + 1 \in 0..Len(text) /\ text[k + 1] \in Line
  BY DEF Divided
<1>2. /\ N = M \cup {k + 1} /\ M \subseteq 1..k
      /\ Lines(text, seg, k + 1) = Lines(text, seg, k)
  BY <1>1, OneMoreLine
<1>3. Start(N) = k + 1
  <2>1. k + 1 \in N /\ (\A p \in N : p <= k + 1)
    BY <1>1, <1>2
  <2>2. \A m \in N : (\A p \in N : p <= m) => m = k + 1
    BY <1>1, <1>2, <2>1
  <2> HIDE DEF N
  <2>3. Largest(N) = k + 1
    BY <2>1, <2>2 DEF Largest
  <2> QED BY <2>1, <2>3 DEF Start
<1>4. SectionAt(text, seg, k + 1) = text[k + 1].mark /\ text[k + 1].mark \in Nat
  BY <1>1, <1>3 DEF SectionAt, Line
<1>5. WellMarked(text, seg, k + 1)
  <2> SUFFICES ASSUME NEW m \in N
               PROVE  /\ text[m].mark \notin {BadName, seg.section}
                      /\ \A p \in Marks(text, seg, m) : text[p].mark = text[m].mark => p = m
    BY DEF WellMarked
  <2>1. CASE m \in M
    BY <2>1 DEF Divided, WellMarked
  <2>2. CASE m = k + 1
    <3>1. \A p \in M : text[p].mark \in secs
      BY DEF Divided
    <3> QED BY <1>2, <2>2, <3>1 DEF Divided
  <2> QED BY <1>2, <2>1, <2>2
<1>6. LastIsLargest(text, seg, k + 1)
  <2> SUFFICES ASSUME NEW n \in 0..(k + 1), Marks(text, seg, n) # {}
               PROVE  /\ Start(Marks(text, seg, n)) \in Marks(text, seg, n)
                      /\ \A p \in Marks(text, seg, n) : p <= Start(Marks(text, seg, n))
    BY DEF LastIsLargest
  <2>1. CASE n \in 0..k
    BY <2>1 DEF Divided, LastIsLargest
  <2>2. CASE n = k + 1
    BY <1>1, <1>2, <1>3, <2>2
  <2> QED BY <1>1, <2>1, <2>2
<1>7. secs \cup {text[k + 1].mark} = {seg.section} \cup {text[m].mark : m \in N}
  BY <1>2 DEF Divided
<1>8. 0 = (k + 1) - Start(N) /\ 0 \in Nat
  BY <1>1, <1>3
<1>9. /\ recs = [id \in DOMAIN recs |-> recs[id]]
      /\ DOMAIN recs = {PlaceIn(text, seg, n) : n \in Lines(text, seg, k + 1)}
      /\ \A n \in Lines(text, seg, k + 1) : recs[PlaceIn(text, seg, n)] = text[n]
      /\ IsFiniteSet(DOMAIN recs) /\ DOMAIN recs \subseteq Nat \X Nat
      /\ Cardinality(DOMAIN recs) = Cardinality(Lines(text, seg, k + 1))
  BY <1>2, Zenon DEF Divided
<1>10. text[k + 1].mark = SectionAt(text, seg, k + 1) /\ text[k + 1].mark \in Nat
  BY <1>4
<1> QED BY <1>1, <1>5, <1>6, <1>7, <1>8, <1>9, <1>10, Zenon DEF Divided

LEMMA PlacesDiffer ==
  ASSUME NEW text \in Seq(Line), NEW seg, NEW k, NEW recs, NEW secs, NEW cur, NEW ord,
         Divided(text, seg, k, recs, secs, cur, ord),
         k + 1 \in 1..Len(text),
         ~(seg.kind = "marked" /\ text[k + 1].mark # NoMark)
  PROVE  /\ PlaceIn(text, seg, k + 1) = LocalId(cur, ord)
         /\ LocalId(cur, ord) \notin DOMAIN recs
<1>1. k \in Nat
  BY DEF Divided
<1>2. /\ Marks(text, seg, k + 1) = Marks(text, seg, k)
      /\ Lines(text, seg, k) \subseteq 1..k
  BY <1>1, OneMoreLine
<1> DEFINE s == Start(Marks(text, seg, k))
<1>0. LastIsLargest(text, seg, k) /\ k \in 0..k
  BY <1>1 DEF Divided
<1>3. s \in 0..k /\ (s # 0 => s \in Marks(text, seg, k))
  BY <1>0, <1>1, StartIsBefore
<1>4. (k + 1) - s - 1 = k - s
  BY <1>1, <1>3
<1>5. PlaceIn(text, seg, k + 1) = LocalId(cur, ord)
  BY <1>2, <1>4 DEF PlaceIn, SectionAt, Divided
<1>6. ASSUME NEW n \in Lines(text, seg, k)
      PROVE  PlaceIn(text, seg, n) # LocalId(cur, ord)
  <2> DEFINE t == Start(Marks(text, seg, n))
  <2>1. n \in 1..k /\ n \in 0..k
    BY <1>1, <1>2
  <2>2. t \in 0..n /\ (t # 0 => t \in Marks(text, seg, n))
    BY <1>0, <1>1, <2>1, StartIsBefore
  <2>3. s # 0 => s \in Marks(text, seg, k)
    BY <1>3
  <2>4. SectionAt(text, seg, n) = cur => s = t
    <3>1. t # 0 => t \in Marks(text, seg, k)
      BY <1>1, <2>1, <2>2 DEF Marks
    <3>2. SectionAt(text, seg, n) = IF t = 0 THEN seg.section ELSE text[t].mark
      BY DEF SectionAt
    <3>3. cur = IF s = 0 THEN seg.section ELSE text[s].mark
      BY DEF SectionAt, Divided
    <3>4. WellMarked(text, seg, k)
      BY DEF Divided
    <3> HIDE DEF s, t
    <3>5. CASE s = 0 \/ t = 0
      BY <2>3, <3>1, <3>2, <3>3, <3>4, <3>5 DEF WellMarked
    <3>6. CASE s # 0 /\ t # 0
      <4>1. s \in Marks(text, seg, k) /\ t \in Marks(text, seg, k)
        BY <2>3, <3>1, <3>6
      <4>2. s \in Marks(text, seg, t) \/ t \in Marks(text, seg, s)
        BY <4>1, <1>1 DEF Marks
      <4> QED BY <3>2, <3>3, <3>4, <3>6, <4>1, <4>2 DEF WellMarked
    <3> QED BY <3>5, <3>6
  <2>5. n - t - 1 # k - s \/ s # t
    BY <1>1, <1>3, <2>1, <2>2
  <2>6. ord = k - s
    BY DEF Divided
  <2> QED BY <2>4, <2>5, <2>6 DEF PlaceIn, LocalId
<1>7. DOMAIN recs = {PlaceIn(text, seg, n) : n \in Lines(text, seg, k)}
  BY DEF Divided
<1> QED BY <1>5, <1>6, <1>7

LEMMA RecordRead ==
  ASSUME NEW text \in Seq(Line), NEW seg, NEW k, NEW recs, NEW secs, NEW cur, NEW ord,
         Divided(text, seg, k, recs, secs, cur, ord),
         k + 1 \in 1..Len(text),
         ~(seg.kind = "marked" /\ text[k + 1].mark # NoMark),
         NEW more, more = [id \in DOMAIN recs \cup {LocalId(cur, ord)} |->
                             IF id = LocalId(cur, ord) THEN text[k + 1] ELSE recs[id]]
  PROVE  Divided(text, seg, k + 1, more, secs, cur, ord + 1)
<1> DEFINE here == LocalId(cur, ord)
<1>1. k \in Nat /\ k + 1 \in 0..Len(text)
  BY DEF Divided
<1>2. /\ Marks(text, seg, k + 1) = Marks(text, seg, k)
      /\ Lines(text, seg, k + 1) = Lines(text, seg, k) \cup {k + 1}
      /\ k + 1 \notin Lines(text, seg, k) /\ Lines(text, seg, k) \subseteq 1..k
  BY <1>1, OneMoreLine
<1>3. PlaceIn(text, seg, k + 1) = here /\ here \notin DOMAIN recs
  BY PlacesDiffer
<1> HIDE DEF here
<1>4. /\ more = [id \in DOMAIN recs \cup {here} |-> IF id = here THEN text[k + 1] ELSE recs[id]]
      /\ here = LocalId(cur, ord)
  BY DEF here
<1>5. /\ DOMAIN more = DOMAIN recs \cup {here} /\ more[here] = text[k + 1]
      /\ \A id \in DOMAIN recs : more[id] = recs[id]
      /\ more = [id \in DOMAIN more |-> more[id]]
  BY <1>3, <1>4
<1>6. /\ DOMAIN recs = {PlaceIn(text, seg, n) : n \in Lines(text, seg, k)}
      /\ \A n \in Lines(text, seg, k) : recs[PlaceIn(text, seg, n)] = text[n]
  BY DEF Divided
<1>7. /\ DOMAIN more = {PlaceIn(text, seg, n) : n \in Lines(text, seg, k + 1)}
      /\ \A n \in Lines(text, seg, k + 1) : more[PlaceIn(text, seg, n)] = text[n]
  BY <1>2, <1>3, <1>5, <1>6
<1>8. /\ IsFiniteSet(DOMAIN more)
      /\ Cardinality(DOMAIN more) = Cardinality(Lines(text, seg, k + 1))
  <2>1. IsFiniteSet(Lines(text, seg, k))
    <3>1. IsFiniteSet(1..k)
      <4>1. 1 \in Int /\ k \in Int
        BY <1>1
      <4> QED BY <4>1, FS_Interval, Zenon
    <3> QED BY <1>2, <3>1, FS_Subset
  <2>2. Cardinality(Lines(text, seg, k + 1)) = Cardinality(Lines(text, seg, k)) + 1
    BY <1>2, <2>1, FS_AddElement
  <2>3. IsFiniteSet(DOMAIN recs) /\ Cardinality(DOMAIN recs) = Cardinality(Lines(text, seg, k))
    BY DEF Divided
  <2>4. IsFiniteSet(DOMAIN more) /\ Cardinality(DOMAIN more) = Cardinality(DOMAIN recs) + 1
    BY <1>3, <1>5, <2>3, FS_AddElement
  <2> QED BY <2>2, <2>3, <2>4
<1>9. DOMAIN more \subseteq Nat \X Nat
  BY <1>4, <1>5 DEF Divided, LocalId
<1>10. /\ secs = {seg.section} \cup {text[m].mark : m \in Marks(text, seg, k + 1)}
       /\ cur = SectionAt(text, seg, k + 1) /\ cur \in Nat
  BY <1>2, Zenon DEF Divided, SectionAt
<1>11. ord + 1 = (k + 1) - Start(Marks(text, seg, k + 1)) /\ ord + 1 \in Nat
  <2>1. ord = k - Start(Marks(text, seg, k)) /\ ord \in Nat
    BY DEF Divided
  <2>2. Start(Marks(text, seg, k)) \in 0..k
    <3>1. LastIsLargest(text, seg, k) /\ k \in 0..k
      BY <1>1 DEF Divided
    <3> QED BY <1>1, <3>1, StartIsBefore
  <2> QED BY <1>1, <1>2, <2>1, <2>2
<1>12. WellMarked(text, seg, k + 1)
  BY <1>2, Zenon DEF Divided, WellMarked
<1>13. LastIsLargest(text, seg, k + 1)
  <2> SUFFICES ASSUME NEW n \in 0..(k + 1), Marks(text, seg, n) # {}
               PROVE  /\ Start(Marks(text, seg, n)) \in Marks(text, seg, n)
                      /\ \A p \in Marks(text, seg, n) : p <= Start(Marks(text, seg, n))
    BY DEF LastIsLargest
  <2>1. CASE n \in 0..k
    BY <2>1 DEF Divided, LastIsLargest
  <2>2. CASE n = k + 1
    BY <1>1, <1>2, <2>2 DEF Divided, LastIsLargest
  <2> QED BY <1>1, <2>1, <2>2
<1> QED BY <1>1, <1>5, <1>7, <1>8, <1>9, <1>10, <1>11, <1>12, <1>13, Zenon DEF Divided

-----------------------------------------------------------------------------
(* The calls of open. *)

PlanOf(r) == [layers  |-> r.layers,
              seg     |-> r.seg,
              indexes |-> [n \in {r.specs[i].name : i \in DOMAIN r.specs} |->
                             LET i == CHOOSE i \in DOMAIN r.specs : r.specs[i].name = n
                             IN  r.specs[i].extractor]]

(* A store is the division of the whole text its request declares.          *)
Opens(st, a, r) ==
  LET text == a.readings[r.layers] IN
  /\ st = MakeStore(a.digest, PlanOf(r), st.records, st.sections)
  /\ text \in Seq(Line)
  /\ \E cur, ord : Divided(text, r.seg, Len(text), st.records, st.sections, cur, ord)

Phases == {"idle", "plan", "decode", "segment", "refused"}

Typed == /\ artifact \in Artifacts /\ request \in Requests /\ phase \in Phases
         /\ layer \in Nat /\ cursor \in Nat \ {0}

Nothing == cursor = 1 /\ ordinal = 0 /\ records = << >>

Deciding == phase = "plan" => layer = 0 /\ Nothing

Decoding ==
  phase = "decode" => /\ request.layers > 0 /\ ~Repeats(request.specs)
                      /\ layer <= request.layers /\ layer <= Len(artifact.readings)
                      /\ Nothing

Segmenting ==
  phase = "segment" => /\ request.layers > 0 /\ ~Repeats(request.specs)
                       /\ request.layers <= Len(artifact.readings)
                       /\ layer = request.layers /\ request.seg.kind # "bare"
                       /\ Divided(Text, request.seg, cursor - 1, records, sections, current, ordinal)

Refusing == phase = "refused" => ~Openable

Returned == \A st \in opened : \E a \in Artifacts, r \in Requests : Opens(st, a, r)

Inv == Typed /\ Deciding /\ Decoding /\ Segmenting /\ Refusing /\ Returned

LEMMA TextsAreTyped ==
  ASSUME NEW a \in Artifacts, NEW n \in Nat, 0 < n, n <= Len(a.readings)
  PROVE  a.readings[n] \in Seq(Line)
<1>1. a.readings \in Seq(Seq(Line))
  BY ReadingsAreTexts
<1>2. n \in 1..Len(a.readings)
  BY <1>1
<1> QED BY <1>1, <1>2

(* StoreOpen says the same of the text at the declared depth.               *)
LEMMA SameDivision ==
  ASSUME NEW n
  PROVE  /\ MarkersUpTo(n) = Marks(DeclaredText, request.seg, n)
         /\ RecordLines(n) = Lines(DeclaredText, request.seg, n)
         /\ Place(n) = PlaceIn(DeclaredText, request.seg, n)
<1>1. MarkersUpTo(n) = Marks(DeclaredText, request.seg, n)
  BY DEF MarkersUpTo, Marks, IsMarker
<1>2. RecordLines(n) = Lines(DeclaredText, request.seg, n)
  BY <1>1 DEF RecordLines, Lines
<1>3. (IF MarkersUpTo(n) = {} THEN 0 ELSE Opener(n)) = Start(Marks(DeclaredText, request.seg, n))
  <2>1. Opener(n) = Largest(MarkersUpTo(n))
    BY DEF Opener, Largest
  <2> QED BY <1>1, <2>1 DEF Start
<1>4. Place(n) = PlaceIn(DeclaredText, request.seg, n)
  BY <1>3 DEF Place, PlaceIn, SectionAt
<1> QED BY <1>1, <1>2, <1>4

LEMMA OpenableMeans ==
  Openable <=> /\ request.layers > 0 /\ ~Repeats(request.specs)
               /\ request.layers <= Len(artifact.readings)
               /\ request.seg.kind # "bare"
               /\ WellMarked(DeclaredText, request.seg, Len(DeclaredText))
<1>1. \A n : MarkersUpTo(n) = Marks(DeclaredText, request.seg, n)
  BY SameDivision
<1> QED BY <1>1 DEF Openable, WellMarked

LEMMA InvInit == Init => Inv
BY DEF Init, Inv, Typed, Phases, Deciding, Decoding, Segmenting, Refusing, Returned

LEMMA CallStep == Inv /\ Call => Inv'
<1> SUFFICES ASSUME Inv, Call PROVE Inv'
  OBVIOUS
<1> USE DEF Inv, Call, Fresh
<1>1. Typed'
  BY DEF Typed, Phases
<1>2. Deciding' /\ Decoding' /\ Segmenting' /\ Refusing'
  BY DEF Deciding, Decoding, Segmenting, Refusing, Nothing
<1>3. Returned'
  BY DEF Returned
<1> QED BY <1>1, <1>2, <1>3

(* A refusal keeps all but the phase.                                       *)
LEMMA RefuseStep ==
  ASSUME Inv, Refuse, ~Openable
  PROVE  Inv'
<1> USE DEF Inv, Refuse
<1>1. Openable' = Openable
  BY DEF Openable, DeclaredText, MarkersUpTo, IsMarker
<1>2. Typed'
  BY DEF Typed, Phases, locals
<1>3. Deciding' /\ Decoding' /\ Segmenting' /\ Refusing'
  BY <1>1 DEF Deciding, Decoding, Segmenting, Refusing
<1>4. Returned'
  BY DEF Returned
<1> QED BY <1>2, <1>3, <1>4

LEMMA PlanStep == Inv /\ (PlanRefused \/ PlanAccepted) => Inv'
<1> SUFFICES ASSUME Inv, PlanRefused \/ PlanAccepted PROVE Inv'
  OBVIOUS
<1>1. CASE PlanRefused
  <2>1. request.layers \in Nat
    BY RequestsAreTyped DEF Inv, Typed
  <2>2. ~Openable
    BY <1>1, <2>1, OpenableMeans DEF PlanRefused
  <2> QED BY <1>1, <2>2, RefuseStep DEF PlanRefused
<1>2. CASE PlanAccepted
  <2> USE <1>2 DEF Inv, PlanAccepted, locals
  <2>1. request.layers \in Nat /\ Len(artifact.readings) \in Nat
    BY RequestsAreTyped, ReadingsAreTexts DEF Typed
  <2>2. Typed'
    BY DEF Typed, Phases
  <2>3. Decoding'
    BY <2>1 DEF Deciding, Decoding, Nothing, Repeats
  <2>4. Deciding' /\ Segmenting' /\ Refusing' /\ Returned'
    BY DEF Deciding, Segmenting, Refusing, Returned
  <2> QED BY <2>2, <2>3, <2>4
<1> QED BY <1>1, <1>2

LEMMA DecodeStep == Inv /\ (DecodeLayer \/ DecodeFails) => Inv'
<1> SUFFICES ASSUME Inv, DecodeLayer \/ DecodeFails PROVE Inv'
  OBVIOUS
<1>1. /\ request.layers \in Nat /\ Len(artifact.readings) \in Nat /\ layer \in Nat
      /\ DOMAIN artifact.readings = 1..Len(artifact.readings)
  BY RequestsAreTyped, ReadingsAreTexts DEF Inv, Typed
<1>2. CASE DecodeFails
  <2>1. layer <= Len(artifact.readings) /\ layer < request.layers
        /\ layer + 1 \notin 1..Len(artifact.readings)
    BY <1>1, <1>2 DEF DecodeFails, LayerDecodes, Inv, Decoding
  <2>2. ~(request.layers <= Len(artifact.readings))
    BY <1>1, <2>1
  <2> QED BY <1>2, <2>2, OpenableMeans, RefuseStep DEF DecodeFails
<1>3. CASE DecodeLayer
  <2> USE <1>3 DEF Inv, DecodeLayer
  <2>1. Typed'
    BY <1>1 DEF Typed, Phases
  <2>2. Decoding'
    <3>1. layer + 1 <= request.layers /\ layer + 1 <= Len(artifact.readings)
      BY <1>1 DEF LayerDecodes
    <3> QED BY <3>1 DEF Decoding, Nothing
  <2>3. Deciding' /\ Segmenting' /\ Refusing' /\ Returned'
    BY DEF Deciding, Segmenting, Refusing, Returned
  <2> QED BY <2>1, <2>2, <2>3
<1> QED BY <1>2, <1>3

LEMMA StartStep == Inv /\ (BareMarkers \/ StartSegment) => Inv'
<1> SUFFICES ASSUME Inv, BareMarkers \/ StartSegment PROVE Inv'
  OBVIOUS
<1>1. CASE BareMarkers
  BY <1>1, OpenableMeans, RefuseStep DEF BareMarkers
<1>2. CASE StartSegment
  <2>1. /\ phase = "decode" /\ layer = request.layers /\ request.seg.kind # "bare"
        /\ phase' = "segment"
        /\ sections' = {request.seg.section} /\ current' = request.seg.section
        /\ UNCHANGED <<opened, artifact, request, layer, cursor, ordinal, records>>
    BY <1>2 DEF StartSegment, Depth
  <2>2. Typed'
    BY <2>1 DEF Inv, Typed, Phases
  <2>3. /\ request.layers \in Nat /\ request.layers > 0 /\ ~Repeats(request.specs)
        /\ request.layers <= Len(artifact.readings)
        /\ Nothing
    BY <2>1, RequestsAreTyped DEF Inv, Typed, Decoding
  <2>4. Text \in Seq(Line) /\ request.seg.section \in Nat
    BY <2>1, <2>3, TextsAreTyped, RequestsAreTyped DEF Inv, Typed, Text
  <2>5. Divided(Text, request.seg, 0, << >>, {request.seg.section}, request.seg.section, 0)
    BY <2>4, NothingRead
  <2>6. /\ Text' = Text /\ request' = request /\ cursor' - 1 = 0 /\ records' = << >>
        /\ sections' = {request.seg.section} /\ current' = request.seg.section /\ ordinal' = 0
    BY <2>1, <2>3 DEF Text, Nothing
  <2>7. Divided(Text', request'.seg, cursor' - 1, records', sections', current', ordinal')
    BY <2>5, <2>6
  <2>8. Segmenting'
    BY <2>1, <2>3, <2>7 DEF Segmenting, Repeats
  <2>9. Deciding' /\ Decoding' /\ Refusing' /\ Returned'
    BY <2>1 DEF Inv, Deciding, Decoding, Refusing, Returned
  <2> QED BY <2>2, <2>8, <2>9 DEF Inv
<1> QED BY <1>1, <1>2

(* While lines are read, the text is the declared one.                      *)
LEMMA Reading ==
  ASSUME Inv, phase = "segment"
  PROVE  /\ Text = DeclaredText /\ Text \in Seq(Line)
         /\ request.layers \in Nat /\ request.layers > 0 /\ ~Repeats(request.specs)
         /\ request.layers <= Len(artifact.readings)
         /\ layer = request.layers /\ request.seg.kind # "bare"
         /\ cursor \in Nat \ {0} /\ cursor - 1 \in 0..Len(Text)
         /\ Divided(Text, request.seg, cursor - 1, records, sections, current, ordinal)
<1>1. Segmenting /\ Typed
  BY DEF Inv
<1>2. request.layers \in Nat
  BY <1>1, RequestsAreTyped DEF Typed
<1>3. Text = DeclaredText
  BY <1>1 DEF Segmenting, Text, DeclaredText
<1>4. Text \in Seq(Line)
  BY <1>1, <1>2, TextsAreTyped DEF Segmenting, Typed, Text
<1>5. cursor - 1 \in 0..Len(Text)
  BY <1>1 DEF Segmenting, Divided
<1> QED BY <1>1, <1>2, <1>3, <1>4, <1>5 DEF Segmenting, Typed

(* What a line that is read has to show.                                    *)
LEMMA LineRead ==
  ASSUME Inv, phase = "segment",
         UNCHANGED <<opened, phase, artifact, request, layer>>,
         cursor' = cursor + 1,
         Divided(Text, request.seg, cursor, records', sections', current', ordinal')
  PROVE  Inv'
<1>1. Typed'
  BY DEF Inv, Typed
<1>2. cursor' - 1 = cursor /\ Text' = Text
  BY DEF Inv, Typed, Text
<1>3. Divided(Text', request'.seg, cursor' - 1, records', sections', current', ordinal')
  BY <1>2
<1>4. Segmenting'
  BY <1>3 DEF Inv, Segmenting, Repeats
<1>5. Deciding' /\ Decoding' /\ Refusing' /\ Returned'
  BY DEF Inv, Deciding, Decoding, Refusing, Returned
<1> QED BY <1>1, <1>4, <1>5 DEF Inv

LEMMA MarkerStep == Inv /\ (MarkerRefused \/ OpenSection) => Inv'
<1> SUFFICES ASSUME Inv, MarkerRefused \/ OpenSection PROVE Inv'
  OBVIOUS
<1>1. /\ phase = "segment" /\ cursor <= Len(Text)
      /\ request.seg.kind = "marked" /\ Text[cursor].mark # NoMark
  BY DEF MarkerRefused, OpenSection, AtLine, IsMarker
<1> DEFINE k == cursor - 1
<1>2. /\ Text = DeclaredText /\ Text \in Seq(Line) /\ cursor = k + 1
      /\ cursor \in 1..Len(Text)
      /\ Divided(Text, request.seg, k, records, sections, current, ordinal)
  BY <1>1, Reading
<1>3. CASE MarkerRefused
  <2>1. Text[cursor].mark \in {BadName} \cup sections
    BY <1>3 DEF MarkerRefused
  <2>2. cursor \in Marks(Text, request.seg, Len(Text))
    BY <1>1, <1>2 DEF Marks
  <2>3. ~WellMarked(Text, request.seg, Len(Text))
    <3>1. CASE Text[cursor].mark \in {BadName, request.seg.section}
      BY <2>2, <3>1 DEF WellMarked
    <3>2. CASE Text[cursor].mark \notin {BadName, request.seg.section}
      <4>1. sections = {request.seg.section} \cup {Text[m].mark : m \in Marks(Text, request.seg, k)}
        BY <1>2 DEF Divided
      <4>2. PICK p \in Marks(Text, request.seg, k) : Text[p].mark = Text[cursor].mark
        BY <2>1, <3>2, <4>1
      <4>3. p \in Marks(Text, request.seg, cursor) /\ p # cursor
        BY <1>2 DEF Marks
      <4> QED BY <2>2, <4>2, <4>3 DEF WellMarked
    <3> QED BY <3>1, <3>2
  <2> QED BY <1>2, <1>3, <2>3, OpenableMeans, RefuseStep DEF MarkerRefused
<1>4. CASE OpenSection
  <2>1. /\ Text[cursor].mark \notin {BadName} \cup sections
        /\ sections' = sections \cup {Text[cursor].mark}
        /\ current' = Text[cursor].mark /\ ordinal' = 0 /\ cursor' = cursor + 1
        /\ UNCHANGED <<opened, phase, artifact, request, layer, records>>
    BY <1>4 DEF OpenSection
  <2> HIDE DEF k
  <2>2. Divided(Text, request.seg, k + 1, records, sections \cup {Text[k + 1].mark},
                Text[k + 1].mark, 0)
    BY <1>1, <1>2, <2>1, MarkerRead
  <2>3. Divided(Text, request.seg, cursor, records', sections', current', ordinal')
    BY <1>2, <2>1, <2>2
  <2> QED BY <1>1, <2>1, <2>3, LineRead
<1> QED BY <1>3, <1>4

(* The place of a line is never taken: insert_record refuses nothing.       *)
LEMMA RecordStep == Inv /\ InsertRecord => Inv'
<1> SUFFICES ASSUME Inv, InsertRecord PROVE Inv'
  OBVIOUS
<1>1. /\ phase = "segment" /\ cursor <= Len(Text)
      /\ ~(request.seg.kind = "marked" /\ Text[cursor].mark # NoMark)
  BY DEF InsertRecord, AtLine, IsMarker
<1> DEFINE k == cursor - 1
<1>2. /\ Text \in Seq(Line) /\ cursor = k + 1
      /\ cursor \in 1..Len(Text)
      /\ Divided(Text, request.seg, k, records, sections, current, ordinal)
  BY <1>1, Reading
<1> HIDE DEF k
<1>3. Here = LocalId(current, ordinal) /\ Here \notin DOMAIN records
  BY <1>1, <1>2, PlacesDiffer DEF Here
<1>4. /\ records' = [id \in DOMAIN records \cup {Here} |->
                        IF id = Here THEN Text[cursor] ELSE records[id]]
      /\ ordinal' = ordinal + 1 /\ cursor' = cursor + 1
      /\ UNCHANGED <<opened, phase, artifact, request, layer, current, sections>>
  BY <1>3 DEF InsertRecord
<1>5. records' = [id \in DOMAIN records \cup {LocalId(current, ordinal)} |->
                    IF id = LocalId(current, ordinal) THEN Text[k + 1] ELSE records[id]]
  BY <1>2, <1>3, <1>4
<1>6. Divided(Text, request.seg, k + 1, records', sections, current, ordinal + 1)
  BY <1>1, <1>2, <1>5, RecordRead
<1>7. Divided(Text, request.seg, cursor, records', sections', current', ordinal')
  BY <1>2, <1>4, <1>6
<1> QED BY <1>1, <1>4, <1>7, LineRead

LEMMA ReturnStep == Inv /\ Return => Inv'
<1> SUFFICES ASSUME Inv, Return PROVE Inv'
  OBVIOUS
<1>1. /\ phase = "segment" /\ cursor > Len(Text) /\ phase' = "idle"
      /\ opened' = opened \cup {MakeStore(artifact.digest, Plan, records, sections)}
      /\ layer' = 0 /\ cursor' = 1 /\ UNCHANGED <<artifact, request>>
  BY DEF Return, Fresh
<1>2. /\ Text = DeclaredText /\ Text \in Seq(Line) /\ cursor - 1 = Len(Text)
      /\ Divided(Text, request.seg, cursor - 1, records, sections, current, ordinal)
  <2>1. cursor - 1 \in 0..Len(Text) /\ cursor \in Nat \ {0} /\ Text \in Seq(Line)
    BY <1>1, Reading
  <2>2. cursor - 1 = Len(Text)
    BY <1>1, <2>1
  <2> QED BY <1>1, <2>1, <2>2, Reading
<1> DEFINE st == MakeStore(artifact.digest, Plan, records, sections)
<1>3. st.records = records /\ st.sections = sections
  BY DEF MakeStore
<1>4. Plan = PlanOf(request)
  BY DEF Plan, PlanOf
<1>5. st = MakeStore(artifact.digest, PlanOf(request), st.records, st.sections)
  BY <1>3, <1>4
<1>6. Text = artifact.readings[request.layers]
  BY <1>2 DEF DeclaredText
<1>7. Divided(Text, request.seg, Len(Text), st.records, st.sections, current, ordinal)
  BY <1>2, <1>3
<1> HIDE DEF st
<1>8. Opens(st, artifact, request)
  BY <1>2, <1>5, <1>6, <1>7 DEF Opens
<1>9. Returned'
  <2>1. opened' = opened \cup {st}
    BY <1>1 DEF st
  <2> QED BY <1>8, <2>1 DEF Inv, Typed, Returned
<1>10. Typed'
  BY <1>1 DEF Inv, Typed, Phases
<1>11. Deciding' /\ Decoding' /\ Segmenting' /\ Refusing'
  BY <1>1 DEF Deciding, Decoding, Segmenting, Refusing
<1> QED BY <1>9, <1>10, <1>11 DEF Inv

LEMMA NextStep == Inv /\ [Next]_vars => Inv'
<1> SUFFICES ASSUME Inv, [Next]_vars PROVE Inv'
  OBVIOUS
<1>1. CASE UNCHANGED vars
  <2>1. Openable' = Openable
    BY <1>1 DEF vars, Openable, DeclaredText, MarkersUpTo, IsMarker
  <2> QED BY <1>1, <2>1 DEF vars, Inv, Typed, Deciding, Decoding, Nothing, Segmenting, Text,
                            Refusing, Returned, Repeats
<1>2. CASE Next
  BY <1>2, CallStep, PlanStep, DecodeStep, StartStep, MarkerStep, RecordStep, ReturnStep DEF Next
<1> QED BY <1>1, <1>2

-----------------------------------------------------------------------------
(* What the invariant says of a store and of a call. *)

LEMMA InvMeansOneRecord == Inv => EveryLineIsOneRecord
<1> SUFFICES ASSUME Inv, phase = "segment" PROVE EveryLineIsOneRecord
  BY DEF EveryLineIsOneRecord
<1>1. /\ Text = DeclaredText
      /\ Divided(Text, request.seg, cursor - 1, records, sections, current, ordinal)
  BY Reading
<1>2. RecordLines(cursor - 1) = Lines(DeclaredText, request.seg, cursor - 1)
  BY SameDivision
<1>3. MarkersUpTo(cursor - 1) = Marks(DeclaredText, request.seg, cursor - 1)
  BY SameDivision
<1>4. \A n : Place(n) = PlaceIn(DeclaredText, request.seg, n)
  BY SameDivision
<1> QED BY <1>1, <1>2, <1>3, <1>4 DEF EveryLineIsOneRecord, Divided

LEMMA InvMeansDeclared == Inv => OpensExactlyWhatIsDeclared
<1> SUFFICES ASSUME Inv PROVE OpensExactlyWhatIsDeclared
  OBVIOUS
<1>1. phase = "refused" => ~Openable
  BY DEF Inv, Refusing
<1>2. ASSUME phase = "segment", cursor > Len(Text)
      PROVE  Openable
  <2>1. cursor \in Nat \ {0} /\ cursor - 1 \in 0..Len(Text) /\ Text \in Seq(Line)
    BY <1>2, Reading
  <2>2. cursor - 1 = Len(Text)
    BY <1>2, <2>1
  <2>3. WellMarked(DeclaredText, request.seg, Len(DeclaredText))
    BY <1>2, <2>2, Reading DEF Divided
  <2> QED BY <1>2, <2>3, Reading, OpenableMeans
<1> QED BY <1>1, <1>2 DEF OpensExactlyWhatIsDeclared

LEMMA StoresAreWellFormed ==
  ASSUME Inv, NEW st \in opened
  PROVE  WellFormed(st)
<1>1. PICK a \in Artifacts, r \in Requests : Opens(st, a, r)
  BY DEF Inv, Returned
<1> DEFINE made == MakeStore(a.digest, PlanOf(r), st.records, st.sections)
<1>2. st = made
  BY <1>1 DEF Opens
<1>3. IsFiniteSet(DOMAIN st.records) /\ DOMAIN st.records \subseteq Nat \X Nat
  BY <1>1 DEF Opens, Divided
<1>4. /\ made.id = StoreId(made.artifact, made.plan)
      /\ made.indexes = [n \in DOMAIN made.plan.indexes |-> BuildIndex(st.records, made.plan.indexes[n])]
  BY DEF MakeStore
<1> HIDE DEF made
<1> QED BY <1>2, <1>3, <1>4 DEF WellFormed

(* Digest and plan decide the records.                                      *)
LEMMA SameOpeningSameRecords ==
  ASSUME Inv, NEW s \in opened, NEW t \in opened, s.artifact = t.artifact, s.plan = t.plan
  PROVE  s.id = t.id /\ s.records = t.records
<1>1. PICK a \in Artifacts, r \in Requests : Opens(s, a, r)
  BY DEF Inv, Returned
<1>2. PICK b \in Artifacts, q \in Requests : Opens(t, b, q)
  BY DEF Inv, Returned
<1>3. s.id = t.id
  BY StoresAreWellFormed DEF WellFormed
<1>4. /\ s.artifact = a.digest /\ s.plan = PlanOf(r)
      /\ t.artifact = b.digest /\ t.plan = PlanOf(q)
  BY <1>1, <1>2 DEF Opens, MakeStore
<1>5. a.readings = b.readings
  BY <1>4, DigestsTellApart
<1>6. r.layers = q.layers /\ r.seg = q.seg
  <2>1. /\ PlanOf(r).layers = r.layers /\ PlanOf(r).seg = r.seg
        /\ PlanOf(q).layers = q.layers /\ PlanOf(q).seg = q.seg
    BY DEF PlanOf
  <2>2. PlanOf(r) = PlanOf(q)
    BY <1>4
  <2> QED BY <2>1, <2>2
<1> DEFINE text == a.readings[r.layers]
           own == Lines(text, r.seg, Len(text))
           P(n) == PlaceIn(text, r.seg, n)
<1>7. /\ s.records = [id \in DOMAIN s.records |-> s.records[id]]
      /\ DOMAIN s.records = {P(n) : n \in own}
      /\ \A n \in own : s.records[P(n)] = text[n]
  BY <1>1 DEF Opens, Divided
<1>8. /\ t.records = [id \in DOMAIN t.records |-> t.records[id]]
      /\ DOMAIN t.records = {P(n) : n \in own}
      /\ \A n \in own : t.records[P(n)] = text[n]
  BY <1>2, <1>5, <1>6 DEF Opens, Divided
<1>9. DOMAIN s.records = DOMAIN t.records
  BY <1>7, <1>8
<1>10. \A id \in DOMAIN s.records : s.records[id] = t.records[id]
  BY <1>7, <1>8
<1> QED BY <1>3, <1>7, <1>8, <1>9, <1>10

LEMMA InvMeansOwnStore == Inv => IdsResolveInTheirStoreOnly
<1> SUFFICES ASSUME Inv, NEW s \in opened, NEW t \in opened, NEW l \in DOMAIN s.records
             PROVE  /\ Materializable(t, {Bind(s, l)}) => s.artifact = t.artifact /\ s.plan = t.plan
                    /\ s.artifact = t.artifact /\ s.plan = t.plan =>
                         /\ Materializable(t, {Bind(s, l)})
                         /\ Bytes(t, {Bind(s, l)}) = Bytes(s, {Bind(s, l)})
  BY DEF IdsResolveInTheirStoreOnly
<1>1. /\ s.id = <<s.artifact, s.plan>> /\ t.id = <<t.artifact, t.plan>>
  BY StoresAreWellFormed DEF WellFormed, StoreId
<1>2. Materializable(t, {Bind(s, l)}) => s.artifact = t.artifact /\ s.plan = t.plan
  BY <1>1 DEF Materializable, Bind
<1>3. ASSUME s.artifact = t.artifact, s.plan = t.plan
      PROVE  /\ Materializable(t, {Bind(s, l)})
             /\ Bytes(t, {Bind(s, l)}) = Bytes(s, {Bind(s, l)})
  <2>1. s.id = t.id /\ s.records = t.records
    BY <1>3, SameOpeningSameRecords
  <2> QED BY <2>1 DEF Materializable, Bytes, Bind
<1> QED BY <1>2, <1>3

-----------------------------------------------------------------------------
(* One scan of a store that was returned. *)

(* An index lists integer keys, finitely many records under each, and no    *)
(* record under two of them.                                                *)
GoodIndex(index) ==
  /\ DOMAIN index \subseteq Int /\ IsFiniteSet(DOMAIN index)
  /\ \A k \in DOMAIN index : IsFiniteSet(index[k])
  /\ \A k, q \in DOMAIN index : k # q => index[k] \cap index[q] = {}

LEMMA LinesHaveKeys ==
  ASSUME NEW line \in Line, NEW ext
  PROVE  Extract(ext, line) \in Int
BY DEF Extract, Line, NoKey

LEMMA ReturnedIndexesAreGood ==
  ASSUME Inv, NEW st \in opened, NEW name \in DOMAIN st.indexes
  PROVE  GoodIndex(st.indexes[name])
<1>1. PICK a \in Artifacts, r \in Requests : Opens(st, a, r)
  BY DEF Inv, Returned
<1> DEFINE text == a.readings[r.layers]
           ext == st.plan.indexes[name]
           index == st.indexes[name]
           keys == {Extract(ext, st.records[id]) : id \in DOMAIN st.records}
<1>2. /\ text \in Seq(Line)
      /\ DOMAIN st.records = {PlaceIn(text, r.seg, n) : n \in Lines(text, r.seg, Len(text))}
      /\ \A n \in Lines(text, r.seg, Len(text)) : st.records[PlaceIn(text, r.seg, n)] = text[n]
  BY <1>1 DEF Opens, Divided
<1>3. \A id \in DOMAIN st.records : st.records[id] \in Line
  <2> SUFFICES ASSUME NEW n \in Lines(text, r.seg, Len(text)) PROVE text[n] \in Line
    BY <1>2
  <2>1. n \in 1..Len(text)
    BY DEF Lines
  <2> QED BY <1>2, <2>1
<1>4. IsFiniteSet(DOMAIN st.records) /\ index = BuildIndex(st.records, ext)
  BY StoresAreWellFormed DEF WellFormed
<1>5. index = [k \in keys \ {NoKey} |-> {id \in DOMAIN st.records : Extract(ext, st.records[id]) = k}]
  BY <1>4 DEF BuildIndex
<1>6. DOMAIN index = keys \ {NoKey}
  BY <1>5
<1>7. \A k \in DOMAIN index : index[k] = {id \in DOMAIN st.records : Extract(ext, st.records[id]) = k}
  BY <1>5, <1>6
<1>8. keys \subseteq Int
  BY <1>3, LinesHaveKeys
<1>9. IsFiniteSet(keys)
  <2> DEFINE f == [id \in DOMAIN st.records |-> Extract(ext, st.records[id])]
  <2>1. f \in Surjection(DOMAIN st.records, keys)
    BY DEF Surjection
  <2> QED BY <1>4, <2>1, FS_Surjection
<1> HIDE DEF index, keys
<1>10. DOMAIN index \subseteq Int /\ IsFiniteSet(DOMAIN index)
  BY <1>6, <1>8, <1>9, FS_Subset
<1>11. \A k \in DOMAIN index : IsFiniteSet(index[k])
  BY <1>4, <1>7, FS_Subset
<1>12. \A k, q \in DOMAIN index : k # q => index[k] \cap index[q] = {}
  BY <1>7
<1> QED BY <1>10, <1>11, <1>12 DEF GoodIndex, index

LEMMA EvidenceIsFinite ==
  ASSUME NEW index, GoodIndex(index), NEW wanted, NEW keys \in SUBSET DOMAIN index
  PROVE  /\ IsFiniteSet(keys)
         /\ IsFiniteSet(Spent(index, wanted, keys))
         /\ \A k \in DOMAIN index : IsFiniteSet(Evidence(index, wanted, k))
<1>1. \A k \in DOMAIN index : Evidence(index, wanted, k) \subseteq index[k]
  BY DEF Evidence
<1>2. \A k \in DOMAIN index : IsFiniteSet(Evidence(index, wanted, k))
  BY <1>1, FS_Subset DEF GoodIndex
<1>3. IsFiniteSet(keys)
  BY FS_Subset DEF GoodIndex
<1> DEFINE parts == {Evidence(index, wanted, q) : q \in keys}
<1>4. IsFiniteSet(parts)
  <2> DEFINE f == [q \in keys |-> Evidence(index, wanted, q)]
  <2>1. f \in Surjection(keys, parts)
    BY DEF Surjection
  <2> QED BY <1>3, <2>1, FS_Surjection
<1>5. \A T \in parts : IsFiniteSet(T)
  BY <1>2
<1>6. IsFiniteSet(UNION parts)
  BY <1>4, <1>5, FS_UNION
<1> QED BY <1>2, <1>3, <1>6 DEF Spent

(* The running total: evidence of different keys is disjoint.               *)
LEMMA OneMoreKey ==
  ASSUME NEW index, GoodIndex(index), NEW wanted, NEW keys \in SUBSET DOMAIN index,
         NEW k \in DOMAIN index, k \notin keys
  PROVE  /\ Cardinality(Spent(index, wanted, keys)) \in Nat
         /\ Cardinality(Evidence(index, wanted, k)) \in Nat
         /\ Cardinality(Spent(index, wanted, keys \cup {k}))
              = Cardinality(Spent(index, wanted, keys)) + Cardinality(Evidence(index, wanted, k))
<1> DEFINE A == Spent(index, wanted, keys)
           B == Evidence(index, wanted, k)
<1>1. IsFiniteSet(A) /\ IsFiniteSet(B)
  BY EvidenceIsFinite
<1>2. Spent(index, wanted, keys \cup {k}) = A \cup B
  BY DEF Spent
<1>3. A \cap B = {}
  BY DEF Spent, Evidence, GoodIndex
<1> HIDE DEF A, B
<1>4. /\ Cardinality(A) \in Nat /\ Cardinality(B) \in Nat
      /\ Cardinality(A \cup B) = Cardinality(A) + Cardinality(B) - Cardinality(A \cap B)
  BY <1>1, FS_Union, FS_CardinalityType
<1>5. Cardinality({}) = 0
  BY FS_EmptySet
<1>6. Cardinality(Spent(index, wanted, keys \cup {k})) = Cardinality(A) + Cardinality(B)
  <2>1. Cardinality(A \cap B) = 0
    BY <1>3, <1>5
  <2>2. Cardinality(A \cup B) = Cardinality(A) + Cardinality(B)
    BY <1>4, <2>1
  <2> QED BY <1>2, <2>2
<1> QED BY <1>4, <1>6, Zenon DEF A, B

(* Once a key does not fit, no later one does.                              *)
LEMMA FitsIsDownward ==
  ASSUME NEW index, GoodIndex(index), NEW wanted, NEW c \in Nat, NEW s \in Nat,
         NEW k \in Qualifying(index, wanted), NEW q \in Qualifying(index, wanted), k <= q,
         Fits(index, wanted, q, c, s)
  PROVE  Fits(index, wanted, k, c, s)
<1> DEFINE Q == Qualifying(index, wanted)
           ek == Earlier(Q, k)
           eq == Earlier(Q, q)
<1>1. Q \subseteq DOMAIN index /\ Q \subseteq Int
  BY DEF Qualifying, GoodIndex
<1>2. ek \subseteq eq /\ ek \cup {k} \subseteq eq \cup {q}
  BY <1>1 DEF Earlier
<1>3. eq \in SUBSET DOMAIN index /\ (eq \cup {q}) \in SUBSET DOMAIN index
  BY <1>1 DEF Earlier
<1>4. IsFiniteSet(eq) /\ IsFiniteSet(Spent(index, wanted, eq \cup {q}))
  BY <1>3, EvidenceIsFinite
<1>5. Spent(index, wanted, ek \cup {k}) \subseteq Spent(index, wanted, eq \cup {q})
  BY <1>2 DEF Spent
<1>6. /\ Cardinality(eq) < c /\ Cardinality(Spent(index, wanted, eq \cup {q})) <= s
  BY DEF Fits
<1> HIDE DEF ek, eq
<1>7. /\ Cardinality(ek) <= Cardinality(eq) /\ IsFiniteSet(ek)
      /\ Cardinality(Spent(index, wanted, ek \cup {k}))
           <= Cardinality(Spent(index, wanted, eq \cup {q}))
      /\ IsFiniteSet(Spent(index, wanted, ek \cup {k}))
  BY <1>2, <1>4, <1>5, FS_Subset
<1>8. /\ Cardinality(ek) \in Nat /\ Cardinality(eq) \in Nat
      /\ Cardinality(Spent(index, wanted, ek \cup {k})) \in Nat
      /\ Cardinality(Spent(index, wanted, eq \cup {q})) \in Nat
  BY <1>4, <1>7, FS_CardinalityType
<1>9. Cardinality(ek) < c /\ Cardinality(Spent(index, wanted, ek \cup {k})) <= s
  BY <1>6, <1>7, <1>8
<1> QED BY <1>9 DEF Fits, ek

(* What a scan has collected before it visits the keys of pend: of the keys *)
(* visited, those that qualify, each with its whole evidence; and if it     *)
(* stopped, why the next one is not among them.                             *)
Stops(index, wanted, c, s, k) ==
  /\ k \in Qualifying(index, wanted) /\ ~Fits(index, wanted, k, c, s)
First(pend, k) == k \in pend /\ \A p \in pend : k <= p
StopAt(c, s, sup) == IF Cardinality(DOMAIN sup) >= c THEN StopCandidates(c) ELSE StopSupport(s)

Collected(index, wanted, c, s, pend, sup, tot, stop) ==
  /\ GoodIndex(index) /\ c \in Nat \ {0} /\ s \in Nat \ {0}
  /\ pend \subseteq DOMAIN index
  /\ \A q \in DOMAIN index \ pend, p \in pend : q < p
  /\ DOMAIN sup = Qualifying(index, wanted) \ pend
  /\ \A k \in DOMAIN sup : /\ sup[k] = Evidence(index, wanted, k)
                          /\ Fits(index, wanted, k, c, s)
  /\ tot = Cardinality(Spent(index, wanted, DOMAIN sup))
  /\ stop # NoStop =>
       /\ stop = StopAt(c, s, sup)
       /\ \E k : First(pend, k) /\ Stops(index, wanted, c, s, k)

LEMMA NothingCollected ==
  ASSUME NEW index, GoodIndex(index), NEW wanted, NEW c \in Nat \ {0}, NEW s \in Nat \ {0}
  PROVE  Collected(index, wanted, c, s, DOMAIN index, << >>, 0, NoStop)
<1>1. DOMAIN << >> = {} /\ Qualifying(index, wanted) \ DOMAIN index = {}
  BY DEF Qualifying
<1>2. Spent(index, wanted, DOMAIN << >>) = {}
  BY <1>1 DEF Spent
<1>3. 0 = Cardinality(Spent(index, wanted, DOMAIN << >>))
  BY <1>2, FS_EmptySet
<1>4. \A k \in DOMAIN << >> : FALSE
  BY <1>1
<1>5. \A q \in DOMAIN index \ DOMAIN index : FALSE
  OBVIOUS
<1>6. DOMAIN << >> = Qualifying(index, wanted) \ DOMAIN index
  BY <1>1
<1> QED BY <1>3, <1>4, <1>5, <1>6, Zenon DEF Collected

(* The key the scan is at: the qualifying keys before it are the collected  *)
(* ones.                                                                    *)
LEMMA AtTheFirstPending ==
  ASSUME NEW index, NEW wanted, NEW c, NEW s, NEW pend, NEW sup, NEW tot,
         Collected(index, wanted, c, s, pend, sup, tot, NoStop),
         NEW k, First(pend, k),
         k \in Qualifying(index, wanted)
  PROVE  /\ GoodIndex(index) /\ tot = Cardinality(Spent(index, wanted, DOMAIN sup))
         /\ Earlier(Qualifying(index, wanted), k) = DOMAIN sup
         /\ k \notin DOMAIN sup /\ DOMAIN sup \in SUBSET DOMAIN index /\ k \in DOMAIN index
<1> DEFINE Q == Qualifying(index, wanted)
<1>1. /\ GoodIndex(index) /\ pend \subseteq DOMAIN index /\ DOMAIN sup = Q \ pend
      /\ \A q \in DOMAIN index \ pend, p \in pend : q < p
      /\ tot = Cardinality(Spent(index, wanted, DOMAIN sup))
      /\ k \in pend /\ \A p \in pend : k <= p
  BY DEF Collected, First
<1>2. Q \subseteq DOMAIN index /\ DOMAIN index \subseteq Int
  BY <1>1 DEF Qualifying, GoodIndex
<1>3. \A q \in Q : q < k <=> q \notin pend
  BY <1>1, <1>2
<1>4. Earlier(Q, k) = DOMAIN sup
  BY <1>1, <1>3 DEF Earlier
<1>5. k \notin DOMAIN sup /\ DOMAIN sup \in SUBSET DOMAIN index /\ k \in DOMAIN index
  BY <1>1, <1>2
<1> QED BY <1>1, <1>4, <1>5

LEMMA KeySkipped ==
  ASSUME NEW index, NEW wanted, NEW c, NEW s, NEW pend, NEW sup, NEW tot,
         Collected(index, wanted, c, s, pend, sup, tot, NoStop),
         NEW k, First(pend, k),
         k \notin Qualifying(index, wanted)
  PROVE  Collected(index, wanted, c, s, pend \ {k}, sup, tot, NoStop)
<1>1. /\ GoodIndex(index) /\ pend \subseteq DOMAIN index
      /\ DOMAIN sup = Qualifying(index, wanted) \ pend
      /\ \A q \in DOMAIN index \ pend, p \in pend : q < p
      /\ k \in pend /\ \A p \in pend : k <= p
  BY DEF Collected, First
<1>2. DOMAIN index \subseteq Int
  BY <1>1 DEF GoodIndex
<1>3. \A q \in DOMAIN index \ (pend \ {k}), p \in pend \ {k} : q < p
  BY <1>1, <1>2
<1>4. DOMAIN sup = Qualifying(index, wanted) \ (pend \ {k}) /\ pend \ {k} \subseteq DOMAIN index
  BY <1>1
<1> QED BY <1>3, <1>4, Zenon DEF Collected

LEMMA KeyKept ==
  ASSUME NEW index, NEW wanted, NEW c, NEW s, NEW pend, NEW sup, NEW tot,
         Collected(index, wanted, c, s, pend, sup, tot, NoStop),
         NEW k, First(pend, k),
         k \in Qualifying(index, wanted),
         ~(Cardinality(DOMAIN sup) >= c),
         ~(tot + Cardinality(Evidence(index, wanted, k)) > s),
         NEW more, more = [q \in DOMAIN sup \cup {k} |->
                             IF q = k THEN Evidence(index, wanted, k) ELSE sup[q]]
  PROVE  Collected(index, wanted, c, s, pend \ {k}, more,
                   tot + Cardinality(Evidence(index, wanted, k)), NoStop)
<1> DEFINE Q == Qualifying(index, wanted)
           cost == Cardinality(Evidence(index, wanted, k))
<1>1. /\ GoodIndex(index) /\ c \in Nat \ {0} /\ s \in Nat \ {0}
      /\ pend \subseteq DOMAIN index /\ DOMAIN sup = Q \ pend
      /\ \A q \in DOMAIN index \ pend, p \in pend : q < p
      /\ \A q \in DOMAIN sup : sup[q] = Evidence(index, wanted, q) /\ Fits(index, wanted, q, c, s)
      /\ k \in pend /\ \A p \in pend : k <= p
  BY DEF Collected, First
<1>2. DOMAIN index \subseteq Int
  BY <1>1 DEF GoodIndex
<1>3. /\ Earlier(Q, k) = DOMAIN sup /\ k \notin DOMAIN sup /\ DOMAIN sup \in SUBSET DOMAIN index
      /\ tot \in Nat /\ cost \in Nat
      /\ Cardinality(Spent(index, wanted, DOMAIN sup \cup {k})) = tot + cost
  <2>1. /\ GoodIndex(index) /\ tot = Cardinality(Spent(index, wanted, DOMAIN sup))
        /\ Earlier(Q, k) = DOMAIN sup
        /\ k \notin DOMAIN sup /\ DOMAIN sup \in SUBSET DOMAIN index /\ k \in DOMAIN index
    BY AtTheFirstPending
  <2> QED BY <2>1, OneMoreKey
<1>4. Cardinality(DOMAIN sup) \in Nat
  BY <1>1, <1>3, EvidenceIsFinite, FS_CardinalityType
<1>5. Fits(index, wanted, k, c, s)
  <2>1. Cardinality(DOMAIN sup) < c /\ tot + cost <= s
    BY <1>1, <1>3, <1>4
  <2> QED BY <1>3, <2>1 DEF Fits
<1>6. /\ DOMAIN more = DOMAIN sup \cup {k}
      /\ more[k] = Evidence(index, wanted, k)
      /\ \A q \in DOMAIN sup : more[q] = sup[q]
  BY <1>3
<1>7. \A q \in DOMAIN more : more[q] = Evidence(index, wanted, q) /\ Fits(index, wanted, q, c, s)
  BY <1>1, <1>5, <1>6
<1>8. \A q \in DOMAIN index \ (pend \ {k}), p \in pend \ {k} : q < p
  BY <1>1, <1>2
<1>9. DOMAIN more = Q \ (pend \ {k}) /\ pend \ {k} \subseteq DOMAIN index
  BY <1>1, <1>6
<1>10. tot + cost = Cardinality(Spent(index, wanted, DOMAIN more))
  BY <1>3, <1>6
<1> QED BY <1>1, <1>7, <1>8, <1>9, <1>10, Zenon DEF Collected

LEMMA ScanStopped ==
  ASSUME NEW index, NEW wanted, NEW c, NEW s, NEW pend, NEW sup, NEW tot, NEW stop,
         Collected(index, wanted, c, s, pend, sup, tot, NoStop),
         NEW k, First(pend, k),
         k \in Qualifying(index, wanted)
  PROVE  (\/ Cardinality(DOMAIN sup) >= c /\ stop = StopCandidates(c)
          \/ /\ ~(Cardinality(DOMAIN sup) >= c) /\ stop = StopSupport(s)
             /\ tot + Cardinality(Evidence(index, wanted, k)) > s)
         => Collected(index, wanted, c, s, pend, sup, tot, stop)
<1>1. GoodIndex(index) /\ c \in Nat \ {0} /\ s \in Nat \ {0}
  BY DEF Collected
<1>2. /\ Earlier(Qualifying(index, wanted), k) = DOMAIN sup
      /\ k \notin DOMAIN sup /\ DOMAIN sup \in SUBSET DOMAIN index /\ k \in DOMAIN index
      /\ tot \in Nat /\ Cardinality(Evidence(index, wanted, k)) \in Nat
      /\ Cardinality(Spent(index, wanted, DOMAIN sup \cup {k}))
           = tot + Cardinality(Evidence(index, wanted, k))
  <2>1. /\ GoodIndex(index) /\ tot = Cardinality(Spent(index, wanted, DOMAIN sup))
        /\ Earlier(Qualifying(index, wanted), k) = DOMAIN sup
        /\ k \notin DOMAIN sup /\ DOMAIN sup \in SUBSET DOMAIN index /\ k \in DOMAIN index
    BY AtTheFirstPending
  <2> QED BY <2>1, OneMoreKey
<1>3. Cardinality(DOMAIN sup) \in Nat
  BY <1>1, <1>2, EvidenceIsFinite, FS_CardinalityType
<1> SUFFICES ASSUME \/ Cardinality(DOMAIN sup) >= c /\ stop = StopCandidates(c)
                    \/ /\ ~(Cardinality(DOMAIN sup) >= c) /\ stop = StopSupport(s)
                       /\ tot + Cardinality(Evidence(index, wanted, k)) > s
             PROVE  Collected(index, wanted, c, s, pend, sup, tot, stop)
  OBVIOUS
<1>4. ~Fits(index, wanted, k, c, s)
  BY <1>1, <1>2, <1>3 DEF Fits
<1>5. stop = StopAt(c, s, sup)
  BY DEF StopAt
<1>6. Stops(index, wanted, c, s, k)
  BY <1>4 DEF Stops
<1> QED BY <1>5, <1>6, Zenon DEF Collected, First

Fitting(index, wanted, c, s) == {k \in Qualifying(index, wanted) : Fits(index, wanted, k, c, s)}
Verdict(index, wanted, c, s) ==
  IF Fitting(index, wanted, c, s) = Qualifying(index, wanted) THEN NoStop
  ELSE IF Cardinality(Fitting(index, wanted, c, s)) >= c THEN StopCandidates(c) ELSE StopSupport(s)

(* A finished scan has collected what ScanIntersect says in one expression. *)
LEMMA FinishedAsReported ==
  ASSUME NEW index, NEW wanted, NEW c, NEW s, NEW pend, NEW sup, NEW tot, NEW stop,
         Collected(index, wanted, c, s, pend, sup, tot, stop),
         pend = {} \/ stop # NoStop
  PROVE  /\ DOMAIN sup = Fitting(index, wanted, c, s)
         /\ stop = Verdict(index, wanted, c, s)
<1> USE DEF Fitting, Verdict
<1> DEFINE all == Qualifying(index, wanted)
           stored == {k \in all : Fits(index, wanted, k, c, s)}
<1>1. /\ GoodIndex(index) /\ c \in Nat /\ s \in Nat
      /\ DOMAIN sup = all \ pend /\ \A k \in DOMAIN sup : Fits(index, wanted, k, c, s)
      /\ stop # NoStop =>
           /\ stop = StopAt(c, s, sup)
           /\ \E k : First(pend, k) /\ Stops(index, wanted, c, s, k)
  BY DEF Collected
<1>2. CASE stop = NoStop
  <2>1. stored = all /\ DOMAIN sup = all
    BY <1>1, <1>2
  <2> QED BY <1>2, <2>1
<1>3. CASE stop # NoStop
  <2>1. PICK k \in pend : (\A p \in pend : k <= p) /\ k \in all /\ ~Fits(index, wanted, k, c, s)
    BY <1>1, <1>3 DEF Stops, First
  <2>2. \A q \in all : q \in pend => ~Fits(index, wanted, q, c, s)
    BY <1>1, <2>1, FitsIsDownward
  <2>3. stored = DOMAIN sup
    BY <1>1, <2>2
  <2>4. stored # all
    BY <2>1
  <2>5. stop = IF Cardinality(stored) >= c THEN StopCandidates(c) ELSE StopSupport(s)
    BY <1>1, <1>3, <2>3 DEF StopAt
  <2> QED BY <2>3, <2>4, <2>5
<1> QED BY <1>2, <1>3

ScanInv ==
  call # NoCall =>
    /\ call.store \in opened /\ call.name \in DOMAIN call.store.indexes
    /\ Collected(Scanned, call.wanted, call.maxCandidates, call.maxSupport,
                 pending, support, total, stopped)

allVars == <<vars, scanVars>>

(* A scan changes nothing that open keeps.                                  *)
LEMMA ScansLeaveOpenAlone == [ScanNext]_allVars => [Next]_vars
BY DEF allVars, ScanNext, BeginScan, ScanStep, Skip, BreakOnCandidates, BreakOnSupport, Keep, EndScan, vars

LEMMA BeginStep ==
  ASSUME Inv, NEW st \in opened, NEW name, NEW wanted, NEW c \in CandidateBudgets,
         NEW s \in SupportBudgets, BeginScan(st, name, wanted, c, s)
  PROVE  ScanInv'
<1>1. /\ call' = [store |-> st, name |-> name, wanted |-> wanted,
                  maxCandidates |-> c, maxSupport |-> s]
      /\ name \in DOMAIN st.indexes
      /\ pending' = DOMAIN st.indexes[name]
      /\ support' = << >> /\ total' = 0 /\ stopped' = NoStop
      /\ opened' = opened
  BY DEF BeginScan, vars
<1>2. c \in Nat \ {0} /\ s \in Nat \ {0}
  BY BudgetsArePositive
<1>3. GoodIndex(st.indexes[name])
  BY <1>1, ReturnedIndexesAreGood
<1>4. Collected(st.indexes[name], wanted, c, s, DOMAIN st.indexes[name], << >>, 0, NoStop)
  BY <1>2, <1>3, NothingCollected
<1>5. /\ call'.store = st /\ call'.name = name /\ call'.wanted = wanted
      /\ call'.maxCandidates = c /\ call'.maxSupport = s
  BY <1>1
<1>6. call'.store.indexes[call'.name] = st.indexes[name]
  BY <1>5
<1> QED BY <1>1, <1>4, <1>5, <1>6 DEF ScanInv, Scanned

LEMMA KeyStep ==
  ASSUME ScanInv, NEW k \in pending, ScanStep(k)
  PROVE  ScanInv'
<1>1. At(k) /\ opened' = opened /\ call' = call
  BY DEF ScanStep, Skip, BreakOnCandidates, BreakOnSupport, Keep, vars
<1> DEFINE index == Scanned
           w == call.wanted
           c == call.maxCandidates
           s == call.maxSupport
<1>2. /\ call # NoCall /\ stopped = NoStop /\ First(pending, k)
  BY <1>1 DEF At, First
<1>3. /\ call.store \in opened /\ call.name \in DOMAIN call.store.indexes
      /\ Collected(index, w, c, s, pending, support, total, NoStop)
  BY <1>2 DEF ScanInv
<1>4. Qualifies(k) <=> k \in Qualifying(index, w)
  BY DEF Qualifies
<1>5. Collected(index, w, c, s, pending', support', total', stopped')
  <2>1. CASE Skip(k)
    <3>1. k \notin Qualifying(index, w) /\ pending' = pending \ {k}
          /\ UNCHANGED <<support, total, stopped>>
      BY <1>4, <2>1 DEF Skip
    <3> QED BY <1>2, <1>3, <3>1, KeySkipped
  <2>2. CASE BreakOnCandidates(k)
    <3>1. /\ k \in Qualifying(index, w) /\ Cardinality(DOMAIN support) >= c
          /\ stopped' = StopCandidates(c) /\ UNCHANGED <<pending, support, total>>
      BY <1>4, <2>2 DEF BreakOnCandidates, CandidatesFull
    <3> QED BY <1>2, <1>3, <3>1, ScanStopped
  <2>3. CASE BreakOnSupport(k)
    <3>1. /\ k \in Qualifying(index, w) /\ ~(Cardinality(DOMAIN support) >= c)
          /\ total + Cardinality(Evidence(index, w, k)) > s
          /\ stopped' = StopSupport(s) /\ UNCHANGED <<pending, support, total>>
      BY <1>4, <2>3 DEF BreakOnSupport, CandidatesFull, TooCostly, Cost
    <3> QED BY <1>2, <1>3, <3>1, ScanStopped
  <2>4. CASE Keep(k)
    <3>1. /\ k \in Qualifying(index, w) /\ ~(Cardinality(DOMAIN support) >= c)
          /\ ~(total + Cardinality(Evidence(index, w, k)) > s)
          /\ pending' = pending \ {k}
          /\ total' = total + Cardinality(Evidence(index, w, k))
          /\ support' = [q \in DOMAIN support \cup {k} |->
                           IF q = k THEN Evidence(index, w, k) ELSE support[q]]
          /\ stopped' = stopped
      BY <1>4, <2>4 DEF Keep, CandidatesFull, TooCostly, Cost
    <3> QED BY <1>2, <1>3, <3>1, KeyKept
  <2> QED BY <2>1, <2>2, <2>3, <2>4 DEF ScanStep
<1> QED BY <1>1, <1>3, <1>5 DEF ScanInv, Scanned

LEMMA ScanNextStep == Inv /\ ScanInv /\ [ScanNext]_allVars => Inv' /\ ScanInv'
<1> SUFFICES ASSUME Inv, ScanInv, [ScanNext]_allVars PROVE Inv' /\ ScanInv'
  OBVIOUS
<1>1. Inv'
  BY ScansLeaveOpenAlone, NextStep
<1> SUFFICES ScanInv'
  BY <1>1
<1>2. CASE call' = NoCall
  BY <1>2 DEF ScanInv
<1>3. CASE UNCHANGED allVars
  BY <1>3 DEF allVars, vars, scanVars, scanLocals, ScanInv, Scanned
<1>4. CASE ScanNext
  <2>1. CASE call = NoCall /\ Next /\ UNCHANGED scanVars
    BY <1>2, <2>1 DEF scanVars, ScanInv
  <2>2. CASE EndScan
    BY <1>2, <2>2 DEF EndScan, ScanInv
  <2>3. CASE \E st \in opened : \E name \in DOMAIN st.indexes, wanted \in SUBSET st.sections,
                c \in CandidateBudgets, s \in SupportBudgets : BeginScan(st, name, wanted, c, s)
    BY <2>3, BeginStep
  <2>4. CASE \E k \in pending : ScanStep(k)
    BY <2>4, KeyStep
  <2> QED BY <1>4, <2>1, <2>2, <2>3, <2>4 DEF ScanNext
<1> QED BY <1>3, <1>4

LEMMA InvMeansReported == ScanInv => LoopAgreesWithReport
<1> SUFFICES ASSUME ScanInv, Finished PROVE LoopAgreesWithReport
  BY DEF LoopAgreesWithReport
<1> DEFINE index == Scanned
           w == call.wanted
           c == call.maxCandidates
           s == call.maxSupport
           stored == Fitting(index, w, c, s)
<1>1. /\ Collected(index, w, c, s, pending, support, total, stopped)
      /\ pending = {} \/ stopped # NoStop
  BY DEF ScanInv, Finished
<1> HIDE DEF index, w, c, s
<1>2. DOMAIN support = stored /\ stopped = Verdict(index, w, c, s)
  BY <1>1, FinishedAsReported
<1>3. \A k \in DOMAIN support : support[k] = Evidence(index, w, k)
  BY <1>1 DEF Collected
<1>4. Reported = [support |-> [k \in stored |-> BindAll(call.store, Evidence(index, w, k))],
                  stopped |-> Verdict(index, w, c, s)]
  BY DEF Reported, ScanIntersect, Scanned, Fitting, Verdict, index, w, c, s
<1> HIDE DEF stored
<1>5. stopped = Reported.stopped /\ DOMAIN Reported.support = stored
  BY <1>2, <1>4
<1>6. \A k \in DOMAIN support : Reported.support[k] = BindAll(call.store, support[k])
  BY <1>2, <1>3, <1>4
<1> QED BY <1>2, <1>5, <1>6 DEF LoopAgreesWithReport

LEMMA InvMeansComplete == ScanInv => CompleteExactlyWhenUnstopped
<1> SUFFICES ASSUME ScanInv, Finished
             PROVE  stopped = NoStop <=> DOMAIN support = Qualifying(Scanned, call.wanted)
  BY DEF CompleteExactlyWhenUnstopped
<1>1. /\ Collected(Scanned, call.wanted, call.maxCandidates, call.maxSupport,
                   pending, support, total, stopped)
      /\ pending = {} \/ stopped # NoStop
  BY DEF ScanInv, Finished
<1>2. stopped = NoStop => DOMAIN support = Qualifying(Scanned, call.wanted)
  BY <1>1 DEF Collected
<1>3. stopped # NoStop => DOMAIN support # Qualifying(Scanned, call.wanted)
  BY <1>1 DEF Collected, First, Stops
<1> QED BY <1>2, <1>3

-----------------------------------------------------------------------------
LEMMA BothHold == ScanSpec => [](Inv /\ ScanInv)
<1>1. ScanInit => Inv /\ ScanInv
  BY InvInit DEF ScanInit, ScanInv
<1>2. Inv /\ ScanInv /\ [ScanNext]_<<vars, scanVars>> => (Inv /\ ScanInv)'
  BY ScanNextStep DEF allVars
<1> QED BY <1>1, <1>2, PTL DEF ScanSpec

(* Every store that open returns is well formed: its indexes are those of   *)
(* its records, which are finitely many and have a section and an ordinal.  *)
(* It is what the theorems on queries and sessions assume of a store.       *)
THEOREM OpenReturnsWellFormed == ScanSpec => [](\A st \in opened : WellFormed(st))
<1>1. Inv => \A st \in opened : WellFormed(st)
  BY StoresAreWellFormed
<1> QED BY <1>1, BothHold, PTL

(* Position is identity: after any number of lines, the records are the     *)
(* lines read that are not markers, each once, under the section of the     *)
(* last marker before it and its distance from it (segment).                *)
THEOREM LinesAreRecords == ScanSpec => []EveryLineIsOneRecord
BY BothHold, InvMeansOneRecord, PTL

(* A call of open is refused exactly when its plan, its depth or a marker   *)
(* is bad: it never refuses a record, and never goes beyond its depth.      *)
THEOREM OpensWhatIsDeclared == ScanSpec => []OpensExactlyWhatIsDeclared
BY BothHold, InvMeansDeclared, PTL

(* A record id resolves in its own store and in every store opened the same *)
(* way, to the same bytes, and nowhere else (materialize).                  *)
THEOREM IdsResolveAtHome == ScanSpec => []IdsResolveInTheirStoreOnly
BY BothHold, InvMeansOwnStore, PTL

(* The loop of scan_intersect returns what its one-expression definition    *)
(* says, for every store that open returned and all positive budgets.       *)
THEOREM LoopIsScanIntersect == ScanSpec => []LoopAgreesWithReport
<1>1. Inv /\ ScanInv => LoopAgreesWithReport
  BY InvMeansReported
<1> QED BY <1>1, BothHold, PTL

(* A scan says it met no bound exactly when it has every qualifying key.    *)
THEOREM UnstoppedMeansComplete == ScanSpec => []CompleteExactlyWhenUnstopped
<1>1. Inv /\ ScanInv => CompleteExactlyWhenUnstopped
  BY InvMeansComplete
<1> QED BY <1>1, BothHold, PTL

-----------------------------------------------------------------------------
(* The registry of results over several stores. *)

(* An executed result's support is bound to its store: the coordinates and  *)
(* the store give it back.                                                  *)
Locals(r, k) == {id.local : id \in r.support[k]}
LEMMA SupportIsBound ==
  ASSUME NEW c \in Calls
  PROVE  LET r == ResultOf(c)
         IN  r.support = [k \in DOMAIN r.support |-> BindAll(c.st, Locals(r, k))]
<1> DEFINE r == ResultOf(c)
           found == Found(c.st, c.q, c.limits)
<1>1. r.support = found.support
  BY DEF ResultOf, Execute
<1>2. ASSUME NEW S
      PROVE  BindAll(c.st, S) = BindAll(c.st, {id.local : id \in BindAll(c.st, S)})
  BY DEF BindAll, Bind
<1>3. \E D, F : found.support = [k \in D |-> BindAll(c.st, F[k])]
  <2>1. CASE c.q.op = "lookup"
    <3> DEFINE scan == ScanLookup(c.st, c.q.index, c.q.key, c.limits.support)
               D == IF scan.support = {} THEN {} ELSE {c.q.key}
               ids == FirstIds(Posting(c.st.indexes[c.q.index], c.q.key), c.limits.support)
    <3>1. scan.support = BindAll(c.st, ids)
      BY DEF ScanLookup
    <3>2. found.support = [k \in D |-> scan.support]
      BY <2>1 DEF Found, LookupFound
    <3>3. found.support = [k \in D |-> BindAll(c.st, [j \in D |-> ids][k])]
      BY <3>1, <3>2
    <3> QED BY <3>3
  <2>2. CASE c.q.op # "lookup"
    <3> DEFINE idx == c.st.indexes[c.q.index]
               all == Qualifying(idx, Sets(c.q))
               D == {k \in all : Fits(idx, Sets(c.q), k, c.limits.candidates, c.limits.support)}
               F == [k \in D |-> Evidence(idx, Sets(c.q), k)]
    <3>1. found.support = [k \in D |-> BindAll(c.st, Evidence(idx, Sets(c.q), k))]
      BY <2>2 DEF Found, IntersectFound, ScanIntersect
    <3>2. found.support = [k \in D |-> BindAll(c.st, F[k])]
      BY <3>1
    <3> HIDE DEF D, F
    <3> WITNESS D, F
    <3> QED BY <3>2
  <2> QED BY <2>1, <2>2
<1>4. PICK D, F : found.support = [k \in D |-> BindAll(c.st, F[k])]
  BY <1>3
<1>5. ASSUME NEW k \in D
      PROVE  BindAll(c.st, Locals(r, k)) = BindAll(c.st, F[k])
  BY <1>1, <1>2, <1>4, <1>5 DEF Locals
<1>6. r.support = [k \in D |-> BindAll(c.st, F[k])]
  BY <1>1, <1>4
<1>7. DOMAIN r.support = D
  BY <1>6
<1>8. r.support = [k \in D |-> BindAll(c.st, Locals(r, k))]
  BY <1>5, <1>6
<1> HIDE DEF r
<1> QED BY <1>7, <1>8 DEF r

(* The handle of an execution determines everything a verdict depends on:   *)
(* store, completion, candidates and support (canon.rs query_result_id).    *)
LEMMA SameHandleSameContent ==
  ASSUME NEW c \in Calls, NEW d \in Calls, ResultOf(c).id = ResultOf(d).id
  PROVE  /\ c.st = d.st
         /\ ResultOf(c).artifact = ResultOf(d).artifact
         /\ ResultOf(c).plan = ResultOf(d).plan
         /\ ResultOf(c).completion = ResultOf(d).completion
         /\ ResultOf(c).result = ResultOf(d).result
         /\ ResultOf(c).support = ResultOf(d).support
<1> DEFINE r == ResultOf(c)
           s == ResultOf(d)
<1>1. /\ r.id = QueryResultId(r.schema, r.store, r.queryDigest, r.result, r.supportDigest)
      /\ s.id = QueryResultId(s.schema, s.store, s.queryDigest, s.result, s.supportDigest)
      /\ r.store = c.st.id /\ s.store = d.st.id
      /\ r.artifact = c.st.artifact /\ s.artifact = d.st.artifact
      /\ r.plan = c.st.plan /\ s.plan = d.st.plan
      /\ r.supportDigest = SupportDigest(r.support, r.completion)
      /\ s.supportDigest = SupportDigest(s.support, s.completion)
  BY DEF ResultOf, Execute
<1>0. r.id = s.id
  OBVIOUS
<1> HIDE DEF r, s
<1>2. r.store = s.store /\ r.result = s.result /\ r.supportDigest = s.supportDigest
  <2>1. /\ r.id.store = r.store /\ r.id.result = r.result
        /\ r.id.support = r.supportDigest
    BY <1>1 DEF QueryResultId
  <2>2. /\ s.id.store = s.store /\ s.id.result = s.result
        /\ s.id.support = s.supportDigest
    BY <1>1 DEF QueryResultId
  <2> QED BY <1>0, <2>1, <2>2
<1>3. c.st = d.st
  BY <1>1, <1>2, StoresAreDistinct DEF Calls
<1>4. /\ r.completion = s.completion
      /\ [k \in DOMAIN r.support |-> Locals(r, k)] = [k \in DOMAIN s.support |-> Locals(s, k)]
  <2> DEFINE f == [k \in DOMAIN r.support |-> Locals(r, k)]
             g == [k \in DOMAIN s.support |-> Locals(s, k)]
  <2>1. r.supportDigest = <<r.completion, f>> /\ s.supportDigest = <<s.completion, g>>
    BY <1>1, Zenon DEF SupportDigest, Locals
  <2> HIDE DEF f, g
  <2>2. /\ r.supportDigest[1] = r.completion /\ r.supportDigest[2] = f
        /\ s.supportDigest[1] = s.completion /\ s.supportDigest[2] = g
    BY <2>1
  <2>3. r.completion = s.completion /\ f = g
    BY <1>2, <2>2
  <2> QED BY <2>3 DEF f, g
<1>5. /\ DOMAIN r.support = DOMAIN s.support
      /\ \A k \in DOMAIN r.support : Locals(r, k) = Locals(s, k)
  BY <1>4
<1>6. /\ r.support = [k \in DOMAIN r.support |-> BindAll(c.st, Locals(r, k))]
      /\ s.support = [k \in DOMAIN s.support |-> BindAll(d.st, Locals(s, k))]
  BY SupportIsBound DEF r, s
<1>7. r.support = s.support
  BY <1>3, <1>5, <1>6
<1> QED BY <1>1, <1>2, <1>3, <1>4, <1>7 DEF r, s

(* The verdict on an executed result under its own handle.                  *)
VerdictOn(c, st, answer, cited) ==
  IF ResultOf(c).artifact # st.artifact THEN "artifact-mismatch"
  ELSE IF ResultOf(c).plan # st.plan THEN "store-plan-mismatch"
  ELSE Judge(ResultOf(c), answer, cited)

(* An executed result is intact: its digests hold and its identity is the   *)
(* one recomputed from it (query.rs verify).                                *)
LEMMA ExecutedIsIntact ==
  ASSUME NEW c \in Calls
  PROVE  DigestsHold(ResultOf(c)) /\ Recomputed(ResultOf(c)) = ResultOf(c).id
BY DEF ResultOf, Execute, DigestsHold, Recomputed

(* verify on what TypeOK allows under a handle.                             *)
LEMMA VerifyGivesVerdictOn ==
  ASSUME TypeOK, NEW st, NEW h \in DOMAIN issued, NEW answer, NEW cited,
         NEW c \in Calls, issued[h] = ResultOf(c), h = ResultOf(c).id
  PROVE  Verify(issued, st, h, answer, cited) = VerdictOn(c, st, answer, cited)
BY ExecutedIsIntact DEF Verify, VerdictOn

LEMMA SameHandleSameVerdict ==
  ASSUME NEW c \in Calls, NEW d \in Calls, ResultOf(c).id = ResultOf(d).id,
         NEW st, NEW answer, NEW cited
  PROVE  VerdictOn(c, st, answer, cited) = VerdictOn(d, st, answer, cited)
<1>1. Judge(ResultOf(c), answer, cited) = Judge(ResultOf(d), answer, cited)
  BY SameHandleSameContent DEF Judge
<1> QED BY <1>1, SameHandleSameContent DEF VerdictOn

-----------------------------------------------------------------------------
LEMMA TypeInit == RegistryInit => TypeOK
BY DEF RegistryInit, TypeOK

LEMMA TypeStep == TypeOK /\ [RegistryNext]_registryVars => TypeOK'
<1> SUFFICES ASSUME TypeOK, [RegistryNext]_registryVars PROVE TypeOK'
  OBVIOUS
<1> USE DEF TypeOK
<1>1. ASSUME NEW c \in Calls, Issue(c) PROVE TypeOK'
  <2> DEFINE r == ResultOf(c)
  <2>1. /\ DOMAIN issued' = DOMAIN issued \cup {r.id}
        /\ \A h \in DOMAIN issued' : issued'[h] = IF h = r.id THEN r ELSE issued[h]
        /\ verdicts' = verdicts
    BY <1>1 DEF Issue
  <2>2. r.id \in Handles
    BY DEF Handles
  <2> QED BY <2>1, <2>2
<1>2. ASSUME NEW h \in DOMAIN issued, Evict(h) PROVE TypeOK'
  BY <1>2 DEF Evict
<1>3. ASSUME NEW st \in Stores, NEW h \in Handles, NEW a \in Answers, NEW e \in Citations,
             Check(st, h, a, e)
      PROVE  TypeOK'
  BY <1>3 DEF Check
<1>4. CASE UNCHANGED registryVars
  BY <1>4 DEF registryVars
<1> QED BY <1>1, <1>2, <1>3, <1>4 DEF RegistryNext

(* Every result the registry holds is one that was executed, under its own  *)
(* handle.                                                                  *)
THEOREM RegistryHoldsExecutions == RegistrySpec => []TypeOK
BY TypeInit, TypeStep, PTL DEF RegistrySpec

-----------------------------------------------------------------------------
(* verify gives "valid" only on the sole true answer.                       *)
LEMMA ValidIsTrue ==
  ASSUME TypeOK, NEW st \in Stores, NEW h, NEW answer, NEW cited,
         Verify(issued, st, h, answer, cited) = "valid"
  PROVE  \E q \in Queries :
           /\ h.query = QueryDigest(h.schema, q)
           /\ TrueCandidates(st, q) = {answer}
           /\ cited \subseteq TrueEvidence(st, q, answer)
<1>1. h \in DOMAIN issued
  BY DEF Verify
<1>2. PICK c \in Calls : issued[h] = ResultOf(c) /\ h = ResultOf(c).id
  BY <1>1 DEF TypeOK
<1> DEFINE r == ResultOf(c)
<1>3. VerdictOn(c, st, answer, cited) = "valid"
  BY <1>1, <1>2, VerifyGivesVerdictOn
<1>4. r.artifact = st.artifact /\ r.plan = st.plan /\ Judge(r, answer, cited) = "valid"
  BY <1>3 DEF VerdictOn
<1>5. /\ r.artifact = c.st.artifact /\ r.plan = c.st.plan /\ r.schema = c.schema
      /\ r.queryDigest = QueryDigest(c.schema, c.q)
      /\ r.id = QueryResultId(r.schema, r.store, r.queryDigest, r.resultDigest, r.supportDigest)
  BY DEF ResultOf, Execute
<1>6. /\ c.st \in Stores /\ c.q \in Queries /\ c.limits \in LimitSets
      /\ ~Refused(c.st, c.schema, c.q, c.limits)
  BY DEF Calls
<1>7. c.st = st
  <2>1. c.st.id = StoreId(c.st.artifact, c.st.plan) /\ st.id = StoreId(st.artifact, st.plan)
    BY <1>6, StoresAreOpened, Zenon DEF WellFormed
  <2>2. c.st.artifact = st.artifact /\ c.st.plan = st.plan
    BY <1>4, <1>5
  <2> QED BY <1>6, <2>1, <2>2, StoresAreDistinct
<1>8. r.result = DOMAIN r.support /\ SoundFor(c.st, c.q, r)
  BY <1>6, ExecuteIsSound, StoresAreOpened, QueriesAreOperations, LimitsAreNatural DEF ResultOf
<1>9. TrueCandidates(st, c.q) = {answer} /\ cited \subseteq TrueEvidence(st, c.q, answer)
  BY <1>4, <1>7, <1>8, ValidMeansTrue
<1>10. h.query = QueryDigest(h.schema, c.q)
  BY <1>2, <1>5 DEF QueryResultId
<1> QED BY <1>6, <1>9, <1>10

LEMMA ValidInit == RegistryInit => ValidMeansSoleAnswerHere
BY DEF RegistryInit, ValidMeansSoleAnswerHere

LEMMA ValidStep ==
  TypeOK /\ ValidMeansSoleAnswerHere /\ [RegistryNext]_registryVars => ValidMeansSoleAnswerHere'
<1> SUFFICES ASSUME TypeOK, ValidMeansSoleAnswerHere, [RegistryNext]_registryVars
             PROVE  ValidMeansSoleAnswerHere'
  OBVIOUS
<1>1. CASE verdicts' = verdicts
  BY <1>1 DEF ValidMeansSoleAnswerHere
<1>2. ASSUME NEW st \in Stores, NEW h \in Handles, NEW a \in Answers, NEW e \in Citations,
             Check(st, h, a, e)
      PROVE  ValidMeansSoleAnswerHere'
  <2> DEFINE v == [store |-> st, handle |-> h, answer |-> a, cited |-> e,
                   verdict |-> Verify(issued, st, h, a, e)]
  <2>1. verdicts' = verdicts \cup {v}
    BY <1>2 DEF Check
  <2>2. ASSUME v.verdict = "valid"
        PROVE  \E q \in Queries : /\ v.handle.query = QueryDigest(v.handle.schema, q)
                                  /\ TrueCandidates(v.store, q) = {v.answer}
                                  /\ v.cited \subseteq TrueEvidence(v.store, q, v.answer)
    BY <2>2, ValidIsTrue
  <2> QED BY <2>1, <2>2 DEF ValidMeansSoleAnswerHere
<1> QED BY <1>1, <1>2 DEF RegistryNext, Issue, Evict, registryVars

(* A valid verdict on an answer proves, whatever was issued and evicted     *)
(* before it, that the question under the handle has exactly that answer in *)
(* the store it was checked against, and that what is cited bears on it.    *)
THEOREM ValidVerdictsAreTrue == RegistrySpec => []ValidMeansSoleAnswerHere
BY TypeInit, TypeStep, ValidInit, ValidStep, PTL DEF RegistrySpec

-----------------------------------------------------------------------------
(* The invariant behind VerdictsNeverChange: a verdict was stale, or it is  *)
(* the one any execution with that handle gives.                            *)
GivenOnExecutions ==
  \A v \in verdicts :
    \/ v.verdict = "stale-result-handle"
    \/ \E c \in Calls : /\ v.handle = ResultOf(c).id
                        /\ v.verdict = VerdictOn(c, v.store, v.answer, v.cited)

LEMMA GivenInit == RegistryInit => GivenOnExecutions
BY DEF RegistryInit, GivenOnExecutions

LEMMA GivenStep == TypeOK /\ GivenOnExecutions /\ [RegistryNext]_registryVars => GivenOnExecutions'
<1> SUFFICES ASSUME TypeOK, GivenOnExecutions, [RegistryNext]_registryVars PROVE GivenOnExecutions'
  OBVIOUS
<1>1. CASE verdicts' = verdicts
  BY <1>1 DEF GivenOnExecutions
<1>2. ASSUME NEW st \in Stores, NEW h \in Handles, NEW a \in Answers, NEW e \in Citations,
             Check(st, h, a, e)
      PROVE  GivenOnExecutions'
  <2> DEFINE v == [store |-> st, handle |-> h, answer |-> a, cited |-> e,
                   verdict |-> Verify(issued, st, h, a, e)]
  <2>1. verdicts' = verdicts \cup {v}
    BY <1>2 DEF Check
  <2>2. \/ v.verdict = "stale-result-handle"
        \/ \E c \in Calls : /\ v.handle = ResultOf(c).id
                            /\ v.verdict = VerdictOn(c, v.store, v.answer, v.cited)
    <3>1. CASE h \notin DOMAIN issued
      BY <3>1 DEF Verify
    <3>2. CASE h \in DOMAIN issued
      <4>1. PICK c \in Calls : issued[h] = ResultOf(c) /\ h = ResultOf(c).id
        BY <3>2 DEF TypeOK
      <4> QED BY <3>2, <4>1, VerifyGivesVerdictOn
    <3> QED BY <3>1, <3>2
  <2> QED BY <2>1, <2>2 DEF GivenOnExecutions
<1> QED BY <1>1, <1>2 DEF RegistryNext, Issue, Evict, registryVars

LEMMA GivenMeansUnchanged == TypeOK /\ GivenOnExecutions => VerdictsNeverChange
<1> SUFFICES ASSUME TypeOK, GivenOnExecutions,
                    NEW v \in verdicts, v.verdict # "stale-result-handle"
             PROVE  Verify(issued, v.store, v.handle, v.answer, v.cited)
                      \in {v.verdict, "stale-result-handle"}
  BY DEF VerdictsNeverChange
<1>1. PICK c \in Calls : /\ v.handle = ResultOf(c).id
                         /\ v.verdict = VerdictOn(c, v.store, v.answer, v.cited)
  BY DEF GivenOnExecutions
<1>2. CASE v.handle \notin DOMAIN issued
  BY <1>2 DEF Verify
<1>3. CASE v.handle \in DOMAIN issued
  <2>1. PICK d \in Calls : issued[v.handle] = ResultOf(d) /\ v.handle = ResultOf(d).id
    BY <1>3 DEF TypeOK
  <2>2. Verify(issued, v.store, v.handle, v.answer, v.cited)
          = VerdictOn(d, v.store, v.answer, v.cited)
    BY <1>3, <2>1, VerifyGivesVerdictOn
  <2>3. VerdictOn(d, v.store, v.answer, v.cited) = VerdictOn(c, v.store, v.answer, v.cited)
    <3>1. ResultOf(d).id = ResultOf(c).id
      BY <1>1, <2>1
    <3>2. \A st, a, e : VerdictOn(d, st, a, e) = VerdictOn(c, st, a, e)
      BY <3>1, SameHandleSameVerdict
    <3> QED BY <3>2
  <2>4. Verify(issued, v.store, v.handle, v.answer, v.cited) = v.verdict
    BY <1>1, <2>2, <2>3, Zenon
  <2> QED BY <2>4
<1> QED BY <1>2, <1>3

(* Asking again never gives another verdict than the first, except that the *)
(* handle may have gone stale meanwhile.                                    *)
THEOREM RetriesNeverImprove == RegistrySpec => []VerdictsNeverChange
BY TypeInit, TypeStep, GivenInit, GivenStep, GivenMeansUnchanged, PTL DEF RegistrySpec
=============================================================================
