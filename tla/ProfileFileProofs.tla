-------------------------- MODULE ProfileFileProofs --------------------------
(***************************************************************************)
(* What the profile file remembers, for any processes, any lessons and any *)
(* number of runs.  Two invariants carry it.  Remembered: until a run has   *)
(* loaded what no save wrote, every memory, and the memory behind every    *)
(* piece on disk, is what some of the lessons taken so far add up to.      *)
(* Alone: while no two runs have overlapped, the profile's name leads to   *)
(* the text of what the saved lessons add up to, and the temporary file    *)
(* of the one run there is holds the beginning of the text of its memory.  *)
(***************************************************************************)
EXTENDS ProfileFile, FiniteSetTheorems, WellFoundedInduction, TLAPS

-----------------------------------------------------------------------------
(* Recursion over lists. *)

LEMMA NatHasMinimum ==
  ASSUME NEW T, T \subseteq Nat, T # {}
  PROVE  \E x \in T : \A y \in T : x <= y
<1> DEFINE Below == {ss \in Nat \X Nat : ss[1] < ss[2]}
<1>1. IsWellFoundedOn(Below, Nat)
  BY NatLessThanWellFounded, Zenon DEF OpToRel
<1>2. PICK x \in T : \A y \in T : <<y, x>> \notin Below
  BY <1>1, WFMin, Zenon
<1>3. ASSUME NEW y \in T PROVE x <= y
  <2>1. x \in Nat /\ y \in Nat
    OBVIOUS
  <2>2. <<y, x>> \notin Below
    BY <1>2
  <2>3. ~(y < x)
    BY <2>1, <2>2
  <2> QED BY <2>1, <2>3
<1> QED BY <1>3

(* Values computed one from the other, up to some number, exist.            *)
Rules(hi, V) == [(1..hi) \X V -> V]
Runs1(hi, V) == [0..hi -> V]
Follows(g, hi, base, G) == g[0] = base /\ \A i \in 1..hi : g[i] = G[<<i, g[i - 1]>>]
LEMMA RecursionExists ==
  ASSUME NEW hi \in Nat, NEW V, NEW base \in V, NEW G \in Rules(hi, V)
  PROVE  \E g \in Runs1(hi, V) : Follows(g, hi, base, G)
<1> USE DEF Rules, Runs1, Follows
<1> DEFINE Steps(n, g) == g[0] = base /\ \A i \in 1..n : g[i] = G[<<i, g[i - 1]>>]
           Stuck == {n \in 0..hi : ~\E g \in [0..n -> V] : Steps(n, g)}
<1>1. ASSUME Stuck # {} PROVE FALSE
  <2>0. Stuck \subseteq Nat
    OBVIOUS
  <2>1. PICK n \in Stuck : \A m \in Stuck : n <= m
    <3> HIDE DEF Stuck
    <3> QED BY <1>1, <2>0, NatHasMinimum
  <2>2. ASSUME n = 0 PROVE FALSE
    <3> DEFINE h == [i \in 0..0 |-> base]
    <3>1. h \in [0..0 -> V] /\ Steps(0, h)
      OBVIOUS
    <3> QED BY <2>1, <2>2, <3>1
  <2>3. n - 1 \in 0..hi /\ n \in 1..hi
    BY <2>1, <2>2
  <2>4. n - 1 \notin Stuck
    <3> HIDE DEF Stuck
    <3> QED BY <2>1, <2>3
  <2>5. PICK g \in [0..(n - 1) -> V] : Steps(n - 1, g)
    BY <2>3, <2>4
  <2>6. g[n - 1] \in V /\ G[<<n, g[n - 1]>>] \in V
    BY <2>3
  <2> DEFINE h == [i \in 0..n |-> IF i = n THEN G[<<n, g[n - 1]>>] ELSE g[i]]
  <2>7. h \in [0..n -> V]
    BY <2>3, <2>6
  <2>8. h[0] = base
    BY <2>3, <2>5
  <2>9. ASSUME NEW i \in 1..n PROVE h[i] = G[<<i, h[i - 1]>>]
    <3>1. h[i - 1] = g[i - 1] /\ i \in 0..n
      BY <2>3
    <3>2. CASE i = n
      <4>1. h[i] = G[<<n, g[n - 1]>>]
        BY <3>1, <3>2
      <4> HIDE DEF h
      <4> QED BY <3>1, <3>2, <4>1
    <3>3. CASE i # n
      <4>1. h[i] = g[i]
        BY <3>1, <3>3
      <4>2. i \in 1..(n - 1)
        BY <2>3, <3>3
      <4> HIDE DEF h
      <4> QED BY <2>5, <3>1, <4>1, <4>2
    <3> QED BY <3>2, <3>3
  <2>10. Steps(n, h)
    BY <2>8, <2>9
  <2> QED BY <2>1, <2>7, <2>10
<1>2. hi \notin Stuck
  BY <1>1
<1> QED BY <1>2

(* Two that start alike and go on alike are alike.                          *)
Alike(g, h, hi) == g[0] = h[0] /\ \A i \in 1..hi : g[i - 1] = h[i - 1] => g[i] = h[i]
LEMMA RecursionAgrees ==
  ASSUME NEW hi \in Nat, NEW g, NEW h, Alike(g, h, hi)
  PROVE  \A i \in 0..hi : g[i] = h[i]
<1> USE DEF Alike
<1> DEFINE Apart == {i \in 0..hi : g[i] # h[i]}
<1>1. ASSUME Apart # {} PROVE FALSE
  <2>0. Apart \subseteq Nat
    OBVIOUS
  <2>1. PICK n \in Apart : \A m \in Apart : n <= m
    <3> HIDE DEF Apart
    <3> QED BY <1>1, <2>0, NatHasMinimum
  <2>2. n # 0
    BY <2>1
  <2>3. n \in 1..hi /\ n - 1 \in 0..hi /\ n - 1 \notin Apart
    BY <2>1, <2>2
  <2> QED BY <2>1, <2>3
<1> QED BY <1>1

-----------------------------------------------------------------------------
(* What a memory is. *)

Lessons == UNION {Range(run) : run \in Runs}
PhraseSets == {T \in SUBSET DOMAIN PhraseBytes : IsFiniteSet(T)}
Tallies == UNION {[S -> Nat] : S \in PhraseSets}
Profiles == [runs : Nat, phrases : Tallies, samples : Nat]

LEMMA LessonsAreLessons ==
  /\ \A lesson \in Lessons : IsLesson(lesson)
  /\ \A run \in Runs : run \in Seq(Lessons)
<1>1. ASSUME NEW lesson \in Lessons PROVE IsLesson(lesson)
  <2>1. PICK run \in Runs : lesson \in Range(run)
    BY DEF Lessons
  <2>2. PICK i \in DOMAIN run : lesson = run[i]
    BY <2>1 DEF Range
  <2> QED BY <2>2, RunsAssumption
<1>2. ASSUME NEW run \in Runs PROVE run \in Seq(Lessons)
  <2>1. run \in Seq(Range(run)) /\ Range(run) \subseteq Lessons
    BY RunsAssumption DEF Lessons
  <2> HIDE DEF Lessons
  <2> QED BY <2>1
<1> QED BY <1>1, <1>2

LEMMA TallyShape ==
  ASSUME NEW c \in Tallies
  PROVE  /\ IsFiniteSet(DOMAIN c) /\ DOMAIN c \subseteq DOMAIN PhraseBytes
         /\ \A p \in DOMAIN c : c[p] \in Nat
<1>1. PICK S \in PhraseSets : c \in [S -> Nat]
  BY DEF Tallies
<1> QED BY <1>1 DEF PhraseSets

LEMMA MergeIsATally ==
  ASSUME NEW c \in Tallies, NEW d, IsTally(d)
  PROVE  Merge(c, d) \in Tallies
<1> DEFINE S == DOMAIN c \cup DOMAIN d
<1>1. /\ IsFiniteSet(DOMAIN c) /\ DOMAIN c \subseteq DOMAIN PhraseBytes
      /\ \A p \in DOMAIN c : c[p] \in Nat
  BY TallyShape
<1>2. /\ IsFiniteSet(DOMAIN d) /\ DOMAIN d \subseteq DOMAIN PhraseBytes
      /\ \A p \in DOMAIN d : d[p] \in Nat
  BY DEF IsTally
<1>3. S \in PhraseSets
  BY <1>1, <1>2, FS_Union DEF PhraseSets
<1>4. Merge(c, d) \in [S -> Nat]
  BY <1>1, <1>2 DEF Merge
<1> HIDE DEF S
<1> QED BY <1>3, <1>4 DEF Tallies

LEMMA CompactIsATally ==
  ASSUME NEW c \in Tallies
  PROVE  Compact(c) \in Tallies
<1> DEFINE S == {p \in DOMAIN c :
                   Cardinality({q \in DOMAIN c : Outranks(c, q, p)}) < MaxPhrases}
<1>1. /\ IsFiniteSet(DOMAIN c) /\ DOMAIN c \subseteq DOMAIN PhraseBytes
      /\ \A p \in DOMAIN c : c[p] \in Nat
  BY TallyShape
<1>2. S \subseteq DOMAIN c
  OBVIOUS
<1>3. Compact(c) = [p \in S |-> c[p]]
  BY DEF Compact, Restrict
<1> HIDE DEF S
<1>4. S \in PhraseSets
  BY <1>1, <1>2, FS_Subset DEF PhraseSets
<1>5. Compact(c) \in [S -> Nat]
  BY <1>1, <1>2, <1>3
<1> QED BY <1>4, <1>5 DEF Tallies

LEMMA DefaultIsAProfile == Default \in Profiles
<1>1. {} \in PhraseSets
  BY FS_EmptySet DEF PhraseSets
<1>2. << >> \in [{} -> Nat]
  OBVIOUS
<1>3. << >> \in Tallies
  BY <1>1, <1>2 DEF Tallies
<1> QED BY <1>3 DEF Default, Profiles

(* An input adds to a memory and takes away neither runs nor samples.       *)
LEMMA TakeGrows ==
  ASSUME NEW m \in Profiles, NEW lesson \in Lessons
  PROVE  /\ Take(m, lesson) \in Profiles
         /\ Take(m, lesson).runs >= m.runs
         /\ Take(m, lesson).samples >= m.samples
<1>1. IsLesson(lesson)
  BY LessonsAreLessons
<1>2. m.runs \in Nat /\ m.samples \in Nat /\ m.phrases \in Tallies
  BY DEF Profiles
<1>3. CASE lesson.kind = "learn"
  <2> DEFINE kept == Compact(Merge(m.phrases, lesson.counts))
  <2>1. kept \in Tallies
    BY <1>1, <1>2, <1>3, MergeIsATally, CompactIsATally DEF IsLesson
  <2>2. Take(m, lesson) = [m EXCEPT !.runs = @ + 1, !.phrases = kept]
    BY <1>3 DEF Take
  <2> HIDE DEF kept
  <2>3. Take(m, lesson) = [runs |-> m.runs + 1, phrases |-> kept, samples |-> m.samples]
    BY <2>2 DEF Profiles
  <2> QED BY <1>2, <2>1, <2>3 DEF Profiles
<1>4. CASE lesson.kind # "learn"
  <2>1. lesson.probes \in Nat
    BY <1>1, <1>4 DEF IsLesson
  <2>2. Take(m, lesson) = [runs |-> m.runs, phrases |-> m.phrases,
                           samples |-> m.samples + lesson.probes]
    BY <1>4 DEF Take, Profiles
  <2> QED BY <1>2, <2>1, <2>2 DEF Profiles
<1> QED BY <1>3, <1>4

-----------------------------------------------------------------------------
(* What lessons add up to. *)

Heeding(m, lesson, yes) == IF yes THEN Take(m, lesson) ELSE m
LearntUpTo(ls, S, f) ==
  f[0] = Default /\ \A i \in 1..Len(ls) : f[i] = Heeding(f[i - 1], ls[i], i \in S)

LEMMA LearntIsAFold ==
  ASSUME NEW ls \in Seq(Lessons), NEW S
  PROVE  \E f : LearntUpTo(ls, S, f) /\ Learnt(ls, S) = f[Len(ls)] /\ f[Len(ls)] \in Profiles
<1> DEFINE G == [p \in (1..Len(ls)) \X Profiles |-> Heeding(p[2], ls[p[1]], p[1] \in S)]
           IsTheFold(h) == h = [n \in 0..Len(ls) |->
                              IF n = 0 THEN Default
                              ELSE IF n \in S THEN Take(h[n - 1], ls[n]) ELSE h[n - 1]]
           f == CHOOSE h : IsTheFold(h)
<1>1. Default \in Profiles /\ Len(ls) \in Nat
  BY DefaultIsAProfile
<1>2. G \in Rules(Len(ls), Profiles)
  <2>1. ASSUME NEW i \in 1..Len(ls), NEW m \in Profiles
        PROVE  Heeding(m, ls[i], i \in S) \in Profiles
    <3>1. ls[i] \in Lessons
      OBVIOUS
    <3> QED BY <3>1, TakeGrows DEF Heeding
  <2> HIDE DEF Profiles, Lessons
  <2> QED BY <2>1 DEF Rules
<1>3. PICK g \in Runs1(Len(ls), Profiles) : Follows(g, Len(ls), Default, G)
  <2> HIDE DEF G
  <2> QED BY <1>1, <1>2, RecursionExists
<1>4. LearntUpTo(ls, S, g) /\ g[Len(ls)] \in Profiles
  <2>1. /\ g[0] = Default /\ \A i \in 1..Len(ls) : g[i] = G[<<i, g[i - 1]>>]
        /\ \A i \in 0..Len(ls) : g[i] \in Profiles
    BY <1>3 DEF Runs1, Follows
  <2>2. ASSUME NEW i \in 1..Len(ls) PROVE g[i] = Heeding(g[i - 1], ls[i], i \in S)
    <3>1. <<i, g[i - 1]>> \in (1..Len(ls)) \X Profiles
      BY <1>1, <2>1
    <3> QED BY <2>1, <3>1
  <2> QED BY <1>1, <2>1, <2>2 DEF LearntUpTo
<1>5. IsTheFold(g)
  BY <1>1, <1>3, <1>4 DEF LearntUpTo, Runs1, Heeding
<1>6. IsTheFold(f)
  BY <1>5
<1>7. Learnt(ls, S) = f[Len(ls)]
  BY DEF Learnt
<1> HIDE DEF f, G
<1>8. f[0] = Default /\ \A i \in 1..Len(ls) : f[i] = Heeding(f[i - 1], ls[i], i \in S)
  <2>1. f[0] = Default
    BY <1>1, <1>6
  <2>2. ASSUME NEW i \in 1..Len(ls) PROVE f[i] = Heeding(f[i - 1], ls[i], i \in S)
    BY <1>1, <1>6 DEF Heeding
  <2> QED BY <2>1, <2>2
<1>9. \A i \in 0..Len(ls) : f[i] = g[i]
  <2>1. \A i \in 1..Len(ls) : f[i - 1] = g[i - 1] => f[i] = g[i]
    BY <1>1, <1>4, <1>8 DEF LearntUpTo
  <2>2. f[0] = g[0]
    BY <1>4, <1>8 DEF LearntUpTo
  <2>3. Alike(f, g, Len(ls))
    BY <2>1, <2>2 DEF Alike
  <2> QED BY <1>1, <2>3, RecursionAgrees
<1>10. f[Len(ls)] \in Profiles
  BY <1>1, <1>4, <1>9
<1> QED BY <1>7, <1>8, <1>10 DEF LearntUpTo

(* One lesson more, heeded or not.                                          *)
LEMMA LearntAppends ==
  ASSUME NEW ls \in Seq(Lessons), NEW lesson \in Lessons, NEW S, NEW T,
         \A i \in 1..Len(ls) : i \in S <=> i \in T
  PROVE  /\ Learnt(ls, S) \in Profiles
         /\ Learnt(Append(ls, lesson), T)
              = Heeding(Learnt(ls, S), lesson, Len(ls) + 1 \in T)
<1> DEFINE us == Append(ls, lesson)
           n == Len(ls)
           last == n + 1
<1>1. /\ us \in Seq(Lessons) /\ Len(us) = last /\ n \in Nat /\ us[last] = lesson
      /\ \A i \in 1..n : us[i] = ls[i]
  <2> HIDE DEF Lessons
  <2> QED OBVIOUS
<1>2. PICK f : LearntUpTo(ls, S, f) /\ Learnt(ls, S) = f[n] /\ f[n] \in Profiles
  BY LearntIsAFold
<1> HIDE DEF us, n, last
<1>3. PICK g : LearntUpTo(us, T, g) /\ Learnt(us, T) = g[Len(us)]
  BY <1>1, LearntIsAFold
<1>4. \A i \in 0..n : f[i] = g[i]
  <2>1. \A i \in 1..n : f[i - 1] = g[i - 1] => f[i] = g[i]
    <3> SUFFICES ASSUME NEW i \in 1..n, f[i - 1] = g[i - 1] PROVE f[i] = g[i]
      OBVIOUS
    <3>1. f[i] = Heeding(f[i - 1], ls[i], i \in S)
      BY <1>2 DEF LearntUpTo, n
    <3>2. i \in 1..Len(us) /\ us[i] = ls[i]
      BY <1>1 DEF last
    <3>3. g[i] = Heeding(g[i - 1], us[i], i \in T)
      BY <1>3, <3>2 DEF LearntUpTo
    <3>4. i \in S <=> i \in T
      BY DEF n
    <3> QED BY <3>1, <3>2, <3>3, <3>4 DEF Heeding
  <2>2. f[0] = g[0]
    BY <1>2, <1>3 DEF LearntUpTo
  <2>3. n \in Nat
    BY <1>1
  <2>4. Alike(f, g, n)
    BY <2>1, <2>2 DEF Alike
  <2> QED BY <2>3, <2>4, RecursionAgrees
<1>5. g[last] = Heeding(g[n], lesson, last \in T)
  <2>1. last \in 1..Len(us) /\ last - 1 = n
    BY <1>1 DEF last
  <2>2. g[last] = Heeding(g[last - 1], us[last], last \in T)
    BY <1>3, <2>1 DEF LearntUpTo
  <2> QED BY <1>1, <2>1, <2>2
<1>6. f[n] = g[n]
  BY <1>1, <1>4
<1> QED BY <1>1, <1>2, <1>3, <1>5, <1>6 DEF us, n, last

LEMMA RecallOfNothing == Recall(<< >>) = Default
<1>1. << >> \in Seq(Lessons) /\ Len(<< >>) = 0
  OBVIOUS
<1>2. PICK f : LearntUpTo(<< >>, DOMAIN << >>, f) /\ Learnt(<< >>, DOMAIN << >>) = f[0]
  BY <1>1, LearntIsAFold
<1> QED BY <1>2 DEF LearntUpTo, Recall

LEMMA RecallAppends ==
  ASSUME NEW ls \in Seq(Lessons), NEW lesson \in Lessons
  PROVE  /\ Recall(ls) \in Profiles
         /\ Recall(Append(ls, lesson)) = Take(Recall(ls), lesson)
<1> DEFINE S == DOMAIN ls
           T == DOMAIN Append(ls, lesson)
<1>1. (\A i \in 1..Len(ls) : i \in S <=> i \in T) /\ Len(ls) + 1 \in T
  <2> HIDE DEF Lessons
  <2> QED OBVIOUS
<1> HIDE DEF S, T
<1>2. /\ Learnt(ls, S) \in Profiles
      /\ Learnt(Append(ls, lesson), T) = Heeding(Learnt(ls, S), lesson, Len(ls) + 1 \in T)
  BY <1>1, LearntAppends
<1> QED BY <1>1, <1>2 DEF Recall, Heeding, S, T

LEMMA RecallIsAProfile ==
  ASSUME NEW ls \in Seq(Lessons)
  PROVE  Recall(ls) \in Profiles
BY LearntIsAFold DEF Recall

-----------------------------------------------------------------------------
(* The shape of a state. *)

Pieces == [of : Profiles, at : Nat]
Layers == SUBSET Pieces
Shapely(s) == /\ s.at = "idle" => s = Idle
              /\ s.at = "work" => s.fd = NoFile /\ s.next = 1
              /\ s.at = "write" => s.fd \in Inodes /\ s.next >= 1
Places == [at : {"idle", "work", "write"}, left : Seq(Lessons), taken : Seq(Lessons),
           mem : Profiles, fd : Inodes \cup {NoFile}, next : Nat]
States == {s \in Places : Shapely(s)}
Typed ==
  /\ path \in Inodes \cup {NoFile}
  /\ tmp \in Inodes \cup {NoFile}
  /\ files \in [Inodes -> Seq(Layers)]
  /\ proc \in [Procs -> States]
  /\ taught \in Seq(Lessons)
  /\ saved \in Seq(Lessons)

LEMMA SomeInodes ==
  /\ Cardinality(Procs) \in Nat /\ IsFiniteSet(Inodes)
  /\ Cardinality(Inodes) = 2 + Cardinality(Procs)
  /\ NoFile \notin Inodes /\ 1 \in Inodes /\ 2 \in Inodes
<1>1. Cardinality(Procs) \in Nat
  BY ProfileAssumption, FS_CardinalityType
<1> DEFINE n == 2 + Cardinality(Procs)
<1>2. n \in Int /\ 1 \in Int /\ ~(1 > n) /\ n - 1 + 1 = n
  BY <1>1
<1>3. IsFiniteSet(1..n) /\ Cardinality(1..n) = IF 1 > n THEN 0 ELSE n - 1 + 1
  <2> HIDE DEF n
  <2> QED BY <1>2, FS_Interval, Zenon
<1>4. Inodes = 1..n
  BY DEF Inodes
<1>5. IsFiniteSet(Inodes) /\ Cardinality(Inodes) = n
  BY <1>2, <1>3, <1>4
<1> QED BY <1>1, <1>4, <1>5 DEF NoFile

(* There is always room for one file more.                                  *)
LEMMA SomeFree ==
  ASSUME Typed, NEW p \in Procs, proc[p].fd = NoFile, tmp = NoFile
  PROVE  (CHOOSE g \in Free : TRUE) \in Free
<1> DEFINE Others == Procs \ {p}
           Held == {proc[q].fd : q \in Others}
           n == Cardinality(Procs)
<1>1. n \in Nat /\ IsFiniteSet(Procs) /\ IsFiniteSet(Others) /\ Cardinality(Others) = n - 1
  BY ProfileAssumption, FS_RemoveElement, SomeInodes
<1>2. IsFiniteSet(Held) /\ Cardinality(Held) <= n - 1 /\ Cardinality(Held) \in Nat
  <2> DEFINE f == [q \in Others |-> proc[q].fd]
  <2>1. f \in Surjection(Others, Held)
    BY DEF Surjection
  <2>2. IsFiniteSet(Held) /\ Cardinality(Held) <= Cardinality(Others)
    BY <1>1, <2>1, FS_Surjection DEF ExistsSurjection
  <2> HIDE DEF Held, Others
  <2> QED BY <1>1, <2>2, FS_CardinalityType
<1>3. ASSUME Free = {} PROVE FALSE
  <2>1. Inodes \subseteq Held \cup {path}
    <3> SUFFICES ASSUME NEW f \in Inodes, f # path PROVE f \in Held
      OBVIOUS
    <3>1. f # NoFile
      BY SomeInodes
    <3>2. PICK q \in Procs : proc[q].fd = f
      BY <1>3, <3>1 DEF Free
    <3> QED BY <3>1, <3>2
  <2> HIDE DEF Held, n
  <2>2. IsFiniteSet(Held \cup {path}) /\ Cardinality(Held \cup {path}) <= n
    <3>1. IsFiniteSet(Held \cup {path})
          /\ Cardinality(Held \cup {path})
               = IF path \in Held THEN Cardinality(Held) ELSE Cardinality(Held) + 1
      BY <1>2, FS_AddElement
    <3> QED BY <1>1, <1>2, <3>1
  <2>3. Cardinality(Inodes) <= Cardinality(Held \cup {path})
    BY <2>1, <2>2, FS_Subset
  <2>4. Cardinality(Inodes) = 2 + n
    BY SomeInodes DEF n
  <2>5. Cardinality(Held \cup {path}) \in Nat
    BY <2>2, FS_CardinalityType
  <2> QED BY <1>1, <2>2, <2>3, <2>4, <2>5
<1> QED BY <1>3

Prefix(m, n) == [i \in 1..n |-> {[of |-> m, at |-> i]}]
LEMMA TextIsAPrefix ==
  ASSUME NEW m \in Profiles
  PROVE  \E n \in Nat : n >= 1 /\ Text(m) = Prefix(m, n) /\ Len(Text(m)) = n
<1> DEFINE n == 1 + Cardinality(DOMAIN m.phrases)
<1>1. m.phrases \in Tallies
  BY DEF Profiles
<1>2. n \in Nat /\ n >= 1
  BY <1>1, TallyShape, FS_CardinalityType
<1>3. Text(m) = Prefix(m, n)
  BY DEF Text, Prefix
<1> HIDE DEF n
<1>4. Len(Prefix(m, n)) = n
  BY <1>2 DEF Prefix
<1> QED BY <1>2, <1>3, <1>4

LEMMA PrefixGrows ==
  ASSUME NEW m, NEW n \in Nat
  PROVE  /\ Prefix(m, 0) = << >>
         /\ Written(Prefix(m, n), n + 1, [of |-> m, at |-> n + 1]) = Prefix(m, n + 1)
<1>1. Prefix(m, 0) = << >>
  BY DEF Prefix
<1> DEFINE b == [of |-> m, at |-> n + 1]
           old(j) == IF j <= n THEN Prefix(m, n)[j] ELSE {}
           at(j) == old(j) \cup (IF j = n + 1 THEN {b} ELSE {})
           new == Written(Prefix(m, n), n + 1, b)
<1>2. Len(Prefix(m, n)) = n /\ \A j \in 1..n : Prefix(m, n)[j] = {[of |-> m, at |-> j]}
  BY DEF Prefix
<1>3. new = [j \in 1..(n + 1) |-> at(j)]
  BY <1>2 DEF Written
<1>4. ASSUME NEW j \in 1..(n + 1)
      PROVE  at(j) = {[of |-> m, at |-> j]}
  <2>1. CASE j = n + 1
    BY <2>1
  <2>2. CASE j # n + 1
    <3>1. j \in 1..n /\ j <= n
      BY <2>2
    <3>2. old(j) = {[of |-> m, at |-> j]}
      BY <1>2, <3>1
    <3> QED BY <2>2, <3>2
  <2> QED BY <2>1, <2>2
<1> HIDE DEF new, b, at, old
<1>5. new = Prefix(m, n + 1)
  BY <1>3, <1>4 DEF Prefix
<1> QED BY <1>1, <1>5 DEF new, b

(* A late write leaves holes, and nothing else that was not there.          *)
LEMMA WrittenPieces ==
  ASSUME NEW places \in Seq(Layers), NEW i \in Nat, i >= 1, NEW piece \in Pieces
  PROVE  /\ Written(places, i, piece) \in Seq(Layers)
         /\ \A j \in DOMAIN Written(places, i, piece) :
              \A x \in Written(places, i, piece)[j] :
                \/ x = piece
                \/ j \in DOMAIN places /\ x \in places[j]
<1> DEFINE top == IF i > Len(places) THEN i ELSE Len(places)
           old(j) == IF j <= Len(places) THEN places[j] ELSE {}
           new(j) == old(j) \cup (IF j = i THEN {piece} ELSE {})
<1>1. top \in Nat /\ Len(places) \in Nat /\ DOMAIN places = 1..Len(places)
  OBVIOUS
<1>2. Written(places, i, piece) = [j \in 1..top |-> new(j)]
  BY DEF Written
<1>3. \A j \in DOMAIN places : places[j] \in Layers
  <2> HIDE DEF Layers
  <2> QED OBVIOUS
<1>4. ASSUME NEW j \in 1..top, NEW x \in new(j)
      PROVE  x = piece \/ (j \in DOMAIN places /\ x \in places[j])
  BY <1>1
<1> HIDE DEF new, top
<1>5. ASSUME NEW j \in 1..top PROVE new(j) \in Layers
  BY <1>3, <1>4 DEF Layers
<1>6. [j \in 1..top |-> new(j)] \in Seq(Layers)
  <2> HIDE DEF Layers
  <2> QED BY <1>1, <1>5
<1> QED BY <1>2, <1>4, <1>6

-----------------------------------------------------------------------------
(* What each step does to the one process that takes it. *)

LEMMA IdleIsAState == Idle \in States
<1>1. << >> \in Seq(Lessons)
  OBVIOUS
<1>2. Idle \in Places
  BY <1>1, DefaultIsAProfile DEF Idle, Places
<1> QED BY <1>2 DEF States, Shapely, Idle

LEMMA StateShape ==
  ASSUME Typed, NEW p \in Procs
  PROVE  proc[p] \in Places /\ Shapely(proc[p])
BY DEF Typed, States

Loaded(run, m) == [Idle EXCEPT !.at = "work", !.left = run, !.mem = m]
LEMMA LoadedIsAState ==
  ASSUME NEW run \in Runs, NEW m \in Profiles
  PROVE  /\ Loaded(run, m) \in States /\ Loaded(run, m).mem = m
         /\ Loaded(run, m).at = "work" /\ Loaded(run, m).taken = << >>
         /\ Loaded(run, m) # Idle
<1>1. Idle \in Places /\ Idle.taken = << >> /\ Idle.fd = NoFile /\ Idle.next = 1
  BY IdleIsAState DEF Idle, States
<1>2. run \in Seq(Lessons)
  BY LessonsAreLessons
<1>3. Loaded(run, m) \in Places
  BY <1>1, <1>2 DEF Places, Loaded
<1>4. /\ Loaded(run, m).at = "work" /\ Loaded(run, m).mem = m
      /\ Loaded(run, m).taken = << >> /\ Loaded(run, m).fd = NoFile /\ Loaded(run, m).next = 1
  BY <1>1 DEF Places, Loaded
<1>5. Loaded(run, m) # Idle
  <2>1. Idle.at = "idle"
    BY DEF Idle
  <2> QED BY <1>4, <2>1
<1>6. Shapely(Loaded(run, m))
  BY <1>4 DEF Shapely
<1> QED BY <1>3, <1>4, <1>5, <1>6 DEF States

LEMMA SplicesAreProfiles == Splices \subseteq Profiles
<1> SUFFICES ASSUME NEW m \in Splices PROVE m \in Profiles
  OBVIOUS
<1>1. /\ m = [runs |-> m.runs, phrases |-> m.phrases, samples |-> m.samples]
      /\ m.runs \in Nat /\ m.samples \in Nat
      /\ m.phrases = [p \in DOMAIN m.phrases |-> m.phrases[p]]
      /\ IsTally(m.phrases)
  BY SplicesAssumption
<1>2. DOMAIN m.phrases \in PhraseSets
  BY <1>1 DEF IsTally, PhraseSets
<1>3. m.phrases \in [DOMAIN m.phrases -> Nat]
  BY <1>1 DEF IsTally
<1>4. m.phrases \in Tallies
  BY <1>2, <1>3 DEF Tallies
<1> QED BY <1>1, <1>4 DEF Profiles

(* Whoever wrote to a file did so at one of its places.                     *)
LEMMA WritersWrote ==
  ASSUME Typed, NEW f \in Inodes, NEW m \in Writers(files[f])
  PROVE  m \in Profiles /\ \E i \in DOMAIN files[f] : \E x \in files[f][i] : x.of = m
<1>1. PICK x \in UNION Range(files[f]) : m = x.of
  BY DEF Writers
<1>2. PICK i \in DOMAIN files[f] : x \in files[f][i]
  BY <1>1 DEF Range
<1>3. files[f][i] \in Layers
  <2>1. files[f] \in Seq(Layers)
    BY DEF Typed
  <2> HIDE DEF Layers
  <2> QED BY <1>2, <2>1
<1>4. m \in Profiles
  BY <1>1, <1>2, <1>3 DEF Layers, Pieces
<1> QED BY <1>1, <1>2, <1>4

LEMMA LearnState ==
  ASSUME Typed, NEW p \in Procs, Learn(p)
  PROVE  \E lesson \in Lessons, s \in States :
           /\ proc' = [proc EXCEPT ![p] = s]
           /\ s.mem = Take(proc[p].mem, lesson)
           /\ s.taken = Append(proc[p].taken, lesson)
           /\ s.at = "work" /\ s # Idle
           /\ taught' = Append(taught, lesson)
           /\ proc[p].at = "work" /\ proc[p] # Idle
<1> DEFINE lesson == Head(proc[p].left)
           s == [proc[p] EXCEPT !.left = Tail(@), !.mem = Take(@, lesson),
                                !.taken = Append(@, lesson)]
<1>1. proc[p] \in Places /\ proc[p].at = "work" /\ proc[p].fd = NoFile /\ proc[p].next = 1
  BY StateShape DEF Learn, AtInput, Shapely
<1>2. /\ proc[p].left \in Seq(Lessons) /\ proc[p].left # << >>
      /\ proc[p].taken \in Seq(Lessons) /\ proc[p].mem \in Profiles
  BY <1>1 DEF Learn, AtInput, Places
<1>3. lesson \in Lessons /\ Tail(proc[p].left) \in Seq(Lessons)
  <2> HIDE DEF Lessons
  <2> QED BY <1>2
<1>4. proc' = [proc EXCEPT ![p] = s] /\ taught' = Append(taught, lesson)
  BY DEF Learn, Typed
<1> HIDE DEF lesson
<1>5. Take(proc[p].mem, lesson) \in Profiles
  BY <1>2, <1>3, TakeGrows
<1>6. Append(proc[p].taken, lesson) \in Seq(Lessons)
  BY <1>2, <1>3
<1>7. s \in Places /\ s.at = "work" /\ s.fd = NoFile /\ s.next = 1
  BY <1>1, <1>3, <1>5, <1>6 DEF Places
<1>8. s.mem = Take(proc[p].mem, lesson) /\ s.taken = Append(proc[p].taken, lesson)
  BY <1>1 DEF Places
<1>9. s.at # Idle.at /\ proc[p].at # Idle.at
  BY <1>1, <1>7 DEF Idle
<1> HIDE DEF s
<1>10. s \in States
  BY <1>7 DEF States, Shapely
<1>11. s # Idle /\ proc[p] # Idle
  BY <1>9
<1> QED BY <1>1, <1>3, <1>4, <1>7, <1>8, <1>10, <1>11

(* Skipping, opening and writing change neither memory nor what was taken.  *)
LEMMA SkipState ==
  ASSUME Typed, NEW p \in Procs, Skip(p)
  PROVE  \E s \in States :
           /\ proc' = [proc EXCEPT ![p] = s]
           /\ s.mem = proc[p].mem /\ s.taken = proc[p].taken
           /\ s.at = "work" /\ s # Idle /\ proc[p] # Idle
<1> DEFINE s == [proc[p] EXCEPT !.left = Tail(@)]
<1>1. proc[p] \in Places /\ proc[p].at = "work" /\ proc[p].fd = NoFile /\ proc[p].next = 1
  BY StateShape DEF Skip, AtInput, Shapely
<1>2. Tail(proc[p].left) \in Seq(Lessons)
  <2>1. proc[p].left \in Seq(Lessons) /\ proc[p].left # << >>
    BY <1>1 DEF Skip, AtInput, Places
  <2> HIDE DEF Lessons
  <2> QED BY <2>1
<1>3. s \in Places /\ s.at = "work" /\ s.fd = NoFile /\ s.next = 1
  BY <1>1, <1>2 DEF Places
<1>4. s.mem = proc[p].mem /\ s.taken = proc[p].taken
  BY <1>1 DEF Places
<1>5. proc' = [proc EXCEPT ![p] = s]
  BY DEF Skip, Typed
<1>6. s.at # Idle.at /\ proc[p].at # Idle.at
  BY <1>1, <1>3 DEF Idle
<1> HIDE DEF s
<1> QED BY <1>3, <1>4, <1>5, <1>6 DEF States, Shapely

LEMMA OpenState ==
  ASSUME Typed, NEW p \in Procs, OpenTmp(p)
  PROVE  \E f \in Inodes, s \in States :
           /\ proc' = [proc EXCEPT ![p] = s]
           /\ s.mem = proc[p].mem /\ s.taken = proc[p].taken
           /\ s.at = "write" /\ s.fd = f /\ s.next = 1 /\ s # Idle /\ proc[p] # Idle
           /\ tmp' = f /\ (f = tmp \/ f # path)
           /\ files' = [files EXCEPT ![f] = << >>]
<1> DEFINE f == IF tmp # NoFile THEN tmp ELSE CHOOSE g \in Free : TRUE
           s == [proc[p] EXCEPT !.at = "write", !.fd = f]
<1>1. proc[p] \in Places /\ proc[p].at = "work" /\ proc[p].fd = NoFile /\ proc[p].next = 1
  BY StateShape DEF OpenTmp, Shapely
<1>2. f \in Inodes /\ (f = tmp \/ f # path)
  <2>1. CASE tmp # NoFile
    BY <2>1 DEF Typed
  <2>2. CASE tmp = NoFile
    <3>1. f \in Free
      BY <1>1, <2>2, SomeFree
    <3> HIDE DEF f
    <3> QED BY <3>1 DEF Free
  <2> QED BY <2>1, <2>2
<1>3. tmp' = f /\ files' = [files EXCEPT ![f] = << >>] /\ proc' = [proc EXCEPT ![p].at = "write", ![p].fd = f]
  BY DEF OpenTmp
<1> HIDE DEF f
<1>4. s \in Places /\ s.at = "write" /\ s.fd = f /\ s.next = 1
  BY <1>1, <1>2 DEF Places
<1>5. s.mem = proc[p].mem /\ s.taken = proc[p].taken
  BY <1>1 DEF Places
<1>6. proc' = [proc EXCEPT ![p] = s]
  BY <1>3 DEF Typed
<1>7. s.at # Idle.at /\ proc[p].at # Idle.at
  BY <1>1, <1>4 DEF Idle
<1>8. s \in States
  <2> HIDE DEF s
  <2> QED BY <1>2, <1>4 DEF States, Shapely
<1> HIDE DEF s
<1> QED BY <1>2, <1>3, <1>4, <1>5, <1>6, <1>7, <1>8

LEMMA WriteState ==
  ASSUME Typed, NEW p \in Procs, WritePiece(p)
  PROVE  \E s \in States :
           /\ proc' = [proc EXCEPT ![p] = s]
           /\ s.mem = proc[p].mem /\ s.taken = proc[p].taken
           /\ s.at = "write" /\ s.fd = proc[p].fd /\ s.next = proc[p].next + 1
           /\ s # Idle /\ proc[p] # Idle
           /\ proc[p].at = "write" /\ proc[p].fd \in Inodes
           /\ proc[p].next \in Nat /\ proc[p].next >= 1 /\ proc[p].mem \in Profiles
           /\ files' = [files EXCEPT ![proc[p].fd] =
                          Written(@, proc[p].next, [of |-> proc[p].mem, at |-> proc[p].next])]
<1> DEFINE s == [proc[p] EXCEPT !.next = @ + 1]
<1>1. proc[p] \in Places /\ proc[p].at = "write" /\ proc[p].fd \in Inodes /\ proc[p].next >= 1
  BY StateShape DEF WritePiece, Shapely
<1>2. proc[p].next \in Nat /\ proc[p].mem \in Profiles
  BY <1>1 DEF Places
<1>3. s \in Places /\ s.at = "write" /\ s.fd = proc[p].fd /\ s.next = proc[p].next + 1
  BY <1>1, <1>2 DEF Places
<1>4. s.mem = proc[p].mem /\ s.taken = proc[p].taken
  BY <1>1 DEF Places
<1>5. proc' = [proc EXCEPT ![p] = s]
  BY DEF WritePiece, Typed
<1>6. s.at # Idle.at /\ proc[p].at # Idle.at
  BY <1>1, <1>3 DEF Idle
<1>7. s \in States
  <2> HIDE DEF s
  <2> QED BY <1>1, <1>2, <1>3 DEF States, Shapely
<1>8. files' = [files EXCEPT ![proc[p].fd] =
                  Written(@, proc[p].next, [of |-> proc[p].mem, at |-> proc[p].next])]
  BY DEF WritePiece
<1> HIDE DEF s
<1> QED BY <1>1, <1>2, <1>3, <1>4, <1>5, <1>6, <1>7, <1>8

LEMMA ProcMoves ==
  ASSUME Typed, NEW p \in Procs, NEW s \in States, proc' = [proc EXCEPT ![p] = s]
  PROVE  /\ proc' \in [Procs -> States]
         /\ proc'[p] = s
         /\ \A q \in Procs : q # p => proc'[q] = proc[q]
BY DEF Typed

LEMMA EndState ==
  ASSUME Typed, NEW p \in Procs, Ends(p)
  PROVE  /\ proc' \in [Procs -> States]
         /\ proc'[p] = Idle
         /\ \A q \in Procs : q # p => proc'[q] = proc[q]
         /\ UNCHANGED <<files, started, overlapped, taught>>
<1>1. proc' = [proc EXCEPT ![p] = Idle]
  BY DEF Ends
<1>2. UNCHANGED <<files, started, overlapped, taught>>
  BY DEF Ends
<1> QED BY <1>1, <1>2, IdleIsAState, ProcMoves

LEMMA TypedInit == Init => Typed
<1> SUFFICES ASSUME Init PROVE Typed
  OBVIOUS
<1>1. << >> \in Seq(Lessons) /\ << >> \in Seq(Layers)
  OBVIOUS
<1> QED BY <1>1, IdleIsAState DEF Init, Typed

LEMMA LoadState ==
  ASSUME Typed, NEW p \in Procs, NEW run \in Runs, LoadNothing(p, run) \/ LoadFile(p, run)
  PROVE  \E m \in Profiles :
           /\ \/ path = NoFile /\ m = Default /\ spliced' = spliced
              \/ /\ path \in Inodes /\ m \in Readings(files[path])
                 /\ spliced' = (spliced \/ m \notin Writers(files[path]))
           /\ proc' = [proc EXCEPT ![p] = Loaded(run, m)]
           /\ Starts(p)
<1>1. CASE LoadNothing(p, run)
  BY <1>1, DefaultIsAProfile DEF LoadNothing, Loads, Loaded
<1>2. CASE LoadFile(p, run)
  <2>1. PICK m \in Readings(files[path]) :
          Loads(p, run, m) /\ spliced' = (spliced \/ m \notin Writers(files[path]))
    BY <1>2 DEF LoadFile
  <2>2. path \in Inodes
    BY <1>2 DEF LoadFile, Typed
  <2>3. m \in Profiles
    <3>1. m \in Writers(files[path]) \/ m \in Splices
      BY <2>1 DEF Readings
    <3> QED BY <2>2, <3>1, SplicesAreProfiles, WritersWrote
  <2> QED BY <2>1, <2>2, <2>3 DEF Loads, Loaded
<1> QED BY <1>1, <1>2

LEMMA TypedStep == Typed /\ [Next]_vars => Typed'
<1> SUFFICES ASSUME Typed, [Next]_vars PROVE Typed'
  OBVIOUS
<1>1. ASSUME NEW p \in Procs, NEW run \in Runs, LoadNothing(p, run) \/ LoadFile(p, run)
      PROVE  Typed'
  <2>1. PICK m \in Profiles : proc' = [proc EXCEPT ![p] = Loaded(run, m)] /\ Starts(p)
    BY <1>1, LoadState
  <2>2. proc' \in [Procs -> States]
    BY <2>1, LoadedIsAState, ProcMoves
  <2> QED BY <2>1, <2>2 DEF Starts, disk, Typed
<1>2. ASSUME NEW p \in Procs, LoadRefused(p) PROVE Typed'
  BY <1>2 DEF LoadRefused, Starts, disk, Typed
<1>3. ASSUME NEW p \in Procs, Learn(p) PROVE Typed'
  <2>1. PICK lesson \in Lessons, s \in States :
          proc' = [proc EXCEPT ![p] = s] /\ taught' = Append(taught, lesson)
    BY <1>3, LearnState
  <2>2. proc' \in [Procs -> States]
    BY <2>1, ProcMoves
  <2>3. taught' \in Seq(Lessons)
    BY <2>1 DEF Typed
  <2>4. UNCHANGED <<path, tmp, files, saved>>
    BY <1>3 DEF Learn, disk
  <2> QED BY <2>2, <2>3, <2>4 DEF Typed
<1>4. ASSUME NEW p \in Procs, Skip(p) PROVE Typed'
  <2>1. PICK s \in States : proc' = [proc EXCEPT ![p] = s]
    BY <1>4, SkipState
  <2>2. proc' \in [Procs -> States]
    BY <2>1, ProcMoves
  <2> QED BY <1>4, <2>2 DEF Skip, disk, history, Typed
<1>5. ASSUME NEW p \in Procs, OpenTmp(p) PROVE Typed'
  <2>1. PICK f \in Inodes, s \in States :
          /\ proc' = [proc EXCEPT ![p] = s] /\ tmp' = f
          /\ files' = [files EXCEPT ![f] = << >>]
    BY <1>5, OpenState
  <2>2. proc' \in [Procs -> States]
    BY <2>1, ProcMoves
  <2>3. files' \in [Inodes -> Seq(Layers)]
    <3>1. << >> \in Seq(Layers)
      OBVIOUS
    <3> HIDE DEF Layers, Inodes
    <3> QED BY <2>1, <3>1 DEF Typed
  <2> QED BY <1>5, <2>1, <2>2, <2>3 DEF OpenTmp, history, Typed
<1>6. ASSUME NEW p \in Procs, WritePiece(p) PROVE Typed'
  <2>1. PICK s \in States :
          /\ proc' = [proc EXCEPT ![p] = s]
          /\ proc[p].fd \in Inodes /\ proc[p].next \in Nat /\ proc[p].next >= 1
          /\ proc[p].mem \in Profiles
          /\ files' = [files EXCEPT ![proc[p].fd] =
                         Written(@, proc[p].next, [of |-> proc[p].mem, at |-> proc[p].next])]
    BY <1>6, WriteState
  <2>2. proc' \in [Procs -> States]
    BY <2>1, ProcMoves
  <2>3. [of |-> proc[p].mem, at |-> proc[p].next] \in Pieces /\ files[proc[p].fd] \in Seq(Layers)
    BY <2>1 DEF Pieces, Typed
  <2>4. Written(files[proc[p].fd], proc[p].next, [of |-> proc[p].mem, at |-> proc[p].next])
          \in Seq(Layers)
    BY <2>1, <2>3, WrittenPieces
  <2>5. files' \in [Inodes -> Seq(Layers)]
    BY <2>1, <2>4 DEF Typed
  <2> QED BY <1>6, <2>2, <2>5 DEF WritePiece, history, Typed
<1>7. ASSUME NEW p \in Procs, Rename(p) PROVE Typed'
  <2>1. proc' \in [Procs -> States] /\ files' = files /\ taught' = taught
    BY <1>7, EndState DEF Rename
  <2>2. proc[p].taken \in Seq(Lessons)
    BY StateShape DEF Places
  <2>3. saved \o proc[p].taken \in Seq(Lessons)
    <3> HIDE DEF Lessons
    <3> QED BY <2>2 DEF Typed
  <2> QED BY <1>7, <2>1, <2>3 DEF Rename, Typed
<1>8. ASSUME NEW p \in Procs, RenameFails(p) \/ Crash(p) PROVE Typed'
  <2>1. proc' \in [Procs -> States] /\ files' = files /\ taught' = taught
    BY <1>8, EndState DEF RenameFails, Crash
  <2> QED BY <1>8, <2>1 DEF RenameFails, Crash, Typed
<1>9. CASE UNCHANGED vars
  BY <1>9 DEF vars, disk, history, Typed
<1> QED BY <1>1, <1>2, <1>3, <1>4, <1>5, <1>6, <1>7, <1>8, <1>9 DEF Next

-----------------------------------------------------------------------------
(* Every memory is a history, as long as no mixed file has been loaded. *)

IsHistory(m, ls) == \E S \in SUBSET DOMAIN ls : m = Learnt(ls, S)
Remembered ==
  /\ IsHistory(Default, taught)
  /\ \A p \in Procs : IsHistory(proc[p].mem, taught)
  /\ \A f \in Inodes : \A i \in DOMAIN files[f] :
       \A x \in files[f][i] : IsHistory(x.of, taught)

LEMMA HistoryStays ==
  ASSUME NEW ls \in Seq(Lessons), NEW lesson \in Lessons, NEW m, IsHistory(m, ls)
  PROVE  /\ IsHistory(m, Append(ls, lesson))
         /\ IsHistory(Take(m, lesson), Append(ls, lesson))
<1> DEFINE last == Len(ls) + 1
<1>0. /\ DOMAIN Append(ls, lesson) = 1..last /\ DOMAIN ls = 1..Len(ls) /\ Len(ls) \in Nat
  <2> HIDE DEF Lessons
  <2> QED OBVIOUS
<1>1. PICK S \in SUBSET DOMAIN ls : m = Learnt(ls, S)
  BY DEF IsHistory
<1> DEFINE T == S \cup {last}
<1>2. /\ \A i \in 1..Len(ls) : i \in S <=> i \in T
      /\ last \in T /\ last \notin S
      /\ S \subseteq 1..last /\ T \subseteq 1..last
  BY <1>0
<1>3. \A i \in 1..Len(ls) : i \in S <=> i \in S
  OBVIOUS
<1> HIDE DEF T
<1>4. Learnt(Append(ls, lesson), S) = Heeding(Learnt(ls, S), lesson, last \in S)
  BY <1>3, LearntAppends
<1>5. Learnt(Append(ls, lesson), T) = Heeding(Learnt(ls, S), lesson, last \in T)
  BY <1>2, LearntAppends
<1> HIDE DEF last
<1>6. Learnt(Append(ls, lesson), S) = m /\ Learnt(Append(ls, lesson), T) = Take(m, lesson)
  BY <1>1, <1>2, <1>4, <1>5 DEF Heeding
<1> QED BY <1>0, <1>2, <1>6 DEF IsHistory

LEMMA RememberedInit == Init => Remembered
<1> SUFFICES ASSUME Init PROVE Remembered
  OBVIOUS
<1>1. Default = Learnt(<< >>, DOMAIN << >>)
  BY RecallOfNothing DEF Recall
<1>2. IsHistory(Default, << >>)
  BY <1>1 DEF IsHistory
<1>3. Idle.mem = Default
  BY DEF Idle
<1> QED BY <1>2, <1>3 DEF Init, Remembered

LEMMA RememberedMoves ==
  ASSUME Typed, Remembered, NEW p \in Procs, NEW s \in States,
         proc' = [proc EXCEPT ![p] = s], IsHistory(s.mem, taught), taught' = taught,
         \A f \in Inodes : \A i \in DOMAIN files'[f] :
           \A x \in files'[f][i] : IsHistory(x.of, taught)
  PROVE  Remembered'
BY ProcMoves DEF Remembered

LEMMA RememberedStep ==
  ASSUME Typed, ~spliced => Remembered, [Next]_vars
  PROVE  ~spliced' => Remembered'
<1> SUFFICES ASSUME ~spliced' PROVE Remembered'
  OBVIOUS
<1>0. ~spliced /\ Remembered
  <2>1. spliced => spliced'
    BY DEF Next, LoadNothing, LoadFile, LoadRefused, Loads, Starts, Learn, Skip, OpenTmp,
           WritePiece, Rename, RenameFails, Crash, Ends, vars, history
  <2> QED BY <2>1
<1> USE <1>0
<1>1. ASSUME NEW p \in Procs, NEW run \in Runs, LoadNothing(p, run) \/ LoadFile(p, run)
      PROVE  Remembered'
  <2>1. PICK m \in Profiles :
          /\ \/ path = NoFile /\ m = Default /\ spliced' = spliced
             \/ /\ path \in Inodes /\ m \in Readings(files[path])
                /\ spliced' = (spliced \/ m \notin Writers(files[path]))
          /\ proc' = [proc EXCEPT ![p] = Loaded(run, m)]
          /\ Starts(p)
    BY <1>1, LoadState
  <2>2. IsHistory(m, taught)
    <3>1. CASE path = NoFile /\ m = Default
      BY <3>1 DEF Remembered
    <3>2. CASE path \in Inodes /\ m \in Writers(files[path])
      BY <3>2, WritersWrote DEF Remembered
    <3> QED BY <2>1, <3>1, <3>2
  <2>3. Loaded(run, m) \in States /\ Loaded(run, m).mem = m
    BY LoadedIsAState
  <2>4. files' = files /\ taught' = taught
    BY <2>1 DEF Starts, disk
  <2> QED BY <2>1, <2>2, <2>3, <2>4, RememberedMoves DEF Remembered
<1>2. ASSUME NEW p \in Procs, LoadRefused(p) PROVE Remembered'
  BY <1>2 DEF LoadRefused, Starts, disk, Remembered
<1>3. ASSUME NEW p \in Procs, Learn(p) PROVE Remembered'
  <2>1. PICK lesson \in Lessons, s \in States :
          /\ proc' = [proc EXCEPT ![p] = s] /\ taught' = Append(taught, lesson)
          /\ s.mem = Take(proc[p].mem, lesson)
    BY <1>3, LearnState
  <2>2. proc'[p] = s /\ \A q \in Procs : q # p => proc'[q] = proc[q]
    BY <2>1, ProcMoves
  <2>3. taught \in Seq(Lessons)
    BY DEF Typed
  <2>4. ASSUME NEW m, IsHistory(m, taught)
        PROVE  IsHistory(m, taught') /\ IsHistory(Take(m, lesson), taught')
    BY <2>1, <2>3, <2>4, HistoryStays
  <2>5. \A q \in Procs : IsHistory(proc'[q].mem, taught')
    BY <2>1, <2>2, <2>4 DEF Remembered
  <2>6. files' = files
    BY <1>3 DEF Learn, disk
  <2> QED BY <2>4, <2>5, <2>6 DEF Remembered
<1>4. ASSUME NEW p \in Procs, Skip(p) PROVE Remembered'
  <2>1. PICK s \in States : proc' = [proc EXCEPT ![p] = s] /\ s.mem = proc[p].mem
    BY <1>4, SkipState
  <2>2. files' = files /\ taught' = taught
    BY <1>4 DEF Skip, disk, history
  <2> QED BY <2>1, <2>2, RememberedMoves DEF Remembered
<1>5. ASSUME NEW p \in Procs, OpenTmp(p) PROVE Remembered'
  <2>1. PICK f \in Inodes, s \in States :
          /\ proc' = [proc EXCEPT ![p] = s] /\ s.mem = proc[p].mem
          /\ files' = [files EXCEPT ![f] = << >>]
    BY <1>5, OpenState
  <2>2. taught' = taught
    BY <1>5 DEF OpenTmp, history
  <2>3. ASSUME NEW g \in Inodes, NEW i \in DOMAIN files'[g], NEW x \in files'[g][i]
        PROVE  IsHistory(x.of, taught)
    <3>1. g # f /\ files'[g] = files[g]
      BY <2>1, <2>3 DEF Typed
    <3> QED BY <3>1 DEF Remembered
  <2> QED BY <2>1, <2>2, <2>3, RememberedMoves DEF Remembered
<1>6. ASSUME NEW p \in Procs, WritePiece(p) PROVE Remembered'
  <2> DEFINE b == [of |-> proc[p].mem, at |-> proc[p].next]
             f == proc[p].fd
  <2>1. PICK s \in States :
          /\ proc' = [proc EXCEPT ![p] = s] /\ s.mem = proc[p].mem
          /\ f \in Inodes /\ proc[p].next \in Nat /\ proc[p].next >= 1
          /\ proc[p].mem \in Profiles
          /\ files' = [files EXCEPT ![f] = Written(@, proc[p].next, b)]
    BY <1>6, WriteState
  <2>2. b \in Pieces /\ files[f] \in Seq(Layers) /\ b.of = proc[p].mem
    BY <2>1 DEF Pieces, Typed
  <2>3. taught' = taught
    BY <1>6 DEF WritePiece, history
  <2> HIDE DEF b, f
  <2>4. IsHistory(b.of, taught)
    BY <2>2 DEF Remembered
  <2>5. ASSUME NEW g \in Inodes, NEW i \in DOMAIN files'[g], NEW x \in files'[g][i]
        PROVE  IsHistory(x.of, taught)
    <3>1. CASE g = f
      <4>1. files'[g] = Written(files[f], proc[p].next, b)
        BY <2>1, <3>1 DEF Typed
      <4>2. x = b \/ (i \in DOMAIN files[f] /\ x \in files[f][i])
        BY <2>1, <2>2, <2>5, <4>1, WrittenPieces
      <4> QED BY <2>1, <2>4, <4>2 DEF Remembered
    <3>2. CASE g # f
      <4>1. files'[g] = files[g]
        BY <2>1, <3>2 DEF Typed
      <4> QED BY <2>5, <4>1 DEF Remembered
    <3> QED BY <3>1, <3>2
  <2> QED BY <2>1, <2>2, <2>3, <2>4, <2>5, RememberedMoves
<1>7. ASSUME NEW p \in Procs, Rename(p) \/ RenameFails(p) \/ Crash(p) PROVE Remembered'
  <2>1. /\ proc'[p] = Idle /\ \A q \in Procs : q # p => proc'[q] = proc[q]
        /\ files' = files /\ taught' = taught
    BY <1>7, EndState DEF Rename, RenameFails, Crash
  <2>2. Idle.mem = Default
    BY DEF Idle
  <2> QED BY <2>1, <2>2 DEF Remembered
<1>8. CASE UNCHANGED vars
  BY <1>8 DEF vars, disk, history, Remembered
<1> QED BY <1>1, <1>2, <1>3, <1>4, <1>5, <1>6, <1>7, <1>8 DEF Next

-----------------------------------------------------------------------------
(* As long as no two runs overlap. *)

AtLeast(m, n) == m.runs >= n.runs /\ m.samples >= n.samples
Reaches(s, svd) == s.mem = Recall(svd \o s.taken) /\ AtLeast(s.mem, Recall(svd))
Writes(s, t, fs) ==
  s.at = "write" => /\ s.fd = t /\ s.next <= Len(Text(s.mem)) + 1
                    /\ fs[t] = Prefix(s.mem, s.next - 1)
OneAtATime == \A p, q \in Procs : proc[p] # Idle /\ proc[q] # Idle => p = q
Kept == IF path = NoFile THEN saved = << >>
        ELSE path # tmp /\ files[path] = Text(Recall(saved))
Alone == /\ OneAtATime
         /\ Kept
         /\ \A p \in Procs : proc[p] # Idle => Reaches(proc[p], saved) /\ Writes(proc[p], tmp, files)

LEMMA AtLeastItself ==
  ASSUME NEW m \in Profiles
  PROVE  AtLeast(m, m)
BY DEF AtLeast, Profiles

LEMMA TextReadsBack ==
  ASSUME NEW m \in Profiles
  PROVE  Writers(Text(m)) = {m} /\ Readings(Text(m)) = {m} /\ Intact(Text(m))
<1>1. PICK n \in Nat : n >= 1 /\ Text(m) = Prefix(m, n)
  BY TextIsAPrefix
<1>2. 1 \in 1..n /\ DOMAIN Prefix(m, n) = 1..n
      /\ \A i \in 1..n : Prefix(m, n)[i] = {[of |-> m, at |-> i]}
  BY <1>1 DEF Prefix
<1> HIDE DEF Prefix
<1>3. ASSUME NEW w \in Writers(Prefix(m, n)) PROVE w = m
  <2>1. PICK x \in UNION Range(Prefix(m, n)) : w = x.of
    BY DEF Writers
  <2>2. PICK i \in 1..n : x \in Prefix(m, n)[i]
    BY <1>2, <2>1 DEF Range
  <2> QED BY <1>2, <2>1, <2>2
<1>4. m \in Writers(Prefix(m, n))
  <2> DEFINE x == [of |-> m, at |-> 1]
  <2>1. x \in Prefix(m, n)[1] /\ x.of = m
    BY <1>2
  <2>2. x \in UNION Range(Prefix(m, n))
    <3> HIDE DEF x
    <3> QED BY <1>2, <2>1 DEF Range
  <2> HIDE DEF x
  <2> QED BY <2>1, <2>2 DEF Writers
<1>5. Writers(Text(m)) = {m}
  BY <1>1, <1>3, <1>4
<1> QED BY <1>5 DEF Readings, Mixed, Intact

LEMMA KeptIsShown ==
  ASSUME Typed, Kept
  PROVE  /\ Whole
         /\ path # NoFile => /\ files[path] = Text(Recall(saved))
                             /\ Intact(files[path])
                             /\ Readings(files[path]) = {Recall(saved)}
                             /\ Writers(files[path]) = {Recall(saved)}
         /\ OnDisk = Recall(saved)
<1>1. Recall(saved) \in Profiles
  BY RecallIsAProfile DEF Typed
<1>2. CASE path = NoFile
  BY <1>2, RecallOfNothing DEF Kept, Whole, OnDisk
<1>3. CASE path # NoFile
  <2>1. files[path] = Text(Recall(saved))
    BY <1>3 DEF Kept
  <2>2. /\ Readings(files[path]) = {Recall(saved)} /\ Writers(files[path]) = {Recall(saved)}
        /\ Intact(files[path])
    BY <1>1, <2>1, TextReadsBack
  <2>3. Whole
    BY <2>2 DEF Whole
  <2>4. OnDisk = CHOOSE m \in {Recall(saved)} : TRUE
    BY <1>3, <2>2, <2>3 DEF OnDisk
  <2> QED BY <1>3, <2>1, <2>2, <2>3, <2>4
<1> QED BY <1>2, <1>3

(* A step of the only run.                                                  *)
LEMMA AloneMoves ==
  ASSUME Typed, Alone, NEW p \in Procs, NEW s \in States, proc' = [proc EXCEPT ![p] = s],
         proc[p] # Idle \/ \A q \in Procs : proc[q] = Idle,
         Kept', Reaches(s, saved'), Writes(s, tmp', files')
  PROVE  Alone'
<1>1. proc'[p] = s /\ \A q \in Procs : q # p => proc'[q] = Idle
  BY ProcMoves DEF Alone, OneAtATime
<1> QED BY <1>1 DEF Alone, OneAtATime

LEMMA AloneEnds ==
  ASSUME Typed, Alone, NEW p \in Procs, Ends(p), proc[p] # Idle, Kept'
  PROVE  Alone'
<1>1. proc'[p] = Idle /\ \A q \in Procs : q # p => proc'[q] = Idle
  BY EndState DEF Alone, OneAtATime
<1> QED BY <1>1 DEF Alone, OneAtATime

LEMMA AloneInit == Init => Alone
<1> SUFFICES ASSUME Init PROVE Alone
  OBVIOUS
<1>1. \A p \in Procs : proc[p] = Idle
  BY DEF Init
<1> QED BY <1>1 DEF Init, Alone, OneAtATime, Kept

LEMMA StartsAlone ==
  ASSUME NEW p \in Procs, Starts(p), ~overlapped'
  PROVE  /\ ~overlapped /\ \A q \in Procs : proc[q] = Idle
         /\ UNCHANGED <<path, tmp, files, taught, saved>>
BY DEF Starts, disk

LEMMA AloneLoads ==
  ASSUME Typed, Alone, ~overlapped', NEW p \in Procs, NEW run \in Runs,
         LoadNothing(p, run) \/ LoadFile(p, run)
  PROVE  Alone'
<1>1. PICK m \in Profiles :
        /\ \/ path = NoFile /\ m = Default
           \/ path \in Inodes /\ m \in Readings(files[path])
        /\ proc' = [proc EXCEPT ![p] = Loaded(run, m)]
        /\ Starts(p)
  BY LoadState
<1>2. (\A q \in Procs : proc[q] = Idle) /\ UNCHANGED <<path, tmp, files, saved>>
  BY <1>1, StartsAlone
<1>3. m = Recall(saved)
  <2>1. CASE path = NoFile
    BY <1>1, <2>1, RecallOfNothing, SomeInodes DEF Alone, Kept
  <2>2. CASE path \in Inodes /\ m \in Readings(files[path])
    BY <2>2, SomeInodes, KeptIsShown DEF Alone
  <2> QED BY <1>1, <2>1, <2>2
<1> DEFINE s == Loaded(run, m)
<1>4. s \in States /\ s.mem = m /\ s.at = "work" /\ s.taken = << >>
  BY LoadedIsAState
<1>5. saved \o << >> = saved
  <2> HIDE DEF Lessons
  <2> QED BY DEF Typed
<1>6. AtLeast(m, m)
  BY AtLeastItself
<1> HIDE DEF s
<1>7. Reaches(s, saved') /\ Writes(s, tmp', files')
  BY <1>2, <1>3, <1>4, <1>5, <1>6 DEF Reaches, Writes
<1>8. Kept'
  BY <1>2 DEF Alone, Kept
<1> QED BY <1>1, <1>2, <1>4, <1>7, <1>8, AloneMoves DEF s

LEMMA AloneLearns ==
  ASSUME Typed, Alone, NEW p \in Procs, Learn(p)
  PROVE  Alone'
<1>1. PICK lesson \in Lessons, s \in States :
        /\ proc' = [proc EXCEPT ![p] = s]
        /\ s.mem = Take(proc[p].mem, lesson)
        /\ s.taken = Append(proc[p].taken, lesson)
        /\ s.at = "work" /\ proc[p] # Idle
  BY LearnState
<1>2. UNCHANGED <<path, tmp, files, saved>>
  BY DEF Learn, disk
<1> DEFINE old == proc[p].taken
           both == saved \o old
<1>3. saved \in Seq(Lessons) /\ old \in Seq(Lessons) /\ proc[p].mem \in Profiles
  BY StateShape DEF Typed, Places
<1>4. both \in Seq(Lessons) /\ saved \o Append(old, lesson) = Append(both, lesson)
  <2> HIDE DEF Lessons, old
  <2> QED BY <1>3
<1>5. proc[p].mem = Recall(both) /\ AtLeast(proc[p].mem, Recall(saved))
  BY <1>1 DEF Alone, Reaches
<1>6. Recall(Append(both, lesson)) = Take(Recall(both), lesson)
  BY <1>4, RecallAppends
<1>7. s.mem = Recall(saved \o s.taken)
  BY <1>1, <1>4, <1>5, <1>6
<1>8. AtLeast(s.mem, Recall(saved))
  <2>1. /\ s.mem \in Profiles
        /\ s.mem.runs >= proc[p].mem.runs /\ s.mem.samples >= proc[p].mem.samples
    BY <1>1, <1>3, TakeGrows
  <2>2. Recall(saved) \in Profiles
    BY <1>3, RecallIsAProfile
  <2> QED BY <1>3, <1>5, <2>1, <2>2 DEF AtLeast, Profiles
<1>9. Reaches(s, saved') /\ Writes(s, tmp', files') /\ Kept'
  BY <1>1, <1>2, <1>7, <1>8 DEF Reaches, Writes, Alone, Kept
<1> QED BY <1>1, <1>9, AloneMoves

LEMMA AloneSkips ==
  ASSUME Typed, Alone, NEW p \in Procs, Skip(p)
  PROVE  Alone'
<1>1. PICK s \in States :
        /\ proc' = [proc EXCEPT ![p] = s]
        /\ s.mem = proc[p].mem /\ s.taken = proc[p].taken
        /\ s.at = "work" /\ proc[p] # Idle
  BY SkipState
<1>2. UNCHANGED <<path, tmp, files, saved>>
  BY DEF Skip, disk, history
<1>3. Reaches(s, saved') /\ Writes(s, tmp', files') /\ Kept'
  BY <1>1, <1>2 DEF Reaches, Writes, Alone, Kept
<1> QED BY <1>1, <1>3, AloneMoves

LEMMA AloneOpens ==
  ASSUME Typed, Alone, NEW p \in Procs, OpenTmp(p)
  PROVE  Alone'
<1>1. PICK f \in Inodes, s \in States :
        /\ proc' = [proc EXCEPT ![p] = s]
        /\ s.mem = proc[p].mem /\ s.taken = proc[p].taken
        /\ s.at = "write" /\ s.fd = f /\ s.next = 1 /\ proc[p] # Idle
        /\ tmp' = f /\ (f = tmp \/ f # path)
        /\ files' = [files EXCEPT ![f] = << >>]
  BY OpenState
<1>2. UNCHANGED <<path, saved>>
  BY DEF OpenTmp, history
<1>3. files'[f] = << >> /\ (path # NoFile => files'[path] = files[path] /\ path # tmp')
  BY <1>1 DEF Typed, Alone, Kept
<1>4. Prefix(s.mem, 0) = << >>
  BY PrefixGrows
<1>5. s.mem \in Profiles
  BY <1>1, StateShape DEF Places
<1>6. s.next <= Len(Text(s.mem)) + 1 /\ s.next - 1 = 0
  BY <1>1, <1>5, TextIsAPrefix
<1>7. Writes(s, tmp', files')
  BY <1>1, <1>3, <1>4, <1>6 DEF Writes
<1>8. Reaches(s, saved')
  BY <1>1, <1>2 DEF Reaches, Alone
<1>9. Kept'
  BY <1>2, <1>3 DEF Alone, Kept
<1> QED BY <1>1, <1>7, <1>8, <1>9, AloneMoves

LEMMA AloneWrites ==
  ASSUME Typed, Alone, NEW p \in Procs, WritePiece(p)
  PROVE  Alone'
<1> DEFINE m == proc[p].mem
           i == proc[p].next
           b == [of |-> m, at |-> i]
<1>1. PICK s \in States :
        /\ proc' = [proc EXCEPT ![p] = s]
        /\ s.mem = m /\ s.taken = proc[p].taken
        /\ s.at = "write" /\ s.fd = proc[p].fd /\ s.next = i + 1
        /\ proc[p] # Idle /\ proc[p].at = "write" /\ proc[p].fd \in Inodes
        /\ i \in Nat /\ i >= 1 /\ m \in Profiles
        /\ files' = [files EXCEPT ![proc[p].fd] = Written(@, i, b)]
  BY WriteState
<1>2. UNCHANGED <<path, tmp, saved>> /\ i <= Len(Text(m))
  BY DEF WritePiece, history, Unwritten
<1>3. proc[p].fd = tmp /\ files[tmp] = Prefix(m, i - 1)
  BY <1>1 DEF Alone, Writes
<1>4. files'[tmp] = Prefix(m, i)
  <2>1. files'[tmp] = Written(Prefix(m, i - 1), i, b)
    BY <1>1, <1>3 DEF Typed
  <2>2. i - 1 \in Nat /\ i - 1 + 1 = i
    BY <1>1
  <2>3. Written(Prefix(m, i - 1), i - 1 + 1, [of |-> m, at |-> i - 1 + 1]) = Prefix(m, i - 1 + 1)
    <3> HIDE DEF m, i
    <3> QED BY <2>2, PrefixGrows
  <2> QED BY <2>1, <2>2, <2>3
<1>5. path # NoFile => files'[path] = files[path] /\ path # tmp'
  BY <1>1, <1>2, <1>3 DEF Typed, Alone, Kept
<1>6. Reaches(s, saved') /\ Kept'
  BY <1>1, <1>2, <1>5 DEF Reaches, Alone, Kept
<1>7. Writes(s, tmp', files')
  <2>1. i + 1 <= Len(Text(m)) + 1 /\ i + 1 - 1 = i
    <3>1. Len(Text(m)) \in Nat
      BY <1>1, TextIsAPrefix
    <3> HIDE DEF m, i
    <3> QED BY <1>1, <1>2, <3>1
  <2> HIDE DEF m, i
  <2> QED BY <1>1, <1>2, <1>3, <1>4, <2>1 DEF Writes
<1> QED BY <1>1, <1>6, <1>7, AloneMoves

LEMMA SavedIsKept ==
  ASSUME Typed, Alone, NEW p \in Procs, Rename(p)
  PROVE  /\ Kept' /\ Ends(p) /\ proc[p] # Idle
         /\ saved' \in Seq(Lessons) /\ AtLeast(Recall(saved'), Recall(saved))
<1> DEFINE m == proc[p].mem
<1>1. /\ proc[p].at = "write" /\ ~(proc[p].next <= Len(Text(m)))
      /\ tmp # NoFile /\ path' = tmp /\ tmp' = NoFile
      /\ saved' = saved \o proc[p].taken /\ files' = files /\ Ends(p)
  BY DEF Rename, Unwritten, Ends
<1>2. proc[p] # Idle
  BY <1>1 DEF Idle
<1>3. m = Recall(saved') /\ AtLeast(m, Recall(saved))
  BY <1>1, <1>2 DEF Alone, Reaches
<1>4. /\ proc[p].next <= Len(Text(m)) + 1
      /\ files[tmp] = Prefix(m, proc[p].next - 1)
  BY <1>1, <1>2 DEF Alone, Writes
<1>5. m \in Profiles /\ proc[p].next \in Nat /\ proc[p].taken \in Seq(Lessons)
  BY StateShape DEF Places
<1>6. files[tmp] = Text(m)
  <2>1. PICK n \in Nat : Text(m) = Prefix(m, n) /\ Len(Text(m)) = n
    BY <1>5, TextIsAPrefix
  <2>2. proc[p].next - 1 = n
    BY <1>1, <1>4, <1>5, <2>1
  <2> QED BY <1>4, <2>1, <2>2
<1>7. saved' \in Seq(Lessons)
  <2> HIDE DEF Lessons
  <2> QED BY <1>1, <1>5 DEF Typed
<1> HIDE DEF m
<1>8. Kept'
  BY <1>1, <1>3, <1>6 DEF Kept
<1> QED BY <1>1, <1>2, <1>3, <1>7, <1>8

LEMMA AloneStep ==
  ASSUME Typed, ~overlapped => Alone, [Next]_vars
  PROVE  ~overlapped' => Alone'
<1> SUFFICES ASSUME ~overlapped' PROVE Alone'
  OBVIOUS
<1>1. ASSUME NEW p \in Procs, NEW run \in Runs, LoadNothing(p, run) \/ LoadFile(p, run)
      PROVE  Alone'
  <2>1. ~overlapped
    BY <1>1, StartsAlone DEF LoadNothing, LoadFile, Loads
  <2> QED BY <1>1, <2>1, AloneLoads
<1>2. ASSUME NEW p \in Procs, LoadRefused(p) PROVE Alone'
  <2>1. ~overlapped /\ UNCHANGED <<path, tmp, files, saved, proc>>
    BY <1>2, StartsAlone DEF LoadRefused
  <2> QED BY <2>1 DEF Alone, OneAtATime, Kept
<1>3. ASSUME NEW p \in Procs, Learn(p) PROVE Alone'
  BY <1>3, AloneLearns DEF Learn
<1>4. ASSUME NEW p \in Procs, Skip(p) PROVE Alone'
  BY <1>4, AloneSkips DEF Skip, history
<1>5. ASSUME NEW p \in Procs, OpenTmp(p) PROVE Alone'
  BY <1>5, AloneOpens DEF OpenTmp, history
<1>6. ASSUME NEW p \in Procs, WritePiece(p) PROVE Alone'
  BY <1>6, AloneWrites DEF WritePiece, history
<1>7. ASSUME NEW p \in Procs, Rename(p) PROVE Alone'
  <2>1. ~overlapped
    BY <1>7 DEF Rename, Ends
  <2> QED BY <1>7, <2>1, SavedIsKept, AloneEnds
<1>8. ASSUME NEW p \in Procs, RenameFails(p) \/ Crash(p) PROVE Alone'
  <2>1. /\ ~overlapped /\ Ends(p) /\ proc[p] # Idle
        /\ UNCHANGED <<path, tmp, files, saved>>
    BY <1>8 DEF RenameFails, Crash, Ends, Idle
  <2>2. Kept'
    BY <2>1 DEF Alone, Kept
  <2> QED BY <2>1, <2>2, AloneEnds
<1>9. CASE UNCHANGED vars
  BY <1>9 DEF vars, disk, history, Alone, OneAtATime, Kept
<1> QED BY <1>1, <1>2, <1>3, <1>4, <1>5, <1>6, <1>7, <1>8, <1>9 DEF Next

LEMMA StepForgetsNothing ==
  ASSUME Typed, Typed', Alone, Alone', [Next]_vars, ~overlapped'
  PROVE  OnDisk'.runs >= OnDisk.runs /\ OnDisk'.samples >= OnDisk.samples
<1>1. OnDisk = Recall(saved)
  BY KeptIsShown DEF Alone
<1>2. OnDisk' = Recall(saved')
  <2>1. Recall(saved') \in Profiles
    BY RecallIsAProfile DEF Typed
  <2>2. CASE path' = NoFile
    BY <2>2, RecallOfNothing DEF Alone, Kept, OnDisk
  <2>3. CASE path' # NoFile
    <3>1. files'[path'] = Text(Recall(saved'))
      BY <2>3 DEF Alone, Kept
    <3>2. Intact(files'[path']) /\ Readings(files'[path']) = {Recall(saved')}
      BY <2>1, <3>1, TextReadsBack
    <3>3. OnDisk' = CHOOSE m \in {Recall(saved')} : TRUE
      BY <2>3, <3>2 DEF Whole, OnDisk
    <3> QED BY <3>3
  <2> QED BY <2>2, <2>3
<1>3. AtLeast(Recall(saved), Recall(saved))
  BY RecallIsAProfile, AtLeastItself DEF Typed
<1>4. AtLeast(Recall(saved'), Recall(saved))
  <2>1. ASSUME NEW p \in Procs, Rename(p) PROVE AtLeast(Recall(saved'), Recall(saved))
    BY <2>1, SavedIsKept
  <2>2. ASSUME ~\E p \in Procs : Rename(p) PROVE saved' = saved
    BY <2>2 DEF Next, LoadNothing, LoadFile, LoadRefused, Loads, Starts, Learn, Skip, OpenTmp,
                WritePiece, RenameFails, Crash, vars, history
  <2> QED BY <1>3, <2>1, <2>2
<1> QED BY <1>1, <1>2, <1>4 DEF AtLeast

(* What was mixed was written by runs that overlapped.                      *)
LEMMA SplicedStep ==
  ASSUME Typed, ~overlapped => Alone, spliced => overlapped, [Next]_vars
  PROVE  spliced' => overlapped'
<1>1. overlapped => overlapped'
  BY DEF Next, LoadNothing, LoadFile, LoadRefused, Loads, Starts, Learn, Skip, OpenTmp,
         WritePiece, Rename, RenameFails, Crash, Ends, vars, history
<1>2. ASSUME NEW p \in Procs, NEW run \in Runs, LoadNothing(p, run) \/ LoadFile(p, run),
             ~overlapped
      PROVE  ~spliced'
  <2>1. PICK m \in Profiles :
          \/ spliced' = spliced
          \/ /\ path \in Inodes /\ m \in Readings(files[path])
             /\ spliced' = (spliced \/ m \notin Writers(files[path]))
    BY <1>2, LoadState
  <2>2. path \in Inodes => Readings(files[path]) = Writers(files[path])
    BY <1>2, SomeInodes, KeptIsShown DEF Alone
  <2> QED BY <1>2, <2>1, <2>2
<1>3. ASSUME ~\E p \in Procs, run \in Runs : LoadNothing(p, run) \/ LoadFile(p, run)
      PROVE  spliced' = spliced
  BY <1>3 DEF Next, LoadRefused, Starts, Learn, Skip, OpenTmp,
         WritePiece, Rename, RenameFails, Crash, Ends, vars, history
<1> QED BY <1>1, <1>2, <1>3

(* Overlapping runs lose lessons and, until one of them loads a file two    *)
(* saves are mixed in, never invent or repeat one: every memory is what     *)
(* some of the lessons taken add up to, each once and in order, for any     *)
(* number of runs, crashes and late writes.  Without overlap no mixed file  *)
(* is met.                                                                  *)
THEOREM MemoriesAreHistories == Spec => []EveryMemoryIsAHistory
<1> DEFINE Inv == /\ Typed /\ (~overlapped => Alone)
                  /\ (spliced => overlapped) /\ (~spliced => Remembered)
<1>1. Init => Inv
  BY TypedInit, AloneInit, RememberedInit DEF Init
<1>2. Inv /\ [Next]_vars => Inv'
  BY TypedStep, AloneStep, SplicedStep, RememberedStep
<1>3. Inv => EveryMemoryIsAHistory
  BY DEF Remembered, IsHistory, EveryMemoryIsAHistory
<1> QED BY <1>1, <1>2, <1>3, PTL DEF Spec

(* Without overlap the profile is whole and holds exactly what the saved    *)
(* lessons add up to, whatever the crashes left behind.                     *)
THEOREM SavedRunsAreRemembered == Spec => []RemembersSavedRuns
<1>1. Init => Typed /\ (~overlapped => Alone)
  BY TypedInit, AloneInit
<1>2. Typed /\ (~overlapped => Alone) /\ [Next]_vars => Typed' /\ (~overlapped' => Alone')
  BY TypedStep, AloneStep
<1>3. Typed /\ (~overlapped => Alone) => RemembersSavedRuns
  BY KeptIsShown DEF Alone, RemembersSavedRuns
<1> QED BY <1>1, <1>2, <1>3, PTL DEF Spec

(* Without overlap no step takes runs or samples from what a reader of the  *)
(* profile would be shown.                                                  *)
THEOREM ProfilesOnlyGrow == Spec => NothingIsForgotten
<1> DEFINE Grows == ~overlapped' => /\ OnDisk'.runs >= OnDisk.runs
                                    /\ OnDisk'.samples >= OnDisk.samples
<1>1. Init => Typed /\ (~overlapped => Alone)
  BY TypedInit, AloneInit
<1>2. Typed /\ (~overlapped => Alone) /\ [Next]_vars => Typed' /\ (~overlapped' => Alone')
  BY TypedStep, AloneStep
<1>3. ASSUME Typed, ~overlapped => Alone, [Next]_vars
      PROVE  [Grows]_vars
  <2> SUFFICES ASSUME ~overlapped', ~UNCHANGED vars
      PROVE  OnDisk'.runs >= OnDisk.runs /\ OnDisk'.samples >= OnDisk.samples
    BY DEF Grows
  <2>1. ~overlapped
    BY <1>3 DEF Next, LoadNothing, LoadFile, LoadRefused, Loads, Starts, Learn, Skip, OpenTmp,
                WritePiece, Rename, RenameFails, Crash, Ends, vars, history
  <2> QED BY <1>2, <1>3, <2>1, StepForgetsNothing
<1> QED BY <1>1, <1>2, <1>3, PTL DEF Spec, NothingIsForgotten
=============================================================================
