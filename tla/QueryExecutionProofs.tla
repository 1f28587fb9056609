------------------------ MODULE QueryExecutionProofs ------------------------
(***************************************************************************)
(* What a bounded execution yields is sound for every well-formed store,    *)
(* query and limit, and complete whenever it says "exhausted".  The lemmas  *)
(* follow the code inwards: the index lists exactly the records carrying a  *)
(* key, each scan collects only true evidence, and a scan that met no bound *)
(* left nothing out.                                                       *)
(***************************************************************************)
EXTENDS QueryExecution, FiniteSetTheorems, TLAPS

(* An index built over the records of a store has every key some record     *)
(* carries, and lists under it exactly the records that do                  *)
(* (store.rs:344-357).                                                     *)
KeysOf(st, index) ==
  {Extract(st.plan.indexes[index], st.records[l]) : l \in DOMAIN st.records}

LEMMA IndexContents ==
  ASSUME NEW st, WellFormed(st), NEW index \in DOMAIN st.indexes
  PROVE  /\ DOMAIN st.indexes[index] = KeysOf(st, index) \ {NoKey}
         /\ \A k \in DOMAIN st.indexes[index] :
               st.indexes[index][k] = LookupAll(st, index, k)
<1> DEFINE ext == st.plan.indexes[index]
           idx == st.indexes[index]
<1>1. idx = BuildIndex(st.records, ext)
  BY DEF WellFormed
<1>2. idx = [k \in KeysOf(st, index) \ {NoKey} |->
               {l \in DOMAIN st.records : Extract(ext, st.records[l]) = k}]
  BY <1>1 DEF BuildIndex, KeysOf
<1>3. DOMAIN idx = KeysOf(st, index) \ {NoKey}
  BY <1>2
<1>4. ASSUME NEW k \in DOMAIN idx
      PROVE  idx[k] = LookupAll(st, index, k)
  <2>1. k # NoKey
    BY <1>3
  <2>2. idx[k] = {l \in DOMAIN st.records : Extract(ext, st.records[l]) = k}
    BY <1>2, <1>3
  <2> QED BY <2>1, <2>2 DEF LookupAll, Carries
<1> QED BY <1>3, <1>4

(* Looking a key up in the index finds what looking through the records     *)
(* would (store.rs:508-517).                                                *)
LEMMA PostingIsLookupAll ==
  ASSUME NEW st, WellFormed(st), NEW index \in DOMAIN st.indexes, NEW key
  PROVE  Posting(st.indexes[index], key) = LookupAll(st, index, key)
<1>1. CASE key \in DOMAIN st.indexes[index]
  BY <1>1, IndexContents DEF Posting
<1>2. CASE key \notin DOMAIN st.indexes[index]
  <2>1. key \notin KeysOf(st, index) \ {NoKey}
    BY <1>2, IndexContents
  <2>2. LookupAll(st, index, key) = {}
    BY <2>1 DEF LookupAll, Carries, KeysOf
  <2> QED BY <1>2, <2>2 DEF Posting
<1> QED BY <1>1, <1>2

(* A lookup's bound only ever removes records from the end.                 *)
LEMMA FirstIdsIsSubset ==
  ASSUME NEW ids, NEW n
  PROVE  FirstIds(ids, n) \subseteq ids
BY DEF FirstIds

(* When the bound is not exceeded it removes none.                          *)
LEMMA FirstIdsOfFew ==
  ASSUME NEW ids \in SUBSET (Nat \X Nat), IsFiniteSet(ids),
         NEW n \in Nat, Cardinality(ids) <= n
  PROVE  FirstIds(ids, n) = ids
<1> SUFFICES ASSUME NEW id \in ids
             PROVE  Cardinality({j \in ids : Precedes(j, id)}) < n
    BY DEF FirstIds
<1> DEFINE before == {j \in ids : Precedes(j, id)}
<1>1. id \notin before
  <2>1. id[1] \in Nat /\ id[2] \in Nat
    OBVIOUS
  <2>2. ~Precedes(id, id)
    BY <2>1 DEF Precedes
  <2> QED BY <2>2
<1>2. before \in SUBSET ids /\ before # ids
  BY <1>1
<1>3. /\ IsFiniteSet(before)
      /\ Cardinality(before) <= Cardinality(ids)
      /\ Cardinality(ids) # Cardinality(before)
  BY <1>2, FS_Subset
<1>4. Cardinality(before) \in Nat /\ Cardinality(ids) \in Nat
  BY <1>3, FS_CardinalityType
<1> QED BY <1>3, <1>4

(* The two ways a completion can be spelled are never confused.             *)
LEMMA CompletionsDiffer ==
  ASSUME NEW n PROVE LimitReached(n) # Exhausted
BY DEF LimitReached, Exhausted

LEMMA StopsDiffer ==
  ASSUME NEW n
  PROVE  StopCandidates(n) # NoStop /\ StopSupport(n) # NoStop
BY DEF StopCandidates, StopSupport, NoStop

-----------------------------------------------------------------------------
(* What "sound" means for a scan: its candidates are true candidates, their *)
(* support is true evidence, and if it claims to have seen everything then  *)
(* it has every candidate and is finite either way.                         *)
SoundFor(st, q, found) ==
  /\ DOMAIN found.support \subseteq TrueCandidates(st, q)
  /\ \A k \in DOMAIN found.support : found.support[k] \subseteq TrueEvidence(st, q, k)
  /\ found.completion = Exhausted => DOMAIN found.support = TrueCandidates(st, q)
  /\ IsFiniteSet(DOMAIN found.support)

(* scan_lookup reports only records carrying the key, and says "exhausted"  *)
(* only when it reports all of them (store.rs:446-464).                     *)
LEMMA LookupIsSound ==
  ASSUME NEW st, WellFormed(st), NEW q, q.op = "lookup", q.index \in DOMAIN st.indexes,
         NEW limits, limits.support \in Nat
  PROVE  SoundFor(st, q, LookupFound(st, q, limits))
<1> DEFINE all == Posting(st.indexes[q.index], q.key)
           scan == ScanLookup(st, q.index, q.key, limits.support)
           found == LookupFound(st, q, limits)
<1>1. all = LookupAll(st, q.index, q.key)
  BY PostingIsLookupAll
<1>2. /\ scan.support = BindAll(st, FirstIds(all, limits.support))
      /\ scan.stopped = (Cardinality(all) > limits.support)
  BY DEF ScanLookup
<1>3. scan.support \subseteq TrueEvidence(st, q, q.key)
  BY <1>1, <1>2, FirstIdsIsSubset DEF BindAll, TrueEvidence, LookupAll
<1>4. /\ DOMAIN found.support = IF scan.support = {} THEN {} ELSE {q.key}
      /\ \A k \in DOMAIN found.support : found.support[k] = scan.support
      /\ found.completion = IF scan.stopped THEN LimitReached(limits.support) ELSE Exhausted
  BY DEF LookupFound
<1>5. DOMAIN found.support \subseteq TrueCandidates(st, q)
  <2>1. scan.support # {} => all # {}
    BY <1>2, FirstIdsIsSubset DEF BindAll
  <2> QED BY <2>1, <1>1, <1>4 DEF TrueCandidates
<1>6. ASSUME found.completion = Exhausted
      PROVE  DOMAIN found.support = TrueCandidates(st, q)
  <2>1. ~(Cardinality(all) > limits.support)
    BY <1>2, <1>4, <1>6, CompletionsDiffer
  <2>2. all \in SUBSET (DOMAIN st.records) /\ DOMAIN st.records \subseteq Nat \X Nat
        /\ IsFiniteSet(DOMAIN st.records)
    BY <1>1 DEF LookupAll, WellFormed
  <2>3. IsFiniteSet(all) /\ Cardinality(all) \in Nat
    BY <2>2, FS_Subset, FS_CardinalityType
  <2>4. FirstIds(all, limits.support) = all
    BY <2>1, <2>2, <2>3, FirstIdsOfFew
  <2>5. scan.support = {} <=> all = {}
    BY <1>2, <2>4 DEF BindAll
  <2> QED BY <2>5, <1>1, <1>4 DEF TrueCandidates
<1>7. IsFiniteSet(DOMAIN found.support)
  <2>1. IsFiniteSet({}) /\ IsFiniteSet({q.key})
    BY FS_EmptySet, FS_Singleton
  <2>2. DOMAIN found.support = {} \/ DOMAIN found.support = {q.key}
    BY <1>4
  <2> HIDE DEF found
  <2> QED BY <2>1, <2>2
<1>8. \A k \in DOMAIN found.support : found.support[k] \subseteq TrueEvidence(st, q, k)
  BY <1>3, <1>4
<1> QED BY <1>5, <1>6, <1>7, <1>8 DEF SoundFor

-----------------------------------------------------------------------------
(* The keys that qualify in the index are those the records say.            *)
LEMMA QualifyingIsIntersectAll ==
  ASSUME NEW st, WellFormed(st), NEW index \in DOMAIN st.indexes, NEW wanted
  PROVE  Qualifying(st.indexes[index], wanted) = IntersectAll(st, index, wanted)
<1> DEFINE idx == st.indexes[index]
<1>1. DOMAIN idx = KeysOf(st, index) \ {NoKey}
  BY IndexContents
<1>2. ASSUME NEW k \in DOMAIN idx
      PROVE  wanted \subseteq {SectionOf(id) : id \in idx[k]} <=>
             \A s \in wanted : \E l \in DOMAIN st.records :
                SectionOf(l) = s /\ Carries(st, index, l, k)
  BY <1>2, IndexContents DEF LookupAll
<1> QED BY <1>1, <1>2 DEF Qualifying, IntersectAll, KeysOf

(* An index over finitely many records has finitely many keys.              *)
LEMMA IndexIsFinite ==
  ASSUME NEW st, WellFormed(st), NEW index \in DOMAIN st.indexes
  PROVE  IsFiniteSet(DOMAIN st.indexes[index])
<1> DEFINE keyOf == [l \in DOMAIN st.records |->
                       Extract(st.plan.indexes[index], st.records[l])]
<1>1. keyOf \in Surjection(DOMAIN st.records, KeysOf(st, index))
  BY DEF Surjection, KeysOf
<1>2. IsFiniteSet(DOMAIN st.records)
  BY DEF WellFormed
<1>3. IsFiniteSet(KeysOf(st, index))
  BY <1>1, <1>2, FS_Surjection
<1>4. DOMAIN st.indexes[index] \in SUBSET KeysOf(st, index)
  BY IndexContents
<1> QED BY <1>3, <1>4, FS_Subset

(* scan_intersect reports only qualifying keys with true evidence, and says *)
(* it met no bound only when it reports all of them (store.rs:395-444).     *)
LEMMA IntersectIsSound ==
  ASSUME NEW st, WellFormed(st), NEW q, q.op = "intersect", q.index \in DOMAIN st.indexes,
         NEW limits
  PROVE  SoundFor(st, q, IntersectFound(st, q, limits))
<1> DEFINE idx == st.indexes[q.index]
           all == Qualifying(idx, Sets(q))
           scan == ScanIntersect(st, q.index, Sets(q), limits.candidates, limits.support)
           found == IntersectFound(st, q, limits)
<1>1. all = TrueCandidates(st, q)
  BY QualifyingIsIntersectAll DEF TrueCandidates
<1>2. /\ DOMAIN scan.support \subseteq all
      /\ \A k \in DOMAIN scan.support :
            scan.support[k] = BindAll(st, Evidence(idx, Sets(q), k))
      /\ scan.stopped = NoStop => DOMAIN scan.support = all
  BY StopsDiffer DEF ScanIntersect
<1>3. ASSUME NEW k \in all
      PROVE  BindAll(st, Evidence(idx, Sets(q), k)) \subseteq TrueEvidence(st, q, k)
  <2>1. k \in DOMAIN idx
    BY <1>3 DEF Qualifying
  <2>2. idx[k] = LookupAll(st, q.index, k)
    BY <2>1, IndexContents
  <2> QED BY <2>2 DEF BindAll, Evidence, TrueEvidence, LookupAll
<1>4. found.support = scan.support
      /\ (found.completion = Exhausted => scan.stopped = NoStop)
  BY CompletionsDiffer DEF IntersectFound
<1>5. all \in SUBSET (DOMAIN idx)
  BY DEF Qualifying
<1>6. IsFiniteSet(DOMAIN found.support)
  <2>1. IsFiniteSet(DOMAIN idx)
    BY IndexIsFinite
  <2>2. DOMAIN found.support \in SUBSET (DOMAIN idx)
    BY <1>2, <1>4, <1>5
  <2> QED BY <2>1, <2>2, FS_Subset
<1> QED BY <1>1, <1>2, <1>3, <1>4, <1>6 DEF SoundFor

-----------------------------------------------------------------------------
(* Every result the executor issues is sound for the query it was issued    *)
(* for, over the store that ran it (query.rs:321-401).                      *)
THEOREM ExecuteIsSound ==
  ASSUME NEW st, WellFormed(st), NEW schema, NEW q, q.op \in {"lookup", "intersect"},
         NEW limits, limits.support \in Nat,
         ~Refused(st, schema, q, limits)
  PROVE  LET r == Execute(st, schema, q, limits)
         IN  /\ r.result = DOMAIN r.support
             /\ SoundFor(st, q, r)
<1> DEFINE r == Execute(st, schema, q, limits)
           found == Found(st, q, limits)
<1>1. /\ r.support = found.support
      /\ r.completion = found.completion
      /\ r.result = DOMAIN found.support
  BY DEF Execute
<1>2. q.index \in DOMAIN st.indexes
  BY DEF Refused
<1>3. SoundFor(st, q, found)
  <2>1. CASE q.op = "lookup"
    BY <1>2, <2>1, LookupIsSound DEF Found
  <2>2. CASE q.op = "intersect"
    BY <1>2, <2>2, IntersectIsSound DEF Found
  <2> QED BY <2>1, <2>2
<1> QED BY <1>1, <1>3 DEF SoundFor

(* A valid verdict on a result the executor issued means the answer is the  *)
(* query's only candidate among all records and what is cited bears on it   *)
(* (query.rs:262-282).                                                      *)
LEMMA ValidMeansTrue ==
  ASSUME NEW st, NEW q, NEW r, r.result = DOMAIN r.support, SoundFor(st, q, r),
         NEW answer, NEW cited, Judge(r, answer, cited) = "valid"
  PROVE  TrueCandidates(st, q) = {answer} /\ cited \subseteq TrueEvidence(st, q, answer)
<1>1. r.completion = Exhausted /\ r.result = {answer} /\ cited \subseteq r.support[answer]
  BY DEF Judge
<1> QED BY <1>1 DEF SoundFor

(* Two spellings of one question are one execution: the handle they are     *)
(* issued under is the same (canon.rs:649-673).                             *)
THEOREM SpellingsShareAHandle ==
  ASSUME NEW st, NEW schema, NEW limits, NEW q1, NEW q2,
         q1.op \in {"lookup", "intersect"}, q2.op \in {"lookup", "intersect"},
         CanonicalQuery(q1) = CanonicalQuery(q2)
  PROVE  Execute(st, schema, q1, limits).id = Execute(st, schema, q2, limits).id
<1>1. CASE q1.op = "lookup"
  <2>1. q1 = q2
    BY <1>1 DEF CanonicalQuery
  <2> QED BY <2>1
<1>2. CASE q1.op = "intersect"
  <2>1. q2.op = "intersect" /\ q1.index = q2.index /\ Sets(q1) = Sets(q2)
    BY <1>2 DEF CanonicalQuery
  <2>2. Found(st, q1, limits) = Found(st, q2, limits)
    BY <1>2, <2>1 DEF Found, IntersectFound
  <2>3. QueryDigest(schema, q1) = QueryDigest(schema, q2)
    BY DEF QueryDigest
  <2> QED BY <2>2, <2>3 DEF Execute
<1> QED BY <1>1, <1>2
=============================================================================
