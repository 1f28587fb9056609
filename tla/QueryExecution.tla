---------------------------- MODULE QueryExecution ----------------------------
(***************************************************************************)
(* Executing a query and verifying an answer (src/src/query.rs), with the   *)
(* identities of src/src/canon.rs.                                          *)
(*                                                                         *)
(* A query is  [op |-> "lookup",    index, key]   or                       *)
(*             [op |-> "intersect", index, sets]  with sets a sequence, as  *)
(* callers spell it.  limits is [candidates, support, preview].             *)
(***************************************************************************)
EXTENDS CanonicalStore, Sequences

SchemaV1 == "qodec.query.v1"   \* the only schema this build can encode

Sets(q) == {q.sets[i] : i \in DOMAIN q.sets}

(* canonical_query_bytes sorts and deduplicates the sections.               *)
CanonicalQuery(q) ==
  IF q.op = "lookup" THEN q ELSE [op |-> "intersect", index |-> q.index, sets |-> Sets(q)]
QueryDigest(schema, q) == <<schema, CanonicalQuery(q)>>

Exhausted == [state |-> "exhausted", limit |-> 0]
LimitReached(n) == [state |-> "limit-reached", limit |-> n]

(* canonical_support_bytes: completion, and coordinates without the store.  *)
SupportDigest(support, completion) ==
  <<completion, [k \in DOMAIN support |-> {id.local : id \in support[k]}]>>

(* A mutant: the support is left out of the identity.                       *)
IdWithoutSupport(schema, store, queryDigest, resultDigest, supportDigest) ==
  [schema |-> schema, store |-> store, query |-> queryDigest,
   result |-> resultDigest, support |-> 0]

QueryResultId(schema, store, queryDigest, resultDigest, supportDigest) ==
  [schema |-> schema, store |-> store, query |-> queryDigest,
   result |-> resultDigest, support |-> supportDigest]

-----------------------------------------------------------------------------
LimitsRefused(limits) == limits.candidates = 0 \/ limits.support = 0

(* Everything execute can fail on: zero limits, an index or a section the   *)
(* store does not have, no section at all, a schema without an encoder.     *)
Refused(st, schema, q, limits) ==
  \/ LimitsRefused(limits)
  \/ q.index \notin DOMAIN st.indexes
  \/ q.op = "intersect" /\ (q.sets = << >> \/ ~(Sets(q) \subseteq st.sections))
  \/ schema # SchemaV1

(* What the scan for a query yields: support per candidate, completion.     *)
LookupFound(st, q, limits) ==
  LET scan == ScanLookup(st, q.index, q.key, limits.support)
  IN  [support    |-> [k \in IF scan.support = {} THEN {} ELSE {q.key} |-> scan.support],
       completion |-> IF scan.stopped THEN LimitReached(limits.support) ELSE Exhausted]
IntersectFound(st, q, limits) ==
  LET scan == ScanIntersect(st, q.index, Sets(q), limits.candidates, limits.support)
  IN  [support    |-> scan.support,
       completion |-> IF scan.stopped = NoStop THEN Exhausted
                      ELSE LimitReached(scan.stopped.limit)]
Found(st, q, limits) ==
  IF q.op = "lookup" THEN LookupFound(st, q, limits) ELSE IntersectFound(st, q, limits)

(* The issued result: everything a verdict depends on, fixed here.          *)
Execute(st, schema, q, limits) ==
  LET found      == Found(st, q, limits)
      candidates == DOMAIN found.support
      digest     == QueryDigest(schema, q)
      supportDig == SupportDigest(found.support, found.completion)
  IN  [schema        |-> schema,
       artifact      |-> st.artifact,
       plan          |-> st.plan,
       store         |-> st.id,
       query         |-> q,
       queryDigest   |-> digest,
       support       |-> found.support,
       completion    |-> found.completion,
       result        |-> candidates,
       resultDigest  |-> candidates,
       supportDigest |-> supportDig,
       preview       |-> {k \in candidates : Cardinality(Earlier(candidates, k)) < limits.preview},
       id            |-> QueryResultId(schema, st.id, digest, candidates, supportDig)]

(* All records backing a result.                                            *)
SupportOf(issued) == UNION {issued.support[k] : k \in issued.result}

-----------------------------------------------------------------------------
(* HarnessResultRegistry::verify, in the order it checks.                   *)
DigestsHold(r) == /\ r.queryDigest = QueryDigest(r.schema, r.query)
                  /\ r.resultDigest = r.result
                  /\ r.supportDigest = SupportDigest(r.support, r.completion)
Recomputed(r) == QueryResultId(r.schema, r.store, r.queryDigest, r.resultDigest, r.supportDigest)

(* Mutants: a bounded result counts as complete; the preview decides.       *)
JudgeBounded(r, answer, cited) ==
  IF Cardinality(r.result) > 1 THEN "ambiguous"
  ELSE IF r.result # {answer} THEN "invalid"
  ELSE IF ~(cited \subseteq r.support[answer]) THEN "unverifiable"
  ELSE "valid"
JudgePreview(r, answer, cited) ==
  IF r.completion # Exhausted THEN "incomplete"
  ELSE IF Cardinality(r.preview) > 1 THEN "ambiguous"
  ELSE IF r.preview # {answer} THEN "invalid"
  ELSE IF ~(cited \subseteq r.support[answer]) THEN "unverifiable"
  ELSE "valid"

(* The verdict on the content, reached only by a result that is intact.     *)
Judge(r, answer, cited) ==
  IF r.completion # Exhausted THEN "incomplete"
  ELSE IF Cardinality(r.result) > 1 THEN "ambiguous"
  ELSE IF r.result # {answer} THEN "invalid"
  ELSE IF ~(cited \subseteq r.support[answer]) THEN "unverifiable"
  ELSE "valid"

Verify(issued, st, handle, answer, cited) ==
  IF handle \notin DOMAIN issued THEN "stale-result-handle"
  ELSE LET r == issued[handle] IN
       IF r.artifact # st.artifact THEN "artifact-mismatch"
       ELSE IF r.plan # st.plan THEN "store-plan-mismatch"
       ELSE IF ~DigestsHold(r) THEN "query-digest-mismatch"
       ELSE IF Recomputed(r) # handle THEN "stale-result-handle"
       ELSE Judge(r, answer, cited)

Verdicts == {"valid", "invalid", "ambiguous", "incomplete", "unverifiable",
             "stale-result-handle", "artifact-mismatch", "store-plan-mismatch",
             "query-digest-mismatch"}

-----------------------------------------------------------------------------
(* The reference: what a query asks of the records, with no index, no       *)
(* bound and no handle.                                                     *)
TrueCandidates(st, q) ==
  IF q.op = "lookup"
  THEN IF LookupAll(st, q.index, q.key) = {} THEN {} ELSE {q.key}
  ELSE IntersectAll(st, q.index, Sets(q))

TrueEvidence(st, q, k) ==
  BindAll(st, {l \in DOMAIN st.records :
                 /\ Carries(st, q.index, l, k)
                 /\ q.op = "intersect" => SectionOf(l) \in Sets(q)})
=============================================================================
