---------------------------- MODULE QueryRegistry ----------------------------
(***************************************************************************)
(* HarnessResultRegistry (src/src/query.rs) used over several open stores:  *)
(* two artifacts, or one artifact opened under two plans, and executions    *)
(* under different limits, all issued into one registry.                    *)
(***************************************************************************)
EXTENDS QueryExecution

CONSTANTS Stores,      \* open stores
          Schemas,     \* schema ids in use
          LimitSets,   \* execution limits in use
          Queries,     \* queries callers run
          Answers,     \* keys callers propose
          MaxLive,     \* bound: results live at once
          MaxVerdicts  \* bound: verdicts remembered

ASSUME StoresAreDistinct == \A s, t \in Stores : s.id = t.id => s = t
ASSUME StoresAreOpened == \A st \in Stores : WellFormed(st)
ASSUME QueriesAreOperations == \A q \in Queries : q.op \in {"lookup", "intersect"}
ASSUME LimitsAreNatural == \A limits \in LimitSets : limits.support \in Nat
ASSUME BoundsAreNatural == MaxLive \in Nat /\ MaxVerdicts \in Nat

VARIABLES issued,    \* handle -> the result stored under it
          verdicts   \* history: the verdicts given so far

registryVars == <<issued, verdicts>>

Calls == {c \in [st : Stores, schema : Schemas, q : Queries, limits : LimitSets] :
            ~Refused(c.st, c.schema, c.q, c.limits)}
ResultOf(c) == Execute(c.st, c.schema, c.q, c.limits)
Handles == {ResultOf(c).id : c \in Calls}
(* What a caller may cite: nothing, or the records a query really has for a *)
(* candidate, in some store.                                                *)
Citations == {{}} \cup {TrueEvidence(st, q, k) : st \in Stores, q \in Queries, k \in Answers}

RegistryInit == /\ issued = << >>
                /\ verdicts = {}

(* Execute and issue.  `insert` replaces whatever the handle held before.   *)
Issue(c) ==
  LET r == ResultOf(c)
  IN  /\ r.id \in DOMAIN issued \/ Cardinality(DOMAIN issued) < MaxLive
      /\ issued' = [h \in DOMAIN issued \cup {r.id} |-> IF h = r.id THEN r ELSE issued[h]]
      /\ UNCHANGED verdicts

Evict(h) == /\ issued' = [g \in DOMAIN issued \ {h} |-> issued[g]]
            /\ UNCHANGED verdicts

(* Verifying changes nothing; the verdict is what the caller gets.          *)
Check(st, h, answer, cited) ==
  /\ Cardinality(verdicts) < MaxVerdicts
  /\ verdicts' = verdicts \cup
       {[store |-> st, handle |-> h, answer |-> answer, cited |-> cited,
         verdict |-> Verify(issued, st, h, answer, cited)]}
  /\ UNCHANGED issued

RegistryNext ==
  \/ \E c \in Calls : Issue(c)
  \/ \E h \in DOMAIN issued : Evict(h)
  \/ \E st \in Stores, h \in Handles, a \in Answers, e \in Citations : Check(st, h, a, e)

RegistrySpec == RegistryInit /\ [][RegistryNext]_registryVars

-----------------------------------------------------------------------------
(* What the registry holds under a handle is what some call executed.       *)
TypeOK ==
  /\ DOMAIN issued \subseteq Handles
  /\ \A h \in DOMAIN issued : \E c \in Calls : issued[h] = ResultOf(c) /\ h = ResultOf(c).id
  /\ \A v \in verdicts : v.store \in Stores

(* A valid verdict is about the store it was checked against: the question  *)
(* under the handle has exactly that one answer over that store's records,  *)
(* and everything cited is a record of that store carrying it.  No handle   *)
(* of another artifact, another plan or a bounded scan can earn it          *)
(* (query.rs:12-20).                                                        *)
ValidMeansSoleAnswerHere ==
  \A v \in verdicts : v.verdict = "valid" =>
    \E q \in Queries :
      /\ v.handle.query = QueryDigest(v.handle.schema, q)
      /\ TrueCandidates(v.store, q) = {v.answer}
      /\ v.cited \subseteq TrueEvidence(v.store, q, v.answer)

(* Verification never improves with retries: asking again what was asked    *)
(* before gives the same verdict, or finds the handle stale, whatever was   *)
(* issued or evicted meanwhile, under whatever limits (query.rs:202-206).   *)
VerdictsNeverChange ==
  \A v \in verdicts :
    \/ v.verdict = "stale-result-handle"
    \/ Verify(issued, v.store, v.handle, v.answer, v.cited)
         \in {v.verdict, "stale-result-handle"}
=============================================================================
