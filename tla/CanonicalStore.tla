---------------------------- MODULE CanonicalStore ----------------------------
(***************************************************************************)
(* What an opened store holds and what its reads return (src/src/store.rs). *)
(*                                                                         *)
(* Section names and index keys enter only through equality and byte order, *)
(* so each is a natural number: its rank in that order.  A decoded line is  *)
(* a record                                                                *)
(*    mark  : the section the line opens when it is read as a marker,       *)
(*            NoMark when it is none, BadName when it has the marker's      *)
(*            shape around a name SetName::parse refuses;                   *)
(*    field : the key a Field extractor lifts, NoKey if it has too few      *)
(*            fields;                                                      *)
(*    whole : the key that is the line itself.                              *)
(* A digest is the value it digests: the encodings of canon.rs are framed   *)
(* so that no two values share one.                                        *)
(***************************************************************************)
EXTENDS Integers, FiniteSets

NoMark  == -2
BadName == -1
NoKey   == -1

(* The coordinates of a record inside one store, in canonical order.        *)
LocalId(section, ordinal) == <<section, ordinal>>
SectionOf(local) == local[1]
Precedes(a, b) == a[1] < b[1] \/ (a[1] = b[1] /\ a[2] < b[2])

(* KeyExtractor::extract: which key a line has under one index spec.        *)
Extract(extractor, line) == IF extractor = "whole" THEN line.whole ELSE line.field

(* One index: every key some record carries, with all records carrying it.  *)
BuildIndex(records, extractor) ==
  LET carried == {Extract(extractor, records[id]) : id \in DOMAIN records}
  IN  [k \in carried \ {NoKey} |->
         {id \in DOMAIN records : Extract(extractor, records[id]) = k}]

(* A mutant: the plan left out of the identity.                             *)
StoreIdOfArtifact(artifact, plan) == <<artifact>>

(* Store identity: which artifact, opened which way.                        *)
StoreId(artifact, plan) == <<artifact, plan>>

(* A finished store: the records found, the sections declared, the indexes. *)
MakeStore(artifact, plan, records, sections) ==
  [id       |-> StoreId(artifact, plan),
   artifact |-> artifact,
   plan     |-> plan,
   sections |-> sections,
   records  |-> records,
   indexes  |-> [n \in DOMAIN plan.indexes |-> BuildIndex(records, plan.indexes[n])]]

(* What `open` guarantees of the store it returns: the indexes are those of *)
(* the records, which are finitely many and have a section and an ordinal.  *)
WellFormed(st) ==
  /\ st.id = StoreId(st.artifact, st.plan)
  /\ DOMAIN st.indexes = DOMAIN st.plan.indexes
  /\ \A n \in DOMAIN st.indexes :
        st.indexes[n] = BuildIndex(st.records, st.plan.indexes[n])
  /\ DOMAIN st.records \subseteq Nat \X Nat
  /\ IsFiniteSet(DOMAIN st.records)

(* A record id as callers see it: coordinates bound to the store.           *)
Bind(st, local) == [store |-> st.id, local |-> local]
BindAll(st, locals) == {Bind(st, id) : id \in locals}

-----------------------------------------------------------------------------
(* Bounded scans. *)

(* The records an index lists under a key; an absent key lists none.        *)
Posting(index, key) == IF key \in DOMAIN index THEN index[key] ELSE {}

(* The first n records in canonical order.                                  *)
FirstIds(ids, n) == {id \in ids : Cardinality({j \in ids : Precedes(j, id)}) < n}

(* scan_lookup: at most maxSupport records, and whether there were more.    *)
ScanLookup(st, index, key, maxSupport) ==
  LET all == Posting(st.indexes[index], key)
  IN  [support |-> BindAll(st, FirstIds(all, maxSupport)),
       stopped |-> Cardinality(all) > maxSupport]

(* A key qualifies when every wanted section holds a record carrying it;    *)
(* its evidence is the records carrying it in the wanted sections.          *)
Qualifying(index, wanted) ==
  {k \in DOMAIN index : wanted \subseteq {SectionOf(id) : id \in index[k]}}
Evidence(index, wanted, k) == {id \in index[k] : SectionOf(id) \in wanted}

(* What the scan has collected when it has stored every qualifying key up   *)
(* to k, and whether it could store k: keys are visited in order, and the   *)
(* scan stops for good at the first qualifying key that does not fit.       *)
Earlier(keys, k) == {q \in keys : q < k}
Spent(index, wanted, keys) == UNION {Evidence(index, wanted, q) : q \in keys}
Fits(index, wanted, k, maxCandidates, maxSupport) ==
  LET before == Earlier(Qualifying(index, wanted), k)
  IN  /\ Cardinality(before) < maxCandidates
      /\ Cardinality(Spent(index, wanted, before \cup {k})) <= maxSupport

NoStop == [reason |-> "none", limit |-> 0]
StopCandidates(limit) == [reason |-> "candidates", limit |-> limit]
StopSupport(limit)    == [reason |-> "support", limit |-> limit]

(* scan_intersect: the qualifying keys before the first that does not fit,  *)
(* each with its whole evidence, and which bound was met.                   *)
ScanIntersect(st, index, wanted, maxCandidates, maxSupport) ==
  LET idx    == st.indexes[index]
      all    == Qualifying(idx, wanted)
      stored == {k \in all : Fits(idx, wanted, k, maxCandidates, maxSupport)}
  IN  [support |-> [k \in stored |-> BindAll(st, Evidence(idx, wanted, k))],
       stopped |-> IF stored = all THEN NoStop
                   ELSE IF Cardinality(stored) >= maxCandidates
                        THEN StopCandidates(maxCandidates)
                        ELSE StopSupport(maxSupport)]

-----------------------------------------------------------------------------
(* materialize: all ids must be of this store, and all must resolve, or     *)
(* nothing is returned.                                                    *)
Materializable(st, ids) ==
  /\ \A id \in ids : id.store = st.id
  /\ \A id \in ids : id.local \in DOMAIN st.records
Bytes(st, ids) == {<<id, st.records[id.local]>> : id \in ids}

-----------------------------------------------------------------------------
(* The unbounded reads, stated over the records and not over the indexes:   *)
(* the reference the bounded scans are measured against.                    *)
Carries(st, index, local, key) ==
  /\ local \in DOMAIN st.records
  /\ Extract(st.plan.indexes[index], st.records[local]) = key
  /\ key # NoKey
LookupAll(st, index, key) == {l \in DOMAIN st.records : Carries(st, index, l, key)}
IntersectAll(st, index, wanted) ==
  {k \in {Extract(st.plan.indexes[index], st.records[l]) : l \in DOMAIN st.records} \ {NoKey} :
     \A s \in wanted : \E l \in DOMAIN st.records :
        SectionOf(l) = s /\ Carries(st, index, l, k)}
=============================================================================
