----------------------------- MODULE PanelSession -----------------------------
(***************************************************************************)
(* PanelSession (src/src/panel.rs): one open store, the registry of issued  *)
(* results, the scope each handle may read, and the transcript.             *)
(***************************************************************************)
EXTENDS QueryExecution

CONSTANTS Store,           \* the store the session opened
          Schema,          \* the session's schema id
          Limits,          \* its execution limits
          Queries,         \* the queries callers make
          ForeignHandles,  \* handles this session never issued
          Claims,          \* sets of record ids callers name
          Answers,         \* keys callers propose
          MaxCalls         \* bound on `sequence`

(* The session's store is one that CanonicalStore::open finished.           *)
ASSUME StoreAssumption == WellFormed(Store)
ASSUME LimitsAssumption ==
  /\ Limits.candidates \in Nat /\ Limits.support \in Nat
  /\ ~LimitsRefused(Limits)
ASSUME QueriesAssumption == \A q \in Queries : q.op \in {"lookup", "intersect"}
ASSUME CallsAssumption == MaxCalls \in Nat

VARIABLES issued,      \* registry: handle -> result
          scope,       \* handle -> record ids it may materialize
          transcript,  \* every event recorded, in order
          sequence     \* next sequence number

vars == <<issued, scope, transcript, sequence>>

(* What each query the store answers returns here.                          *)
Answered == {q \in Queries : ~Refused(Store, Schema, q, Limits)}
Results == [q \in Answered |-> Execute(Store, Schema, q, Limits)]
Handles == {Results[q].id : q \in Answered} \cup ForeignHandles

Completions == {Exhausted, LimitReached(Limits.candidates), LimitReached(Limits.support)}
RecordIds == UNION {SupportOf(Results[q]) : q \in Answered}
Events ==
  [event : {"metadata"}] \cup
  [event : {"query_refused"}, sequence : Nat, query : Queries] \cup
  [event : {"query_result"}, sequence : Nat, query : Answered, handle : Handles,
   count : Nat, completion : Completions, support : SUBSET RecordIds] \cup
  [event : {"read_refused", "read"}, sequence : Nat, handle : Handles, ids : Claims] \cup
  [event : {"final_answer"}, sequence : Nat, handle : Handles, answer : Answers,
   cited : Claims, verdict : Verdicts]

(* open: limits were checked and the store opened; nothing is recorded yet. *)
Init == /\ issued = << >>
        /\ scope = << >>
        /\ transcript = << >>
        /\ sequence = 0

(* A mutant: a number is taken on entry and another on recording.           *)
CalledTwice(event) == /\ sequence < MaxCalls
                      /\ sequence' = sequence + 2
                      /\ transcript' = Append(transcript, event)

(* Every call takes its number first, and records one event under it.       *)
Called(event) == /\ sequence < MaxCalls
                 /\ sequence' = sequence + 1
                 /\ transcript' = Append(transcript, event)

MetadataRecorded == \E i \in DOMAIN transcript : transcript[i].event = "metadata"

(* metadata: the event is recorded once, and takes no sequence number.      *)
Metadata == /\ ~MetadataRecorded
            /\ transcript' = Append(transcript, [event |-> "metadata"])
            /\ UNCHANGED <<issued, scope, sequence>>

(* A mutant: a refusal takes its number and leaves no event.                *)
RefuseSilently(q) ==
  /\ q \notin Answered
  /\ sequence < MaxCalls
  /\ sequence' = sequence + 1
  /\ UNCHANGED <<issued, scope, transcript>>

(* lookup / intersect refused: recorded, numbered, nothing issued.          *)
QueryRefused(q) ==
  /\ q \notin Answered
  /\ Called([event |-> "query_refused", sequence |-> sequence, query |-> q])
  /\ UNCHANGED <<issued, scope>>

(* lookup / intersect executed: the result is issued under its identity,    *)
(* and exactly its support becomes readable through that handle.            *)
QueryIssued(q) ==
  LET r == Results[q]
  IN  /\ q \in Answered
      /\ issued' = [h \in DOMAIN issued \cup {r.id} |-> IF h = r.id THEN r ELSE issued[h]]
      /\ scope' = [h \in DOMAIN scope \cup {r.id} |->
                     IF h = r.id THEN SupportOf(r) ELSE scope[h]]
      /\ Called([event |-> "query_result", sequence |-> sequence, query |-> q,
                 handle |-> r.id, count |-> Cardinality(r.result),
                 completion |-> r.completion, support |-> SupportOf(r)])

(* A mutant: any record of the store is readable through any live handle.   *)
ReadableAnywhere(h, ids) == h \in DOMAIN scope /\ Materializable(Store, ids)

(* materialize_inner: the handle has a scope, the scope covers every id,    *)
(* and the store resolves every id.                                        *)
Readable(h, ids) == /\ h \in DOMAIN scope
                    /\ ids \subseteq scope[h]
                    /\ Materializable(Store, ids)

Materialize(h, ids) ==
  /\ Called([event |-> IF Readable(h, ids) THEN "read" ELSE "read_refused",
             sequence |-> sequence, handle |-> h, ids |-> ids])
  /\ UNCHANGED <<issued, scope>>

Answer(h, answer, cited) ==
  /\ Called([event |-> "final_answer", sequence |-> sequence, handle |-> h,
             answer |-> answer, cited |-> cited,
             verdict |-> Verify(issued, Store, h, answer, cited)])
  /\ UNCHANGED <<issued, scope>>

(* A mutant: the registry forgets the handle and its scope stays.           *)
EvictResultOnly(h) ==
  /\ issued' = [g \in DOMAIN issued \ {h} |-> issued[g]]
  /\ UNCHANGED <<scope, transcript, sequence>>

(* evict: the scope and the result go together; not an event.               *)
Evict(h) ==
  /\ scope' = [g \in DOMAIN scope \ {h} |-> scope[g]]
  /\ issued' = [g \in DOMAIN issued \ {h} |-> issued[g]]
  /\ UNCHANGED <<transcript, sequence>>

(* A handle is a digest, so a caller can only name one it was given, or one *)
(* that belongs elsewhere.                                                  *)
Given == {transcript[i].handle :
            i \in {j \in DOMAIN transcript : transcript[j].event = "query_result"}}
Nameable == Given \cup ForeignHandles

Next == \/ Metadata
        \/ \E q \in Queries : QueryRefused(q)
        \/ \E q \in Queries : QueryIssued(q)
        \/ \E h \in Nameable, ids \in Claims : Materialize(h, ids)
        \/ \E h \in Nameable, a \in Answers, cited \in Claims : Answer(h, a, cited)
        \/ \E h \in Nameable : Evict(h)

Spec == Init /\ [][Next]_vars

-----------------------------------------------------------------------------
TypeOK == /\ DOMAIN issued \subseteq Handles
          /\ DOMAIN scope \subseteq Handles
          /\ transcript \in Seq(Events)
          /\ sequence \in 0..MaxCalls

Event(kind) == {i \in DOMAIN transcript : transcript[i].event = kind}
Truth == [q \in Answered |-> TrueCandidates(Store, q)]
Supports(q, key, cited) == /\ Truth[q] = {key}
                           /\ cited \subseteq TrueEvidence(Store, q, key)

(* An accepted answer is the truth about the store: the query whose result  *)
(* is cited has this answer and no other among all records, and every cited *)
(* record carries it.  A bounded, ambiguous, empty or foreign result never  *)
(* gets an answer accepted (panel.rs:26-37).                                *)
AcceptedAnswersAreTrue ==
  \A i \in Event("final_answer") : transcript[i].verdict = "valid" =>
    \E j \in Event("query_result") :
      /\ j < i
      /\ transcript[j].handle = transcript[i].handle
      /\ Supports(transcript[j].query, transcript[i].answer, transcript[i].cited)

(* Every read is downstream of a query: the transcript alone shows, for     *)
(* each materialized record, an earlier result under the same handle that   *)
(* handed that record id out (panel.rs:21-25).                              *)
ReadsAreDownstreamOfQueries ==
  \A i \in Event("read") :
    \E j \in Event("query_result") :
      /\ j < i
      /\ transcript[j].handle = transcript[i].handle
      /\ transcript[i].ids \subseteq transcript[j].support

(* The transcript misses no call and repeats none: metadata is recorded at  *)
(* most once, the other events carry 0, 1, 2... in order, and the counter   *)
(* is how many there are (panel.rs:18-20).                                  *)
Skipped(i) == IF \E m \in Event("metadata") : m < i THEN 1 ELSE 0
TranscriptIsGapless ==
  /\ \A i, j \in Event("metadata") : i = j
  /\ \A i \in DOMAIN transcript \ Event("metadata") :
        transcript[i].sequence = i - 1 - Skipped(i)
  /\ Len(transcript) = sequence + Skipped(Len(transcript) + 1)

(* What one step may append.  A read or an accepted answer needs a handle   *)
(* that is live in the registry at that moment: a handle the registry has   *)
(* forgotten authorizes nothing until its query is executed again, and a    *)
(* read stays inside that result's support (panel.rs:805-810).              *)
LiveHandleFor(e) ==
  /\ e.event = "read" => /\ e.handle \in DOMAIN issued
                         /\ e.ids \subseteq SupportOf(issued[e.handle])
  /\ e.event = "final_answer" => (e.verdict = "valid" => e.handle \in DOMAIN issued)
OnlyLiveHandlesAuthorize ==
  [][ Len(transcript') > Len(transcript) => LiveHandleFor(transcript'[Len(transcript')]) ]_vars

-----------------------------------------------------------------------------
(* The session keeps the promise.  A question is a query up to spelling; it *)
(* is open while a result for it is issued; disclosed and accepted are what *)
(* the transcript shows.                                                    *)
QuestionOf(handle) == handle.query[2]
Questions == {CanonicalQuery(q) : q \in Answered}
Spelling(question) == CHOOSE q \in Answered : CanonicalQuery(q) = question
TruthOf == [c \in Questions |-> TrueCandidates(Store, Spelling(c))]
ProofOf == [c \in Questions |->
              UNION {TrueEvidence(Store, Spelling(c), k) : k \in TruthOf[c]}]

OpenQuestions == {QuestionOf(h) : h \in DOMAIN issued}
Disclosed == UNION {transcript[i].ids : i \in Event("read")}
Accepted == {<<QuestionOf(transcript[i].handle), transcript[i].answer>> :
               i \in {j \in Event("final_answer") : transcript[j].verdict = "valid"}}

Promise == INSTANCE EvidencePromise WITH
             Truth <- TruthOf, Proof <- ProofOf,
             open <- OpenQuestions, disclosed <- Disclosed, accepted <- Accepted
(* Every step of a session, read through what it has issued and recorded,   *)
(* is a step the promise allows, or none.                                   *)
KeepsPromise == Promise!Spec
=============================================================================
