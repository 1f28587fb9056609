---------------------------- MODULE SessionProofs ----------------------------
(***************************************************************************)
(* The safety of a panel session, and of a forced-query cell that drives   *)
(* one, for every well-formed store, every query set, every budget, every  *)
(* model and every network.                                                *)
(*                                                                         *)
(* The session.  Its invariant, LiveResults, ties the registry, the scopes *)
(* and the transcript together: whatever is live was issued for a query    *)
(* and handed out in an event that is still in the transcript.             *)
(*                                                                         *)
(* The cell.  It drives its session only through the session's own         *)
(* operations, so what is proved of every session holds in every cell.     *)
(* What it writes down beside that is classified once (Recorded, Steps):   *)
(* a step sends and records, says nothing, carries out a call or ends the  *)
(* cell; the records, the bill, the models and the dialogue each have an   *)
(* invariant over those few kinds of step.                                 *)
(***************************************************************************)
EXTENDS ForcedCell, QueryExecutionProofs, WellFoundedInduction

-----------------------------------------------------------------------------
(* The session. *)

(* Appending leaves the events there were and adds one at the end.          *)
LEMMA AppendKeeps ==
  ASSUME NEW S, NEW s \in Seq(S), NEW e
  PROVE  /\ Len(Append(s, e)) = Len(s) + 1
         /\ DOMAIN Append(s, e) = DOMAIN s \cup {Len(s) + 1}
         /\ \A i \in DOMAIN s : Append(s, e)[i] = s[i]
         /\ Append(s, e)[Len(s) + 1] = e
         /\ DOMAIN s = 1..Len(s)
         /\ Len(s) \in Nat
OBVIOUS

(* The result of every query the session answers is sound for it.           *)
LEMMA ResultsAreSound ==
  ASSUME NEW q \in Answered
  PROVE  /\ Results[q].result = DOMAIN Results[q].support
         /\ SoundFor(Store, q, Results[q])
<1>1. /\ WellFormed(Store)
      /\ q.op \in {"lookup", "intersect"}
      /\ Limits.support \in Nat
      /\ ~Refused(Store, Schema, q, Limits)
  BY StoreAssumption, QueriesAssumption, LimitsAssumption DEF Answered
<1>2. Results[q] = Execute(Store, Schema, q, Limits)
  BY DEF Results
<1> QED BY <1>1, <1>2, ExecuteIsSound

(* Its completion is one of the three the limits allow.                     *)
LEMMA ResultsComplete ==
  ASSUME NEW q \in Answered
  PROVE  Results[q].completion \in Completions
<1> DEFINE found == Found(Store, q, Limits)
           scan == ScanIntersect(Store, q.index, Sets(q), Limits.candidates, Limits.support)
<1>1. Results[q].completion = found.completion
  BY DEF Results, Execute
<1>2. CASE q.op = "lookup"
  BY <1>1, <1>2 DEF Found, LookupFound, Completions
<1>3. CASE q.op # "lookup"
  <2>1. scan.stopped \in {NoStop, StopCandidates(Limits.candidates), StopSupport(Limits.support)}
    BY DEF ScanIntersect
  <2>2. found.completion \in {Exhausted, LimitReached(Limits.candidates),
                              LimitReached(Limits.support)}
    BY <1>3, <2>1 DEF Found, IntersectFound, StopCandidates, StopSupport
  <2> QED BY <1>1, <2>2 DEF Completions
<1> QED BY <1>2, <1>3

(* Every verdict is one of the nine the outcome type lists.                 *)
LEMMA VerdictType ==
  ASSUME NEW registry, NEW st, NEW h, NEW answer, NEW cited
  PROVE  Verify(registry, st, h, answer, cited) \in Verdicts
BY DEF Verify, Judge, Verdicts

-----------------------------------------------------------------------------
(* Type correctness. *)

LEMMA TypeInit == Init => TypeOK
BY CallsAssumption DEF Init, TypeOK, Handles

(* Recording a typed event keeps the transcript and the counter typed.      *)
LEMMA CalledKeepsType ==
  ASSUME TypeOK, NEW e \in Events, Called(e)
  PROVE  transcript' \in Seq(Events) /\ sequence' \in 0..MaxCalls
BY CallsAssumption DEF TypeOK, Called

LEMMA NameableHandles ==
  ASSUME TypeOK, NEW h \in Nameable
  PROVE  h \in Handles
<1>1. CASE h \in ForeignHandles
  BY <1>1 DEF Handles
<1>2. CASE h \in Given
  <2>1. PICK i \in DOMAIN transcript : /\ transcript[i].event = "query_result"
                                       /\ h = transcript[i].handle
    BY <1>2 DEF Given
  <2>2. transcript[i] \in Events
    BY DEF TypeOK
  <2> QED BY <2>1, <2>2 DEF Events
<1> QED BY <1>1, <1>2 DEF Nameable

LEMMA TypeStep == TypeOK /\ [Next]_vars => TypeOK'
<1> SUFFICES ASSUME TypeOK, [Next]_vars PROVE TypeOK'
    OBVIOUS
<1> USE CallsAssumption
<1>1. CASE Metadata
  <2>1. [event |-> "metadata"] \in Events
    BY DEF Events
  <2> QED BY <1>1, <2>1 DEF Metadata, TypeOK
<1>2. ASSUME NEW q \in Queries, QueryRefused(q) PROVE TypeOK'
  <2>1. [event |-> "query_refused", sequence |-> sequence, query |-> q] \in Events
    BY DEF Events, TypeOK
  <2> QED BY <1>2, <2>1, CalledKeepsType DEF QueryRefused, TypeOK
<1>3. ASSUME NEW q \in Queries, QueryIssued(q) PROVE TypeOK'
  <2> DEFINE r == Results[q]
  <2>1. q \in Answered /\ r.id \in Handles
    BY <1>3 DEF QueryIssued, Handles
  <2>2. Cardinality(r.result) \in Nat
    BY <2>1, ResultsAreSound, FS_CardinalityType DEF SoundFor
  <2>3. r.completion \in Completions
    BY <2>1, ResultsComplete
  <2>4. SupportOf(r) \in SUBSET RecordIds
    BY <2>1 DEF RecordIds
  <2>5. [event |-> "query_result", sequence |-> sequence, query |-> q, handle |-> r.id,
         count |-> Cardinality(r.result), completion |-> r.completion,
         support |-> SupportOf(r)] \in Events
    <3>1. sequence \in Nat
      BY DEF TypeOK
    <3> HIDE DEF r
    <3> QED BY <2>1, <2>2, <2>3, <2>4, <3>1 DEF Events
  <2>6. transcript' \in Seq(Events) /\ sequence' \in 0..MaxCalls
    BY <1>3, <2>5, CalledKeepsType DEF QueryIssued
  <2>7. DOMAIN issued' \subseteq Handles /\ DOMAIN scope' \subseteq Handles
    BY <1>3, <2>1 DEF QueryIssued, TypeOK
  <2> QED BY <2>6, <2>7 DEF TypeOK
<1>4. ASSUME NEW h \in Nameable, NEW ids \in Claims, Materialize(h, ids) PROVE TypeOK'
  <2>1. h \in Handles
    BY NameableHandles
  <2>2. [event |-> IF Readable(h, ids) THEN "read" ELSE "read_refused",
         sequence |-> sequence, handle |-> h, ids |-> ids] \in Events
    BY <2>1 DEF Events, TypeOK
  <2> QED BY <1>4, <2>2, CalledKeepsType DEF Materialize, TypeOK
<1>5. ASSUME NEW h \in Nameable, NEW a \in Answers, NEW cited \in Claims,
             Answer(h, a, cited)
      PROVE  TypeOK'
  <2>1. h \in Handles /\ Verify(issued, Store, h, a, cited) \in Verdicts
    BY NameableHandles, VerdictType
  <2>2. [event |-> "final_answer", sequence |-> sequence, handle |-> h, answer |-> a,
         cited |-> cited, verdict |-> Verify(issued, Store, h, a, cited)] \in Events
    BY <2>1 DEF Events, TypeOK
  <2> QED BY <1>5, <2>2, CalledKeepsType DEF Answer, TypeOK
<1>6. ASSUME NEW h \in Nameable, Evict(h) PROVE TypeOK'
  BY <1>6 DEF Evict, TypeOK
<1>7. CASE UNCHANGED vars
  BY <1>7 DEF vars, TypeOK
<1> QED BY <1>1, <1>2, <1>3, <1>4, <1>5, <1>6, <1>7 DEF Next

(* The registry, the scopes and the transcript are well-typed in every      *)
(* state: every event recorded is one the event type of panel.rs lists.     *)
THEOREM TypeCorrect == Spec => []TypeOK
BY TypeInit, TypeStep, PTL DEF Spec

-----------------------------------------------------------------------------
(* The inductive invariant. *)

(* q's result was handed out under h, with that support, in event j.        *)
HandedOut(h, q, j) == /\ j \in Event("query_result")
                      /\ transcript[j].handle = h
                      /\ transcript[j].query = q
                      /\ transcript[j].support = SupportOf(Results[q])

LiveResult(h) ==
  \E q \in Answered :
    /\ h = Results[q].id
    /\ issued[h] = Results[q]
    /\ scope[h] = SupportOf(Results[q])
    /\ \E j \in DOMAIN transcript : HandedOut(h, q, j)
LiveResults == /\ DOMAIN scope = DOMAIN issued
               /\ \A h \in DOMAIN issued : LiveResult(h)

(* A step that leaves registry and scopes alone and only appends keeps what *)
(* was live as it was.                                                      *)
LEMMA AppendKeepsLive ==
  ASSUME TypeOK, LiveResults, NEW e, transcript' = Append(transcript, e),
         UNCHANGED <<issued, scope>>
  PROVE  LiveResults'
<1> SUFFICES ASSUME NEW h \in DOMAIN issued PROVE LiveResult(h)'
    BY DEF LiveResults
<1>1. PICK q \in Answered : /\ h = Results[q].id
                            /\ issued[h] = Results[q]
                            /\ scope[h] = SupportOf(Results[q])
                            /\ \E j \in DOMAIN transcript : HandedOut(h, q, j)
  BY DEF LiveResults, LiveResult
<1>2. PICK j \in DOMAIN transcript : HandedOut(h, q, j)
  BY <1>1
<1>3. j \in DOMAIN transcript' /\ transcript'[j] = transcript[j]
  BY AppendKeeps DEF TypeOK
<1>4. HandedOut(h, q, j)'
  BY <1>2, <1>3 DEF HandedOut, Event
<1> QED BY <1>1, <1>3, <1>4 DEF LiveResult

LEMMA LiveInit == Init => LiveResults
BY DEF Init, LiveResults

LEMMA LiveStep == TypeOK /\ LiveResults /\ [Next]_vars => LiveResults'
<1> SUFFICES ASSUME TypeOK, LiveResults, [Next]_vars PROVE LiveResults'
    OBVIOUS
<1>1. CASE Metadata
  BY <1>1, AppendKeepsLive DEF Metadata
<1>2. ASSUME NEW q \in Queries, QueryRefused(q) PROVE LiveResults'
  BY <1>2, AppendKeepsLive DEF QueryRefused, Called
<1>3. ASSUME NEW q \in Queries, QueryIssued(q) PROVE LiveResults'
  <2> DEFINE r == Results[q]
             e == [event |-> "query_result", sequence |-> sequence, query |-> q,
                   handle |-> r.id, count |-> Cardinality(r.result),
                   completion |-> r.completion, support |-> SupportOf(r)]
  <2>1. /\ q \in Answered
        /\ issued' = [h \in DOMAIN issued \cup {r.id} |-> IF h = r.id THEN r ELSE issued[h]]
        /\ scope' = [h \in DOMAIN scope \cup {r.id} |->
                        IF h = r.id THEN SupportOf(r) ELSE scope[h]]
        /\ transcript' = Append(transcript, e)
    BY <1>3 DEF QueryIssued, Called
  <2>2. DOMAIN scope' = DOMAIN issued'
    BY <2>1 DEF LiveResults
  <2>3. PICK last \in DOMAIN transcript' : transcript'[last] = e
    BY <2>1, AppendKeeps DEF TypeOK
  <2>4. HandedOut(r.id, q, last)'
    <3>1. /\ transcript'[last].event = "query_result"
          /\ transcript'[last].handle = r.id
          /\ transcript'[last].query = q
          /\ transcript'[last].support = SupportOf(Results[q])
      BY <2>3
    <3> HIDE DEF e, r
    <3> QED BY <2>3, <3>1 DEF HandedOut, Event
  <2>5. LiveResult(r.id)'
    <3>1. issued'[r.id] = Results[q] /\ scope'[r.id] = SupportOf(Results[q])
      BY <2>1
    <3> HIDE DEF e
    <3> QED BY <2>1, <2>3, <2>4, <3>1 DEF LiveResult
  <2>6. ASSUME NEW h \in DOMAIN issued, h # r.id PROVE LiveResult(h)'
    <3>1. PICK p \in Answered : /\ h = Results[p].id
                                /\ issued[h] = Results[p]
                                /\ scope[h] = SupportOf(Results[p])
                                /\ \E j \in DOMAIN transcript : HandedOut(h, p, j)
      BY DEF LiveResults, LiveResult
    <3>2. PICK j \in DOMAIN transcript : HandedOut(h, p, j)
      BY <3>1
    <3>3. j \in DOMAIN transcript' /\ transcript'[j] = transcript[j]
      BY <2>1, AppendKeeps DEF TypeOK
    <3>4. HandedOut(h, p, j)'
      BY <3>2, <3>3 DEF HandedOut, Event
    <3>5. h \in DOMAIN scope /\ issued'[h] = issued[h] /\ scope'[h] = scope[h]
      BY <2>1, <2>6 DEF LiveResults
    <3> HIDE DEF r
    <3> QED BY <3>1, <3>3, <3>4, <3>5 DEF LiveResult
  <2> QED BY <2>1, <2>2, <2>5, <2>6 DEF LiveResults
<1>4. ASSUME NEW h \in Nameable, NEW ids \in Claims, Materialize(h, ids) PROVE LiveResults'
  BY <1>4, AppendKeepsLive DEF Materialize, Called
<1>5. ASSUME NEW h \in Nameable, NEW a \in Answers, NEW cited \in Claims,
             Answer(h, a, cited)
      PROVE  LiveResults'
  BY <1>5, AppendKeepsLive DEF Answer, Called
<1>6. ASSUME NEW h \in Nameable, Evict(h) PROVE LiveResults'
  <2>1. /\ DOMAIN issued' = DOMAIN issued \ {h} /\ DOMAIN scope' = DOMAIN scope \ {h}
        /\ \A g \in DOMAIN issued \ {h} : issued'[g] = issued[g]
        /\ \A g \in DOMAIN scope \ {h} : scope'[g] = scope[g]
        /\ transcript' = transcript
    BY <1>6 DEF Evict
  <2>2. ASSUME NEW g \in DOMAIN issued \ {h} PROVE LiveResult(g)'
    BY <2>1 DEF LiveResults, LiveResult, HandedOut, Event
  <2> QED BY <2>1, <2>2 DEF LiveResults
<1>7. CASE UNCHANGED vars
  BY <1>7 DEF vars, LiveResults, LiveResult, HandedOut, Event
<1> QED BY <1>1, <1>2, <1>3, <1>4, <1>5, <1>6, <1>7 DEF Next

THEOREM LiveCorrect == Spec => []LiveResults
BY TypeInit, TypeStep, LiveInit, LiveStep, PTL DEF Spec

-----------------------------------------------------------------------------
(* What a step may record. *)

(* Every event but a read or an answer is free; a read stays within the     *)
(* scope of its handle, and a verdict is what verify says at that moment.   *)
Justified(e) ==
  \/ e.event \in {"metadata", "query_refused", "query_result", "read_refused"}
  \/ /\ e.event = "read"
     /\ e.handle \in DOMAIN scope
     /\ e.ids \subseteq scope[e.handle]
  \/ /\ e.event = "final_answer"
     /\ e.verdict = Verify(issued, Store, e.handle, e.answer, e.cited)

LEMMA StepRecords ==
  ASSUME [Next]_vars
  PROVE  \/ transcript' = transcript
         \/ \E e : transcript' = Append(transcript, e) /\ Justified(e)
<1>1. CASE Metadata
  BY <1>1 DEF Metadata, Justified
<1>2. ASSUME NEW q \in Queries, QueryRefused(q)
      PROVE  \E e : transcript' = Append(transcript, e) /\ Justified(e)
  BY <1>2 DEF QueryRefused, Called, Justified
<1>3. ASSUME NEW q \in Queries, QueryIssued(q)
      PROVE  \E e : transcript' = Append(transcript, e) /\ Justified(e)
  <2> DEFINE r == Results[q]
             e == [event |-> "query_result", sequence |-> sequence, query |-> q,
                   handle |-> r.id, count |-> Cardinality(r.result),
                   completion |-> r.completion, support |-> SupportOf(r)]
  <2>1. transcript' = Append(transcript, e)
    BY <1>3 DEF QueryIssued, Called
  <2>2. Justified(e)
    BY DEF Justified
  <2> QED BY <2>1, <2>2
<1>4. ASSUME NEW h \in Nameable, NEW ids \in Claims, Materialize(h, ids)
      PROVE  \E e : transcript' = Append(transcript, e) /\ Justified(e)
  BY <1>4 DEF Materialize, Called, Readable, Justified
<1>5. ASSUME NEW h \in Nameable, NEW a \in Answers, NEW cited \in Claims,
             Answer(h, a, cited)
      PROVE  \E e : transcript' = Append(transcript, e) /\ Justified(e)
  BY <1>5 DEF Answer, Called, Justified
<1>6. ASSUME NEW h \in Nameable, Evict(h) PROVE transcript' = transcript
  BY <1>6 DEF Evict
<1>7. CASE UNCHANGED vars
  BY <1>7 DEF vars
<1> QED BY <1>1, <1>2, <1>3, <1>4, <1>5, <1>6, <1>7 DEF Next

(* A valid verdict on a live handle is the truth about its query.           *)
LEMMA ValidVerdict ==
  ASSUME LiveResults, NEW h, NEW a, NEW cited,
         Verify(issued, Store, h, a, cited) = "valid"
  PROVE  /\ h \in DOMAIN issued
         /\ \E j \in Event("query_result") :
               /\ transcript[j].handle = h
               /\ Supports(transcript[j].query, a, cited)
<1>1. h \in DOMAIN issued /\ Judge(issued[h], a, cited) = "valid"
  BY DEF Verify
<1>2. PICK q \in Answered : /\ issued[h] = Results[q]
                            /\ \E j \in DOMAIN transcript : HandedOut(h, q, j)
  BY <1>1 DEF LiveResults, LiveResult
<1>3. Supports(q, a, cited)
  BY <1>1, <1>2, ResultsAreSound, ValidMeansTrue DEF Supports, Truth
<1>4. PICK j \in DOMAIN transcript : HandedOut(h, q, j)
  BY <1>2
<1> QED BY <1>1, <1>3, <1>4 DEF HandedOut

(* A read within a live scope was handed out.                               *)
LEMMA ScopedRead ==
  ASSUME LiveResults, NEW h \in DOMAIN scope, NEW ids \in SUBSET scope[h]
  PROVE  /\ h \in DOMAIN issued
         /\ ids \subseteq SupportOf(issued[h])
         /\ \E j \in Event("query_result") :
               /\ transcript[j].handle = h
               /\ ids \subseteq transcript[j].support
<1>1. h \in DOMAIN issued
  BY DEF LiveResults
<1>2. PICK q \in Answered : /\ issued[h] = Results[q]
                            /\ scope[h] = SupportOf(Results[q])
                            /\ \E j \in DOMAIN transcript : HandedOut(h, q, j)
  BY <1>1 DEF LiveResults, LiveResult
<1>3. PICK j \in DOMAIN transcript : HandedOut(h, q, j)
  BY <1>2
<1> QED BY <1>1, <1>2, <1>3 DEF HandedOut

-----------------------------------------------------------------------------
(* The theorems about what the session accepts and discloses. *)

LEMMA AcceptedStep ==
  ASSUME TypeOK, LiveResults, AcceptedAnswersAreTrue, [Next]_vars
  PROVE  AcceptedAnswersAreTrue'
<1>1. CASE transcript' = transcript
  BY <1>1 DEF AcceptedAnswersAreTrue, Event
<1>2. ASSUME NEW e, transcript' = Append(transcript, e), Justified(e)
      PROVE  AcceptedAnswersAreTrue'
  <2> DEFINE Backed(i, t) == \E j \in DOMAIN t :
               /\ t[j].event = "query_result"
               /\ j < i
               /\ t[j].handle = t[i].handle
               /\ Supports(t[j].query, t[i].answer, t[i].cited)
  <2>1. /\ DOMAIN transcript' = DOMAIN transcript \cup {Len(transcript) + 1}
        /\ \A i \in DOMAIN transcript : transcript'[i] = transcript[i]
        /\ transcript'[Len(transcript) + 1] = e
        /\ DOMAIN transcript = 1..Len(transcript)
        /\ Len(transcript) \in Nat
    BY <1>2, AppendKeeps DEF TypeOK
  <2>2. SUFFICES ASSUME NEW i \in DOMAIN transcript', transcript'[i].event = "final_answer",
                        transcript'[i].verdict = "valid"
                 PROVE  Backed(i, transcript')
    BY DEF AcceptedAnswersAreTrue, Event
  <2>3. CASE i \in DOMAIN transcript
    <3>1. Backed(i, transcript)
      BY <2>1, <2>2, <2>3 DEF AcceptedAnswersAreTrue, Event
    <3> QED BY <2>1, <2>3, <3>1
  <2>4. CASE i = Len(transcript) + 1
    <3>1. /\ transcript'[i] = e
          /\ Verify(issued, Store, e.handle, e.answer, e.cited) = "valid"
      BY <1>2, <2>1, <2>2, <2>4 DEF Justified
    <3>2. PICK j \in Event("query_result") :
                  /\ transcript[j].handle = e.handle
                  /\ Supports(transcript[j].query, e.answer, e.cited)
      BY <3>1, ValidVerdict
    <3>3. j \in DOMAIN transcript /\ transcript[j].event = "query_result" /\ j < i
      BY <2>1, <2>4, <3>2 DEF Event
    <3> QED BY <2>1, <3>1, <3>2, <3>3
  <2> QED BY <2>1, <2>2, <2>3, <2>4
<1> QED BY <1>1, <1>2, StepRecords

(* Whatever the store, the queries, the limits and the calls: an accepted   *)
(* answer is the one true answer of a query the transcript shows, and every *)
(* record cited with it carries it (panel.rs:26-37).                        *)
THEOREM AcceptedAnswersCorrect == Spec => []AcceptedAnswersAreTrue
<1>1. Init => AcceptedAnswersAreTrue
  BY DEF Init, AcceptedAnswersAreTrue, Event
<1> QED BY <1>1, TypeInit, TypeStep, LiveInit, LiveStep, AcceptedStep, PTL DEF Spec

LEMMA ReadsStep ==
  ASSUME TypeOK, LiveResults, ReadsAreDownstreamOfQueries, [Next]_vars
  PROVE  ReadsAreDownstreamOfQueries'
<1>1. CASE transcript' = transcript
  BY <1>1 DEF ReadsAreDownstreamOfQueries, Event
<1>2. ASSUME NEW e, transcript' = Append(transcript, e), Justified(e)
      PROVE  ReadsAreDownstreamOfQueries'
  <2> DEFINE Backed(i, t) == \E j \in DOMAIN t :
               /\ t[j].event = "query_result"
               /\ j < i
               /\ t[j].handle = t[i].handle
               /\ t[i].ids \subseteq t[j].support
  <2>1. /\ DOMAIN transcript' = DOMAIN transcript \cup {Len(transcript) + 1}
        /\ \A i \in DOMAIN transcript : transcript'[i] = transcript[i]
        /\ transcript'[Len(transcript) + 1] = e
        /\ DOMAIN transcript = 1..Len(transcript)
        /\ Len(transcript) \in Nat
    BY <1>2, AppendKeeps DEF TypeOK
  <2>2. SUFFICES ASSUME NEW i \in DOMAIN transcript', transcript'[i].event = "read"
                 PROVE  Backed(i, transcript')
    BY DEF ReadsAreDownstreamOfQueries, Event
  <2>3. CASE i \in DOMAIN transcript
    <3>1. Backed(i, transcript)
      BY <2>1, <2>2, <2>3 DEF ReadsAreDownstreamOfQueries, Event
    <3> QED BY <2>1, <2>3, <3>1
  <2>4. CASE i = Len(transcript) + 1
    <3>1. transcript'[i] = e /\ e.handle \in DOMAIN scope /\ e.ids \subseteq scope[e.handle]
      BY <1>2, <2>1, <2>2, <2>4 DEF Justified
    <3>2. PICK j \in Event("query_result") : /\ transcript[j].handle = e.handle
                                             /\ e.ids \subseteq transcript[j].support
      BY <3>1, ScopedRead
    <3>3. j \in DOMAIN transcript /\ transcript[j].event = "query_result" /\ j < i
      BY <2>1, <2>4, <3>2 DEF Event
    <3> QED BY <2>1, <3>1, <3>2, <3>3
  <2> QED BY <2>1, <2>2, <2>3, <2>4
<1> QED BY <1>1, <1>2, StepRecords

(* Whatever the calls: every record read was handed out under its handle by *)
(* an earlier query event (panel.rs:21-25).                                 *)
THEOREM ReadsCorrect == Spec => []ReadsAreDownstreamOfQueries
<1>1. Init => ReadsAreDownstreamOfQueries
  BY DEF Init, ReadsAreDownstreamOfQueries, Event
<1> QED BY <1>1, TypeInit, TypeStep, LiveInit, LiveStep, ReadsStep, PTL DEF Spec

(* No step ever records a read or an accepted answer for a handle that is   *)
(* not live at that step (panel.rs:805-810).                                *)
THEOREM LiveHandlesCorrect == Spec => OnlyLiveHandlesAuthorize
<1>1. ASSUME TypeOK, LiveResults, [Next]_vars
      PROVE  Len(transcript') > Len(transcript) =>
               LiveHandleFor(transcript'[Len(transcript')])
  <2>1. ASSUME NEW e, transcript' = Append(transcript, e), Justified(e)
        PROVE  LiveHandleFor(transcript'[Len(transcript')])
    <3>1. transcript'[Len(transcript')] = e
      BY <1>1, <2>1, AppendKeeps DEF TypeOK
    <3>2. CASE e.event = "read"
      BY <1>1, <2>1, <3>1, <3>2, ScopedRead DEF Justified, LiveHandleFor
    <3>3. CASE e.event = "final_answer"
      <4>1. e.verdict = "valid" => e.handle \in DOMAIN issued
        BY <1>1, <2>1, <3>3, ValidVerdict DEF Justified
      <4> QED BY <3>1, <3>3, <4>1 DEF LiveHandleFor
    <3>4. CASE e.event \notin {"read", "final_answer"}
      BY <3>1, <3>4 DEF LiveHandleFor
    <3> QED BY <3>2, <3>3, <3>4
  <2>2. CASE transcript' = transcript
    <3>1. Len(transcript) \in Nat
      BY <1>1 DEF TypeOK
    <3> QED BY <2>2, <3>1
  <2> QED BY <1>1, <2>1, <2>2, StepRecords
<1> QED BY <1>1, TypeInit, TypeStep, LiveInit, LiveStep, PTL DEF Spec, OnlyLiveHandlesAuthorize

-----------------------------------------------------------------------------
(* The transcript has no holes. *)

LEMMA GaplessStep ==
  ASSUME TypeOK, TranscriptIsGapless, [Next]_vars
  PROVE  TranscriptIsGapless'
<1> DEFINE n == Len(transcript)
<1>0. DOMAIN transcript = 1..n /\ n \in Nat /\ sequence \in Nat
  BY CallsAssumption DEF TypeOK
<1>1. CASE Metadata
  <2>1. Event("metadata") = {} /\ n = sequence
    BY <1>0, <1>1 DEF Metadata, MetadataRecorded, Event, TranscriptIsGapless, Skipped
  <2>2. /\ DOMAIN transcript' = 1..(n + 1) /\ Len(transcript') = n + 1
        /\ \A i \in 1..n : transcript'[i] = transcript[i]
        /\ transcript'[n + 1].event = "metadata"
        /\ sequence' = sequence
    BY <1>0, <1>1, AppendKeeps DEF Metadata, TypeOK
  <2>3. Event("metadata")' = {n + 1}
    BY <1>0, <2>1, <2>2 DEF Event
  <2>4. ASSUME NEW i \in (DOMAIN transcript \ Event("metadata"))'
        PROVE  transcript'[i].sequence = i - 1 - Skipped(i)'
    BY <1>0, <2>1, <2>2, <2>3 DEF TranscriptIsGapless, Skipped
  <2>5. Len(transcript') = sequence' + (Skipped(Len(transcript) + 1))'
    BY <1>0, <2>1, <2>2, <2>3 DEF Skipped
  <2> QED BY <2>3, <2>4, <2>5 DEF TranscriptIsGapless
<1>2. ASSUME NEW e, Called(e), e.event # "metadata", e.sequence = sequence
      PROVE  TranscriptIsGapless'
  <2>1. /\ DOMAIN transcript' = 1..(n + 1) /\ Len(transcript') = n + 1
        /\ \A i \in 1..n : transcript'[i] = transcript[i]
        /\ transcript'[n + 1] = e
        /\ sequence' = sequence + 1
    BY <1>0, <1>2, AppendKeeps DEF Called, TypeOK
  <2>2. Event("metadata")' = Event("metadata") /\ Event("metadata") \subseteq 1..n
    BY <1>0, <1>2, <2>1 DEF Event
  <2>3. \A i : Skipped(i)' = Skipped(i)
    BY <2>2 DEF Skipped
  <2>4. Skipped(n + 2) = Skipped(n + 1)
    BY <1>0, <2>2 DEF Skipped
  <2>5. n = sequence + Skipped(n + 1) /\ Skipped(n + 1) \in {0, 1}
    BY DEF TranscriptIsGapless, Skipped
  <2>6. Len(transcript') = sequence' + Skipped(n + 2)
    BY <1>0, <2>1, <2>4, <2>5
  <2>7. ASSUME NEW i \in 1..(n + 1), i \notin Event("metadata")
        PROVE  transcript'[i].sequence = i - 1 - Skipped(i)
    <3>1. CASE i \in 1..n
      BY <1>0, <2>1, <2>7, <3>1 DEF TranscriptIsGapless
    <3>2. CASE i = n + 1
      BY <1>0, <1>2, <2>1, <2>5, <3>2
    <3> QED BY <1>0, <3>1, <3>2
  <2>8. \A i, j \in Event("metadata") : i = j
    BY DEF TranscriptIsGapless
  <2>9. Len(transcript') + 1 = n + 2
    BY <1>0, <2>1
  <2>10. Skipped(Len(transcript) + 1)' = Skipped(n + 2)
    BY <2>2, <2>9 DEF Skipped
  <2> QED BY <2>1, <2>2, <2>3, <2>6, <2>7, <2>8, <2>10 DEF TranscriptIsGapless
<1>3. ASSUME NEW q \in Queries, QueryRefused(q) PROVE TranscriptIsGapless'
  BY <1>2, <1>3 DEF QueryRefused
<1>4. ASSUME NEW q \in Queries, QueryIssued(q) PROVE TranscriptIsGapless'
  BY <1>2, <1>4 DEF QueryIssued
<1>5. ASSUME NEW h \in Nameable, NEW ids \in Claims, Materialize(h, ids)
      PROVE  TranscriptIsGapless'
  BY <1>2, <1>5 DEF Materialize
<1>6. ASSUME NEW h \in Nameable, NEW a \in Answers, NEW cited \in Claims,
             Answer(h, a, cited)
      PROVE  TranscriptIsGapless'
  BY <1>2, <1>6 DEF Answer
<1>7. ASSUME transcript' = transcript, sequence' = sequence PROVE TranscriptIsGapless'
  BY <1>7 DEF TranscriptIsGapless, Skipped, Event
<1>8. ASSUME NEW h \in Nameable, Evict(h) PROVE TranscriptIsGapless'
  BY <1>7, <1>8 DEF Evict
<1>9. CASE UNCHANGED vars
  BY <1>7, <1>9 DEF vars
<1> QED BY <1>1, <1>3, <1>4, <1>5, <1>6, <1>8, <1>9 DEF Next

(* Whatever the calls and wherever metadata is asked for: every numbered    *)
(* call is in the transcript once and in order (panel.rs:1070-1074).        *)
THEOREM GaplessCorrect == Spec => []TranscriptIsGapless
<1>1. Init => TranscriptIsGapless
  BY DEF Init, TranscriptIsGapless, Event, Skipped
<1>2. TypeOK /\ TranscriptIsGapless /\ [Next]_vars => TranscriptIsGapless'
  BY GaplessStep
<1> QED BY <1>1, <1>2, TypeInit, TypeStep, PTL DEF Spec

-----------------------------------------------------------------------------
(* The session implements the promise. *)

LEMMA QuestionOfResult ==
  ASSUME NEW q \in Answered
  PROVE  QuestionOf(Results[q].id) = CanonicalQuery(q)
BY DEF QuestionOf, Results, Execute, QueryResultId, QueryDigest

(* Queries with one canonical form ask one question and get one handle.     *)
LEMMA SameQuestion ==
  ASSUME NEW p \in Answered, NEW q \in Answered, CanonicalQuery(p) = CanonicalQuery(q)
  PROVE  /\ Results[p].id = Results[q].id
         /\ TrueCandidates(Store, p) = TrueCandidates(Store, q)
         /\ \A k : TrueEvidence(Store, p, k) = TrueEvidence(Store, q, k)
<1>1. p.op \in {"lookup", "intersect"} /\ q.op \in {"lookup", "intersect"}
  BY QueriesAssumption DEF Answered
<1>2. Results[p].id = Results[q].id
  BY <1>1, SpellingsShareAHandle DEF Results
<1>3. CASE p.op = "lookup"
  <2>1. p = q
    BY <1>1, <1>3 DEF CanonicalQuery
  <2> QED BY <2>1
<1>4. CASE p.op = "intersect"
  <2>1. q.op = "intersect" /\ p.index = q.index /\ Sets(p) = Sets(q)
    BY <1>1, <1>4 DEF CanonicalQuery
  <2> QED BY <1>2, <1>4, <2>1 DEF TrueCandidates, TrueEvidence
<1> QED BY <1>1, <1>3, <1>4

LEMMA QuestionTruth ==
  ASSUME NEW q \in Answered
  PROVE  LET c == CanonicalQuery(q)
         IN  /\ c \in Questions
             /\ TruthOf[c] = TrueCandidates(Store, q)
             /\ SupportOf(Results[q]) \subseteq ProofOf[c]
<1> DEFINE c == CanonicalQuery(q)
<1>1. c \in Questions
  BY DEF Questions
<1>2. Spelling(c) \in Answered /\ CanonicalQuery(Spelling(c)) = c
  BY DEF Spelling
<1>3. /\ TrueCandidates(Store, Spelling(c)) = TrueCandidates(Store, q)
      /\ \A k : TrueEvidence(Store, Spelling(c), k) = TrueEvidence(Store, q, k)
  BY <1>2, SameQuestion
<1>4. TruthOf[c] = TrueCandidates(Store, q)
  BY <1>1, <1>3 DEF TruthOf
<1>5. ProofOf[c] = UNION {TrueEvidence(Store, q, k) : k \in TrueCandidates(Store, q)}
  BY <1>1, <1>3, <1>4 DEF ProofOf
<1>6. SupportOf(Results[q]) \subseteq ProofOf[c]
  BY <1>5, ResultsAreSound DEF SupportOf, SoundFor
<1> QED BY <1>1, <1>4, <1>6

(* What one more event adds to what was disclosed and accepted.             *)
LEMMA AppendDiscloses ==
  ASSUME TypeOK, NEW e, transcript' = Append(transcript, e)
  PROVE  /\ Disclosed' = IF e.event = "read" THEN Disclosed \cup e.ids ELSE Disclosed
         /\ Accepted' = IF e.event = "final_answer" /\ e.verdict = "valid"
                        THEN Accepted \cup {<<QuestionOf(e.handle), e.answer>>}
                        ELSE Accepted
<1>1. /\ DOMAIN transcript' = DOMAIN transcript \cup {Len(transcript) + 1}
      /\ \A i \in DOMAIN transcript : transcript'[i] = transcript[i]
      /\ transcript'[Len(transcript) + 1] = e
  BY AppendKeeps DEF TypeOK
<1>2. Disclosed' = IF e.event = "read" THEN Disclosed \cup e.ids ELSE Disclosed
  BY <1>1 DEF Disclosed, Event
<1>3. Accepted' = IF e.event = "final_answer" /\ e.verdict = "valid"
                  THEN Accepted \cup {<<QuestionOf(e.handle), e.answer>>}
                  ELSE Accepted
  BY <1>1 DEF Accepted, Event
<1> QED BY <1>2, <1>3

(* Each live handle belongs to an open question, and to no other.           *)
LEMMA LiveQuestion ==
  ASSUME LiveResults, NEW h \in DOMAIN issued
  PROVE  \E q \in Answered : /\ h = Results[q].id
                            /\ QuestionOf(h) = CanonicalQuery(q)
                            /\ issued[h] = Results[q]
                            /\ scope[h] = SupportOf(Results[q])
BY QuestionOfResult DEF LiveResults, LiveResult

LEMMA PromiseInit == Init => Promise!Init
BY DEF Init, Promise!Init, OpenQuestions, Disclosed, Accepted, Event

LEMMA PromiseStep ==
  ASSUME TypeOK, LiveResults, [Next]_vars
  PROVE  [Promise!Next]_<<OpenQuestions, Disclosed, Accepted>>
<1> DEFINE Stutter == UNCHANGED <<OpenQuestions, Disclosed, Accepted>>
(* An event that is neither a read nor an accepted answer, and no change to *)
(* the registry, is invisible.                                              *)
<1>0. ASSUME NEW e, transcript' = Append(transcript, e), e.event # "read",
             ~(e.event = "final_answer" /\ e.verdict = "valid"), issued' = issued
      PROVE  Stutter
  BY <1>0, AppendDiscloses DEF OpenQuestions
<1>1. CASE Metadata
  BY <1>0, <1>1 DEF Metadata
<1>2. ASSUME NEW q \in Queries, QueryRefused(q) PROVE Stutter
  BY <1>0, <1>2 DEF QueryRefused, Called
<1>3. ASSUME NEW q \in Queries, QueryIssued(q) PROVE Promise!Next
  <2> DEFINE r == Results[q]
             c == CanonicalQuery(q)
             e == [event |-> "query_result", sequence |-> sequence, query |-> q,
                   handle |-> r.id, count |-> Cardinality(r.result),
                   completion |-> r.completion, support |-> SupportOf(r)]
  <2>1. /\ q \in Answered
        /\ DOMAIN issued' = DOMAIN issued \cup {r.id}
        /\ transcript' = Append(transcript, e)
    BY <1>3 DEF QueryIssued, Called
  <2>2. e.event = "query_result"
    OBVIOUS
  <2>3. Disclosed' = Disclosed /\ Accepted' = Accepted
    <3> HIDE DEF e
    <3> QED BY <2>1, <2>2, AppendDiscloses
  <2>4. OpenQuestions' = OpenQuestions \cup {c}
    BY <2>1, QuestionOfResult DEF OpenQuestions, QuestionOf
  <2>5. c \in Questions
    BY <2>1, QuestionTruth
  <2>6. Promise!Ask(c)
    BY <2>3, <2>4 DEF Promise!Ask
  <2> QED BY <2>5, <2>6 DEF Promise!Next
<1>4. ASSUME NEW h \in Nameable, NEW ids \in Claims, Materialize(h, ids)
      PROVE  Promise!Next \/ Stutter
  <2> DEFINE e == [event |-> IF Readable(h, ids) THEN "read" ELSE "read_refused",
                   sequence |-> sequence, handle |-> h, ids |-> ids]
  <2>1. transcript' = Append(transcript, e) /\ issued' = issued
    BY <1>4 DEF Materialize, Called
  <2>2. CASE ~Readable(h, ids)
    BY <1>0, <2>1, <2>2
  <2>3. CASE Readable(h, ids)
    <3>1. h \in DOMAIN issued /\ ids \subseteq scope[h]
      BY <2>3 DEF Readable, LiveResults
    <3>2. PICK q \in Answered : /\ QuestionOf(h) = CanonicalQuery(q)
                                /\ scope[h] = SupportOf(Results[q])
      BY <3>1, LiveQuestion
    <3>3. /\ QuestionOf(h) \in Questions
          /\ QuestionOf(h) \in OpenQuestions
          /\ ids \subseteq ProofOf[QuestionOf(h)]
      BY <3>1, <3>2, QuestionTruth DEF OpenQuestions
    <3>4. e.event = "read" /\ e.ids = ids
      BY <2>3
    <3>5. Disclosed' = Disclosed \cup ids /\ Accepted' = Accepted
      <4> HIDE DEF e
      <4> QED BY <2>1, <3>4, AppendDiscloses
    <3>6. Promise!Disclose(QuestionOf(h), ids)
      BY <2>1, <3>3, <3>5 DEF Promise!Disclose, OpenQuestions
    <3> QED BY <3>3, <3>6 DEF Promise!Next
  <2> QED BY <2>2, <2>3
<1>5. ASSUME NEW h \in Nameable, NEW a \in Answers, NEW cited \in Claims,
             Answer(h, a, cited)
      PROVE  Promise!Next \/ Stutter
  <2> DEFINE verdict == Verify(issued, Store, h, a, cited)
             e == [event |-> "final_answer", sequence |-> sequence, handle |-> h,
                   answer |-> a, cited |-> cited, verdict |-> verdict]
  <2>1. transcript' = Append(transcript, e) /\ issued' = issued
    BY <1>5 DEF Answer, Called
  <2>2. e.event = "final_answer" /\ e.verdict = verdict /\ e.handle = h /\ e.answer = a
    OBVIOUS
  <2>3. CASE verdict # "valid"
    <3> HIDE DEF e
    <3> QED BY <1>0, <2>1, <2>2, <2>3
  <2>4. CASE verdict = "valid"
    <3>1. h \in DOMAIN issued /\ Judge(issued[h], a, cited) = "valid"
      BY <2>4 DEF Verify
    <3>2. PICK q \in Answered : /\ QuestionOf(h) = CanonicalQuery(q)
                                /\ issued[h] = Results[q]
      BY <3>1, LiveQuestion
    <3>3. TrueCandidates(Store, q) = {a}
      BY <3>1, <3>2, ResultsAreSound, ValidMeansTrue
    <3>4. /\ QuestionOf(h) \in Questions
          /\ QuestionOf(h) \in OpenQuestions
          /\ TruthOf[QuestionOf(h)] = {a}
      BY <3>1, <3>2, <3>3, QuestionTruth DEF OpenQuestions
    <3>5. /\ Disclosed' = Disclosed
          /\ Accepted' = Accepted \cup {<<QuestionOf(h), a>>}
      <4> HIDE DEF e
      <4> QED BY <2>1, <2>2, <2>4, AppendDiscloses
    <3>6. Promise!Accept(QuestionOf(h), a)
      BY <2>1, <3>4, <3>5 DEF Promise!Accept, OpenQuestions
    <3> QED BY <3>4, <3>6 DEF Promise!Next
  <2> QED BY <2>3, <2>4
<1>6. ASSUME NEW h \in Nameable, Evict(h) PROVE Promise!Next \/ Stutter
  <2>1. /\ DOMAIN issued' = DOMAIN issued \ {h} /\ transcript' = transcript
    BY <1>6 DEF Evict
  <2>2. Disclosed' = Disclosed /\ Accepted' = Accepted
    BY <2>1 DEF Disclosed, Accepted, Event
  <2>3. CASE h \notin DOMAIN issued
    BY <2>1, <2>2, <2>3 DEF OpenQuestions
  <2>4. CASE h \in DOMAIN issued
    <3>1. PICK q \in Answered : h = Results[q].id /\ QuestionOf(h) = CanonicalQuery(q)
      BY <2>4, LiveQuestion
    <3>2. ASSUME NEW g \in DOMAIN issued, QuestionOf(g) = QuestionOf(h) PROVE g = h
      <4>1. PICK p \in Answered : g = Results[p].id /\ QuestionOf(g) = CanonicalQuery(p)
        BY LiveQuestion
      <4> QED BY <3>1, <3>2, <4>1, SameQuestion
    <3>3. OpenQuestions' = OpenQuestions \ {QuestionOf(h)}
      BY <2>1, <3>2 DEF OpenQuestions
    <3>4. QuestionOf(h) \in Questions
      BY <3>1, QuestionTruth
    <3>5. Promise!Forget(QuestionOf(h))
      BY <2>2, <3>3 DEF Promise!Forget
    <3> QED BY <3>4, <3>5 DEF Promise!Next
  <2> QED BY <2>3, <2>4
<1>7. CASE UNCHANGED vars
  BY <1>7 DEF vars, OpenQuestions, Disclosed, Accepted, Event
<1> QED BY <1>1, <1>2, <1>3, <1>4, <1>5, <1>6, <1>7, <1>0 DEF Next

(* For every store, query set and bound, the session implements the promise *)
(* of EvidencePromise: records are disclosed only as evidence of an open    *)
(* question, and an answer accepted only as its one true answer.            *)
THEOREM SessionKeepsPromise == Spec => KeepsPromise
BY TypeInit, TypeStep, LiveInit, LiveStep, PromiseInit, PromiseStep, PTL
   DEF Spec, KeepsPromise, Promise!Spec

-----------------------------------------------------------------------------
(* The cell drives a session. *)

(* What the model was given stays given. *)

(* The calls waiting to be dispatched name only handles the session handed  *)
(* out before the reply arrived.                                            *)
CallsNamed == calls \in Seq(CallsNow)

LEMMA NameableGrows ==
  ASSUME TypeOK, [Next]_vars
  PROVE  Nameable \subseteq Nameable'
<1>1. CASE transcript' = transcript
  BY <1>1 DEF Nameable, Given
<1>2. ASSUME NEW e, transcript' = Append(transcript, e)
      PROVE  Nameable \subseteq Nameable'
  <2>1. /\ DOMAIN transcript' = DOMAIN transcript \cup {Len(transcript) + 1}
        /\ \A i \in DOMAIN transcript : transcript'[i] = transcript[i]
    BY <1>2, AppendKeeps DEF TypeOK
  <2> QED BY <2>1 DEF Nameable, Given
<1> QED BY <1>1, <1>2, StepRecords

LEMMA CallsGrow ==
  ASSUME Nameable \subseteq Nameable'
  PROVE  CallsNow \subseteq CallsNow'
BY DEF CallsNow

LEMMA SeqGrows ==
  ASSUME NEW S, NEW T, S \subseteq T, NEW s \in Seq(S)
  PROVE  s \in Seq(T)
OBVIOUS

(* What is known of a call from its tool.                                   *)
LEMMA CallShape ==
  ASSUME NEW c \in CallsNow
  PROVE  /\ c.tool = "query" => c.query \in Queries
         /\ c.tool = "materialize" => c.handle \in Nameable /\ c.ids \in Claims
         /\ c.tool = "answer" => /\ c.handle \in Nameable
                                 /\ c.answer \in Answers /\ c.cited \in Claims
<1> DEFINE Q == [tool : {"query"}, query : Queries]
           M == [tool : {"materialize"}, handle : Nameable, ids : Claims]
           A == [tool : {"answer"}, handle : Nameable, answer : Answers, cited : Claims]
           O == [tool : {"malformed-operation", "malformed-answer", "unknown"}]
<1>1. c \in Q \/ c \in M \/ c \in A \/ c \in O
  BY DEF CallsNow
<1>2. CASE c \in Q
  BY <1>2
<1>3. CASE c \in M
  BY <1>3
<1>4. CASE c \in A
  BY <1>4
<1>5. CASE c \in O
  BY <1>5
<1> QED BY <1>1, <1>2, <1>3, <1>4, <1>5

LEMMA ReplyShape ==
  ASSUME NEW reply \in Replies
  PROVE  reply \in Seq(CallsNow)
<1>1. PICK n \in 0..CallsPerReply : reply \in [1..n -> CallsNow]
  BY DEF Replies
<1>2. n \in Nat
  BY BudgetsAssumption
<1> QED BY <1>1, <1>2

(* A reply classified as an answer holds one.                               *)
LEMMA AnswerShape ==
  ASSUME NEW reply \in Replies, Classify(reply) = "answer"
  PROVE  TheAnswer(reply) \in CallsNow
<1> DEFINE answers == {i \in DOMAIN reply : IsAnswer(reply[i])}
<1>1. answers # {}
  BY DEF Classify
<1>2. (CHOOSE i \in DOMAIN reply : IsAnswer(reply[i])) \in DOMAIN reply
  BY <1>1
<1> QED BY <1>2, ReplyShape DEF TheAnswer

-----------------------------------------------------------------------------
(* Every step of a cell is a step of its session, or none. *)

LEMMA DispatchSession ==
  ASSUME CallsNamed, DispatchQuery \/ DispatchRead
  PROVE  Next
<1> DEFINE c == Head(calls)
<1>1. c \in CallsNow
  BY DEF CallsNamed, DispatchQuery, DispatchRead, Dispatching
<1>2. CASE DispatchQuery
  BY <1>1, <1>2, CallShape DEF DispatchQuery, Next
<1>3. CASE DispatchRead
  BY <1>1, <1>3, CallShape DEF DispatchRead, Next
<1> QED BY <1>2, <1>3

LEMMA ConcludeSession ==
  ASSUME NEW env, NEW reply \in Replies, Concludes(env, reply)
  PROVE  Next
<1> DEFINE a == TheAnswer(reply)
<1>1. a \in CallsNow /\ a.tool = "answer" /\ Answer(a.handle, a.answer, a.cited)
  BY AnswerShape DEF Concludes
<1>2. a.handle \in Nameable /\ a.answer \in Answers /\ a.cited \in Claims
  BY <1>1, CallShape
<1> HIDE DEF a
<1> QED BY <1>1, <1>2 DEF Next

LEMMA CellStepIsSessionStep ==
  ASSUME CallsNamed, [CellNext]_cellVars
  PROVE  [Next]_vars
<1>1. CASE Begin
  BY <1>1 DEF Begin, Next
<1>2. CASE Retry
  BY <1>2 DEF Retry
<1>3. CASE Undelivered
  BY <1>3 DEF Undelivered
<1>4. ASSUME NEW env \in Envelopes, CaptureFailed(env) \/ Unusable(env)
      PROVE  [Next]_vars
  BY <1>4 DEF CaptureFailed, Unusable
<1>5. ASSUME NEW env \in Envelopes, NEW reply \in Replies,
             Violates(env, reply) \/ AnswersBadly(env, reply) \/ Operates(env, reply)
      PROVE  [Next]_vars
  BY <1>5 DEF Violates, AnswersBadly, Operates
<1>6. ASSUME NEW env \in Envelopes, NEW reply \in Replies, Concludes(env, reply)
      PROVE  [Next]_vars
  BY <1>6, ConcludeSession
<1>7. CASE DispatchUnknown \/ DispatchMalformed
  BY <1>7 DEF DispatchUnknown, DispatchMalformed
<1>8. CASE DispatchQuery \/ DispatchRead
  BY <1>8, DispatchSession
<1>9. CASE NextTurn \/ BudgetExhausted
  BY <1>9 DEF NextTurn, BudgetExhausted
<1>10. CASE UNCHANGED cellVars
  BY <1>10 DEF cellVars
<1> QED BY <1>1, <1>2, <1>3, <1>4, <1>5, <1>6, <1>7, <1>8, <1>9, <1>10 DEF CellNext

LEMMA CallsStep ==
  ASSUME TypeOK, CallsNamed, [CellNext]_cellVars
  PROVE  CallsNamed'
<1>1. CallsNow \subseteq CallsNow'
  BY CellStepIsSessionStep, NameableGrows, CallsGrow
<1>2. CASE calls' = calls
  BY <1>1, <1>2, SeqGrows DEF CallsNamed
<1>3. CASE calls # << >> /\ calls' = Tail(calls)
  <2>1. Tail(calls) \in Seq(CallsNow)
    BY <1>3 DEF CallsNamed
  <2> QED BY <1>1, <1>3, <2>1, SeqGrows DEF CallsNamed
<1>4. ASSUME NEW reply \in Replies, calls' = reply PROVE CallsNamed'
  <2>1. reply \in Seq(CallsNow)
    BY <1>4, ReplyShape
  <2> QED BY <1>1, <1>4, <2>1, SeqGrows DEF CallsNamed
<1>5. \/ calls' = calls
      \/ calls # << >> /\ calls' = Tail(calls)
      \/ \E reply \in Replies : calls' = reply
  <2>1. CASE Begin \/ Retry \/ Undelivered \/ NextTurn \/ BudgetExhausted \/ UNCHANGED cellVars
    BY <2>1 DEF Begin, Retry, Undelivered, NextTurn, BudgetExhausted, cellVars, cell
  <2>2. ASSUME NEW env \in Envelopes, CaptureFailed(env) \/ Unusable(env) PROVE calls' = calls
    BY <2>2 DEF CaptureFailed, Unusable
  <2>3. ASSUME NEW env \in Envelopes, NEW reply \in Replies,
               Violates(env, reply) \/ AnswersBadly(env, reply) \/ Concludes(env, reply)
        PROVE  calls' = calls
    BY <2>3 DEF Violates, AnswersBadly, Concludes
  <2>4. ASSUME NEW env \in Envelopes, NEW reply \in Replies, Operates(env, reply)
        PROVE  calls' = reply
    BY <2>4 DEF Operates
  <2>5. CASE DispatchUnknown \/ DispatchMalformed \/ DispatchQuery \/ DispatchRead
    BY <2>5 DEF DispatchUnknown, DispatchMalformed, DispatchQuery, DispatchRead, Dispatching
  <2> QED BY <2>1, <2>2, <2>3, <2>4, <2>5 DEF CellNext
<1> QED BY <1>2, <1>3, <1>4, <1>5

LEMMA CellStarts == CellInit => Init /\ TypeOK /\ CallsNamed
<1>1. << >> \in Seq(CallsNow)
  OBVIOUS
<1> QED BY <1>1, TypeInit DEF CellInit, CallsNamed

(* A cell's session is a session: whatever the model asks and the network   *)
(* does, each step of the cell is one operation of the session or none.     *)
THEOREM CellDrivesASession == CellSpec => Spec
<1>1. TypeOK /\ CallsNamed /\ [CellNext]_cellVars => TypeOK' /\ CallsNamed' /\ [Next]_vars
  BY CellStepIsSessionStep, CallsStep, TypeStep
<1> QED BY <1>1, CellStarts, PTL DEF CellSpec, Spec

(* So an accepted answer is true in every cell too, whatever the cell did   *)
(* before: retried, lost a reply, dispatched refused or unknown calls.      *)
THEOREM CellAnswersTrue == CellSpec => []AcceptedAnswersAreTrue
BY CellDrivesASession, AcceptedAnswersCorrect

(* And every record a cell's model read was evidence it had been handed.    *)
THEOREM CellReadsDownstream == CellSpec => []ReadsAreDownstreamOfQueries
BY CellDrivesASession, ReadsCorrect

-----------------------------------------------------------------------------
(* The score. *)

(* A cell scored correct has the expected answer accepted on its transcript.*)
Scored == [kind |-> "answered", correct |-> TRUE]
ScoreIsAccepted ==
  outcome = Scored =>
    \E i \in Event("final_answer") :
       transcript[i].verdict = "valid" /\ transcript[i].answer = Expected

LEMMA EventsStay ==
  ASSUME TypeOK, [Next]_vars
  PROVE  \A i \in Event("final_answer") :
            i \in Event("final_answer")' /\ transcript'[i] = transcript[i]
<1>1. CASE transcript' = transcript
  BY <1>1 DEF Event
<1>2. ASSUME NEW e, transcript' = Append(transcript, e)
      PROVE  \A i \in Event("final_answer") :
                i \in Event("final_answer")' /\ transcript'[i] = transcript[i]
  BY <1>2, AppendKeeps DEF TypeOK, Event
<1> QED BY <1>1, <1>2, StepRecords

(* Only a valid verdict on the expected bytes grades as correct.            *)
LEMMA GradeScored ==
  ASSUME NEW verdict, NEW P \in BOOLEAN, Graded(verdict, P) = Scored
  PROVE  verdict = "valid" /\ P
<1>1. verdict = "valid"
  BY DEF Graded, Scored
<1>2. Graded(verdict, P) = [kind |-> "answered", correct |-> P]
  BY <1>1 DEF Graded
<1>3. [kind |-> "answered", correct |-> P].correct = Scored.correct
  BY <1>2
<1>4. [kind |-> "answered", correct |-> P].correct = P
  OBVIOUS
<1>5. Scored.correct = TRUE
  BY DEF Scored
<1>6. P = TRUE
  BY <1>3, <1>4, <1>5
<1> QED BY <1>1, <1>6

LEMMA ConcludeScores ==
  ASSUME TypeOK, NEW env, NEW reply, Concludes(env, reply)
  PROVE  ScoreIsAccepted'
<1> DEFINE a == TheAnswer(reply)
           verdict == Verify(issued, Store, a.handle, a.answer, a.cited)
           e == [event |-> "final_answer", sequence |-> sequence, handle |-> a.handle,
                 answer |-> a.answer, cited |-> a.cited, verdict |-> verdict]
<1>1. /\ transcript' = Append(transcript, e)
      /\ outcome' = Graded(verdict, a.answer = Expected)
  BY DEF Concludes, Answer, Called, Finish
<1>2. e.event = "final_answer" /\ e.verdict = verdict /\ e.answer = a.answer
  OBVIOUS
<1>3. ASSUME outcome' = Scored PROVE verdict = "valid" /\ a.answer = Expected
  <2> HIDE DEF verdict, a
  <2>1. Graded(verdict, a.answer = Expected) = Scored
    BY <1>1, <1>3
  <2> QED BY <2>1, GradeScored
<1> HIDE DEF e
<1>4. LET i == Len(transcript) + 1
      IN  i \in Event("final_answer")' /\ transcript'[i] = e
  BY <1>1, <1>2, AppendKeeps DEF TypeOK, Event
<1> QED BY <1>2, <1>3, <1>4 DEF ScoreIsAccepted

LEMMA ScoreStep ==
  ASSUME TypeOK, CallsNamed, ScoreIsAccepted, [CellNext]_cellVars
  PROVE  ScoreIsAccepted'
<1>1. CASE outcome' = outcome
  <2>1. \A i \in Event("final_answer") :
           i \in Event("final_answer")' /\ transcript'[i] = transcript[i]
    BY CellStepIsSessionStep, EventsStay
  <2> QED BY <1>1, <2>1 DEF ScoreIsAccepted, Scored
<1>2. CASE outcome'.kind # "answered"
  BY <1>2 DEF ScoreIsAccepted, Scored
<1>3. ASSUME NEW env, NEW reply, Concludes(env, reply) PROVE ScoreIsAccepted'
  BY <1>3, ConcludeScores
<1>4. \/ outcome' = outcome
      \/ outcome'.kind # "answered"
      \/ \E env, reply : Concludes(env, reply)
  <2>1. CASE Begin \/ Retry \/ NextTurn \/ UNCHANGED cellVars
    BY <2>1 DEF Begin, Retry, NextTurn, cellVars, cell
  <2>2. CASE Undelivered \/ BudgetExhausted
    BY <2>2 DEF Undelivered, BudgetExhausted, CrossingFailed, Finish
  <2>3. ASSUME NEW env \in Envelopes, CaptureFailed(env) \/ Unusable(env)
        PROVE  outcome'.kind # "answered"
    BY <2>3 DEF CaptureFailed, Unusable, CrossingFailed, Finish
  <2>4. ASSUME NEW env \in Envelopes, NEW reply \in Replies,
               Violates(env, reply) \/ AnswersBadly(env, reply)
        PROVE  outcome'.kind # "answered"
    BY <2>4 DEF Violates, AnswersBadly, Violation, Finish
  <2>5. ASSUME NEW env \in Envelopes, NEW reply \in Replies, Operates(env, reply)
        PROVE  outcome' = outcome
    BY <2>5 DEF Operates
  <2>6. CASE DispatchUnknown \/ DispatchMalformed \/ DispatchQuery \/ DispatchRead
    BY <2>6 DEF DispatchUnknown, DispatchMalformed, DispatchQuery, DispatchRead, Dispatching
  <2> QED BY <2>1, <2>2, <2>3, <2>4, <2>5, <2>6 DEF CellNext
<1> QED BY <1>1, <1>2, <1>3, <1>4

(* For every store, model, network and budget, a cell scored correct ran a  *)
(* query whose one true answer in the whole store is the expected one, and  *)
(* cited only records that carry it.                                        *)
THEOREM ScoredAnswersCorrect == CellSpec => []CorrectMeansProved
<1>1. CellInit => ScoreIsAccepted
  BY DEF CellInit, Unfinished, ScoreIsAccepted, Scored
<1>2. TypeOK /\ CallsNamed /\ ScoreIsAccepted /\ [CellNext]_cellVars
        => TypeOK' /\ CallsNamed' /\ ScoreIsAccepted'
  BY CellStepIsSessionStep, CallsStep, TypeStep, ScoreStep
<1>3. ScoreIsAccepted /\ AcceptedAnswersAreTrue => CorrectMeansProved
  BY DEF ScoreIsAccepted, Scored, AcceptedAnswersAreTrue, CorrectMeansProved
<1> QED BY <1>1, <1>2, <1>3, CellStarts, CellAnswersTrue, PTL DEF CellSpec

-----------------------------------------------------------------------------
(* Recursion over lists: values that are computed one from the other exist, *)
(* and what a least counterexample refutes holds of every list.             *)

LEMMA NatHasMinimum ==
  ASSUME NEW T, T \subseteq Nat, T # {}
  PROVE  \E x \in T : \A y \in T : x <= y
<1> DEFINE Below == {ss \in Nat \X Nat : ss[1] < ss[2]}
<1>1. IsWellFoundedOn(Below, Nat)
  BY NatLessThanWellFounded, Zenon DEF OpToRel
<1>2. PICK x \in T : \A y \in T : <<y, x>> \notin Below
  BY <1>1, WFMin, Zenon
<1>3. ASSUME NEW y \in T PROVE x <= y
  <2>1. x \in Nat /\ y \in Nat
    OBVIOUS
  <2>2. <<y, x>> \notin Below
    BY <1>2
  <2>3. ~(y < x)
    BY <2>1, <2>2
  <2> QED BY <2>1, <2>3
<1> QED BY <1>3

(* Values computed one from the other, up to some number, exist.            *)
Rules(hi, V) == [(1..hi) \X V -> V]
Runs(hi, V) == [0..hi -> V]
Follows(g, hi, base, G) == g[0] = base /\ \A i \in 1..hi : g[i] = G[<<i, g[i - 1]>>]
LEMMA RecursionExists ==
  ASSUME NEW hi \in Nat, NEW V, NEW base \in V, NEW G \in Rules(hi, V)
  PROVE  \E g \in Runs(hi, V) : Follows(g, hi, base, G)
<1> USE DEF Rules, Runs, Follows
<1> DEFINE Steps(n, g) == g[0] = base /\ \A i \in 1..n : g[i] = G[<<i, g[i - 1]>>]
           Stuck == {n \in 0..hi : ~\E g \in [0..n -> V] : Steps(n, g)}
<1>1. ASSUME Stuck # {} PROVE FALSE
  <2>0. Stuck \subseteq Nat
    OBVIOUS
  <2>1. PICK n \in Stuck : \A m \in Stuck : n <= m
    <3> HIDE DEF Stuck
    <3> QED BY <1>1, <2>0, NatHasMinimum
  <2>2. ASSUME n = 0 PROVE FALSE
    <3> DEFINE h == [i \in 0..0 |-> base]
    <3>1. h \in [0..0 -> V] /\ Steps(0, h)
      OBVIOUS
    <3> QED BY <2>1, <2>2, <3>1
  <2>3. n - 1 \in 0..hi /\ n \in 1..hi
    BY <2>1, <2>2
  <2>4. n - 1 \notin Stuck
    <3> HIDE DEF Stuck
    <3> QED BY <2>1, <2>3
  <2>5. PICK g \in [0..(n - 1) -> V] : Steps(n - 1, g)
    BY <2>3, <2>4
  <2>6. g[n - 1] \in V /\ G[<<n, g[n - 1]>>] \in V
    BY <2>3
  <2> DEFINE h == [i \in 0..n |-> IF i = n THEN G[<<n, g[n - 1]>>] ELSE g[i]]
  <2>7. h \in [0..n -> V]
    BY <2>3, <2>6
  <2>8. h[0] = base
    BY <2>3, <2>5
  <2>9. ASSUME NEW i \in 1..n PROVE h[i] = G[<<i, h[i - 1]>>]
    <3>1. h[i - 1] = g[i - 1] /\ i \in 0..n
      BY <2>3
    <3>2. CASE i = n
      <4>1. h[i] = G[<<n, g[n - 1]>>]
        BY <3>1, <3>2
      <4> HIDE DEF h
      <4> QED BY <3>1, <3>2, <4>1
    <3>3. CASE i # n
      <4>1. h[i] = g[i]
        BY <3>1, <3>3
      <4>2. i \in 1..(n - 1)
        BY <2>3, <3>3
      <4> HIDE DEF h
      <4> QED BY <2>5, <3>1, <4>1, <4>2
    <3> QED BY <3>2, <3>3
  <2>10. Steps(n, h)
    BY <2>8, <2>9
  <2> QED BY <2>1, <2>7, <2>10
<1>2. hi \notin Stuck
  BY <1>1
<1> QED BY <1>2

(* Two that start alike and go on alike are alike.                          *)
Alike(g, h, hi) == g[0] = h[0] /\ \A i \in 1..hi : g[i - 1] = h[i - 1] => g[i] = h[i]
LEMMA RecursionAgrees ==
  ASSUME NEW hi \in Nat, NEW g, NEW h, Alike(g, h, hi)
  PROVE  \A i \in 0..hi : g[i] = h[i]
<1> USE DEF Alike
<1> DEFINE Apart == {i \in 0..hi : g[i] # h[i]}
<1>1. ASSUME Apart # {} PROVE FALSE
  <2>0. Apart \subseteq Nat
    OBVIOUS
  <2>1. PICK n \in Apart : \A m \in Apart : n <= m
    <3> HIDE DEF Apart
    <3> QED BY <1>1, <2>0, NatHasMinimum
  <2>2. n # 0
    BY <2>1
  <2>3. n \in 1..hi /\ n - 1 \in 0..hi /\ n - 1 \notin Apart
    BY <2>1, <2>2
  <2> QED BY <2>1, <2>3
<1> QED BY <1>1

-----------------------------------------------------------------------------
(* Bills. *)
Counters == Nat \cup {Unknown}
LEMMA PlusCounts ==
  ASSUME NEW a \in Counters, NEW t, t.usage \in Counters
  PROVE  Plus(a, t) \in Counters
BY DEF Counters, Unknown, Plus

(* A bill is what adding one turn after the other gives.                    *)
BilledUpTo(ts, f) == f[0] = 0 /\ \A i \in 1..Len(ts) : f[i] = Plus(f[i - 1], ts[i])
LEMMA BillIsAFold ==
  ASSUME NEW T, NEW ts \in Seq(T), \A i \in DOMAIN ts : ts[i].usage \in Counters
  PROVE  \E f : BilledUpTo(ts, f) /\ Bill(ts) = f[Len(ts)] /\ f[Len(ts)] \in Counters
<1> DEFINE G == [p \in (1..Len(ts)) \X Counters |-> Plus(p[2], ts[p[1]])]
           Whole(f) == f = [n \in 0..Len(ts) |-> IF n = 0 THEN 0 ELSE Plus(f[n - 1], ts[n])]
           f == CHOOSE h : Whole(h)
<1>1. 0 \in Counters /\ Len(ts) \in Nat
  BY DEF Counters
<1>2. G \in Rules(Len(ts), Counters)
  BY PlusCounts DEF Rules
<1>3. PICK g \in Runs(Len(ts), Counters) : Follows(g, Len(ts), 0, G)
  <2> HIDE DEF G
  <2> QED BY <1>1, <1>2, RecursionExists
<1>4. BilledUpTo(ts, g) /\ g[Len(ts)] \in Counters
  <2>1. /\ g[0] = 0 /\ \A i \in 1..Len(ts) : g[i] = G[<<i, g[i - 1]>>]
        /\ \A i \in 0..Len(ts) : g[i] \in Counters
    BY <1>3 DEF Runs, Follows
  <2>2. ASSUME NEW i \in 1..Len(ts) PROVE g[i] = Plus(g[i - 1], ts[i])
    <3>1. <<i, g[i - 1]>> \in (1..Len(ts)) \X Counters
      BY <1>1, <2>1
    <3> QED BY <2>1, <3>1
  <2> QED BY <1>1, <2>1, <2>2 DEF BilledUpTo
<1>5. Whole(g)
  BY <1>1, <1>3, <1>4 DEF BilledUpTo, Runs
<1>6. Whole(f)
  BY <1>5
<1>7. Bill(ts) = f[Len(ts)]
  BY DEF Bill
<1> HIDE DEF f, G
<1>8. f[0] = 0 /\ \A i \in 1..Len(ts) : f[i] = Plus(f[i - 1], ts[i])
  <2>1. f[0] = 0
    BY <1>1, <1>6
  <2>2. ASSUME NEW i \in 1..Len(ts) PROVE f[i] = Plus(f[i - 1], ts[i])
    BY <1>1, <1>6
  <2> QED BY <2>1, <2>2
<1>9. \A i \in 0..Len(ts) : f[i] = g[i]
  <2>1. \A i \in 1..Len(ts) : f[i - 1] = g[i - 1] => f[i] = g[i]
    BY <1>1, <1>4, <1>8 DEF BilledUpTo
  <2>2. f[0] = g[0]
    BY <1>4, <1>8 DEF BilledUpTo
  <2>3. Alike(f, g, Len(ts))
    BY <2>1, <2>2 DEF Alike
  <2> QED BY <1>1, <2>3, RecursionAgrees
<1>10. f[Len(ts)] \in Counters
  BY <1>1, <1>4, <1>9
<1> QED BY <1>7, <1>8, <1>10 DEF BilledUpTo

(* One turn more.                                                           *)
LEMMA BillAppends ==
  ASSUME NEW T, NEW ts \in Seq(T), NEW t \in T, t.usage \in Counters,
         \A i \in DOMAIN ts : ts[i].usage \in Counters
  PROVE  Bill(ts) \in Counters /\ Bill(Append(ts, t)) = Plus(Bill(ts), t)
<1> DEFINE us == Append(ts, t)
           n == Len(ts)
<1>1. /\ us \in Seq(T) /\ Len(us) = n + 1 /\ n \in Nat /\ us[n + 1] = t
      /\ \A i \in 1..n : us[i] = ts[i]
  OBVIOUS
<1>2. \A i \in DOMAIN us : us[i].usage \in Counters
  BY <1>1
<1>3. PICK f : BilledUpTo(ts, f) /\ Bill(ts) = f[n] /\ f[n] \in Counters
  BY BillIsAFold
<1> HIDE DEF us, n
<1>4. PICK g : BilledUpTo(us, g) /\ Bill(us) = g[Len(us)]
  BY <1>1, <1>2, BillIsAFold
<1>5. \A i \in 0..n : f[i] = g[i]
  <2>1. \A i \in 1..n : f[i - 1] = g[i - 1] => f[i] = g[i]
    BY <1>1, <1>3, <1>4 DEF BilledUpTo, n
  <2>2. f[0] = g[0]
    BY <1>3, <1>4 DEF BilledUpTo
  <2>3. n \in Nat
    BY <1>1
  <2>4. Alike(f, g, n)
    BY <2>1, <2>2 DEF Alike
  <2> QED BY <2>3, <2>4, RecursionAgrees
<1>6. g[n + 1] = Plus(g[n], t)
  BY <1>1, <1>4 DEF BilledUpTo
<1> QED BY <1>1, <1>3, <1>4, <1>5, <1>6 DEF us, n
(* What was spent on the wire, likewise.                                    *)
ChargedUpTo(ts, f) == f[0] = 0 /\ \A i \in 1..Len(ts) : f[i] = f[i - 1] + ts[i].usage
LEMMA ChargeIsAFold ==
  ASSUME NEW T, NEW ts \in Seq(T), \A i \in DOMAIN ts : ts[i].usage \in Int
  PROVE  \E f : ChargedUpTo(ts, f) /\ Charged(ts) = f[Len(ts)] /\ f[Len(ts)] \in Int
<1> DEFINE G == [p \in (1..Len(ts)) \X Int |-> p[2] + ts[p[1]].usage]
           Whole(f) == f = [n \in 0..Len(ts) |-> IF n = 0 THEN 0 ELSE f[n - 1] + ts[n].usage]
           f == CHOOSE h : Whole(h)
<1>1. 0 \in Int /\ Len(ts) \in Nat
  OBVIOUS
<1>2. G \in Rules(Len(ts), Int)
  BY DEF Rules
<1>3. PICK g \in Runs(Len(ts), Int) : Follows(g, Len(ts), 0, G)
  <2> HIDE DEF G
  <2> QED BY <1>1, <1>2, RecursionExists
<1>4. ChargedUpTo(ts, g) /\ g[Len(ts)] \in Int
  <2>1. /\ g[0] = 0 /\ \A i \in 1..Len(ts) : g[i] = G[<<i, g[i - 1]>>]
        /\ \A i \in 0..Len(ts) : g[i] \in Int
    BY <1>3 DEF Runs, Follows
  <2>2. ASSUME NEW i \in 1..Len(ts) PROVE g[i] = g[i - 1] + ts[i].usage
    <3>1. <<i, g[i - 1]>> \in (1..Len(ts)) \X Int
      BY <1>1, <2>1
    <3> QED BY <2>1, <3>1
  <2> QED BY <1>1, <2>1, <2>2 DEF ChargedUpTo
<1>5. Whole(g)
  BY <1>1, <1>3, <1>4 DEF ChargedUpTo, Runs
<1>6. Whole(f)
  BY <1>5
<1>7. Charged(ts) = f[Len(ts)]
  BY DEF Charged
<1> HIDE DEF f, G
<1>8. f[0] = 0 /\ \A i \in 1..Len(ts) : f[i] = f[i - 1] + ts[i].usage
  <2>1. f[0] = 0
    BY <1>1, <1>6
  <2>2. ASSUME NEW i \in 1..Len(ts) PROVE f[i] = f[i - 1] + ts[i].usage
    BY <1>1, <1>6
  <2> QED BY <2>1, <2>2
<1>9. \A i \in 0..Len(ts) : f[i] = g[i]
  <2>1. \A i \in 1..Len(ts) : f[i - 1] = g[i - 1] => f[i] = g[i]
    BY <1>1, <1>4, <1>8 DEF ChargedUpTo
  <2>2. f[0] = g[0]
    BY <1>4, <1>8 DEF ChargedUpTo
  <2>3. Alike(f, g, Len(ts))
    BY <2>1, <2>2 DEF Alike
  <2> QED BY <1>1, <2>3, RecursionAgrees
<1>10. f[Len(ts)] \in Int
  BY <1>1, <1>4, <1>9
<1> QED BY <1>7, <1>8, <1>10 DEF ChargedUpTo

LEMMA ChargeAppends ==
  ASSUME NEW T, NEW ts \in Seq(T), NEW t \in T, t.usage \in Int,
         \A i \in DOMAIN ts : ts[i].usage \in Int
  PROVE  Charged(ts) \in Int /\ Charged(Append(ts, t)) = Charged(ts) + t.usage
<1> DEFINE us == Append(ts, t)
           n == Len(ts)
<1>1. /\ us \in Seq(T) /\ Len(us) = n + 1 /\ n \in Nat /\ us[n + 1] = t
      /\ \A i \in 1..n : us[i] = ts[i]
  OBVIOUS
<1>2. \A i \in DOMAIN us : us[i].usage \in Int
  BY <1>1
<1>3. PICK f : ChargedUpTo(ts, f) /\ Charged(ts) = f[n] /\ f[n] \in Int
  BY ChargeIsAFold
<1> HIDE DEF us, n
<1>4. PICK g : ChargedUpTo(us, g) /\ Charged(us) = g[Len(us)]
  BY <1>1, <1>2, ChargeIsAFold
<1>5. \A i \in 0..n : f[i] = g[i]
  <2>1. \A i \in 1..n : f[i - 1] = g[i - 1] => f[i] = g[i]
    BY <1>1, <1>3, <1>4 DEF ChargedUpTo, n
  <2>2. f[0] = g[0]
    BY <1>3, <1>4 DEF ChargedUpTo
  <2>3. n \in Nat
    BY <1>1
  <2>4. Alike(f, g, n)
    BY <2>1, <2>2 DEF Alike
  <2> QED BY <2>3, <2>4, RecursionAgrees
<1>6. g[n + 1] = g[n] + t.usage
  BY <1>1, <1>4 DEF ChargedUpTo
<1> QED BY <1>1, <1>3, <1>4, <1>5, <1>6 DEF us, n
(* A flattened sequence is its parts one after the other.                   *)
JoinedUpTo(ss, f) == f[0] = << >> /\ \A i \in 1..Len(ss) : f[i] = f[i - 1] \o ss[i]
LEMMA FlattenIsAFold ==
  ASSUME NEW S, NEW ss \in Seq(Seq(S))
  PROVE  \E f : JoinedUpTo(ss, f) /\ FlattenSeq(ss) = f[Len(ss)] /\ f[Len(ss)] \in Seq(S)
<1> DEFINE G == [p \in (1..Len(ss)) \X Seq(S) |-> p[2] \o ss[p[1]]]
           Whole(f) == f = [i \in 1..Len(ss) |-> IF i = 1 THEN ss[i] ELSE f[i - 1] \o ss[i]]
           f == CHOOSE h : Whole(h)
<1>1. << >> \in Seq(S) /\ Len(ss) \in Nat
  OBVIOUS
<1>2. G \in Rules(Len(ss), Seq(S))
  BY DEF Rules
<1>3. PICK g \in Runs(Len(ss), Seq(S)) : Follows(g, Len(ss), << >>, G)
  <2> HIDE DEF G
  <2> QED BY <1>1, <1>2, RecursionExists
<1>4. JoinedUpTo(ss, g) /\ \A i \in 0..Len(ss) : g[i] \in Seq(S)
  <2>1. /\ g[0] = << >> /\ \A i \in 1..Len(ss) : g[i] = G[<<i, g[i - 1]>>]
        /\ \A i \in 0..Len(ss) : g[i] \in Seq(S)
    BY <1>3 DEF Runs, Follows
  <2>2. ASSUME NEW i \in 1..Len(ss) PROVE g[i] = g[i - 1] \o ss[i]
    <3>1. <<i, g[i - 1]>> \in (1..Len(ss)) \X Seq(S)
      BY <1>1, <2>1
    <3> QED BY <2>1, <3>1
  <2> QED BY <2>1, <2>2 DEF JoinedUpTo
<1>5. CASE ss = << >>
  <2>1. FlattenSeq(ss) = << >> /\ Len(ss) = 0
    BY <1>5 DEF FlattenSeq
  <2> QED BY <1>1, <1>4, <2>1 DEF JoinedUpTo
<1>6. CASE ss # << >>
  <2>1. Len(ss) # 0
    BY <1>6
  <2> DEFINE h == [i \in 1..Len(ss) |-> g[i]]
  <2>2. ASSUME NEW i \in 1..Len(ss)
        PROVE  g[i] = IF i = 1 THEN ss[i] ELSE h[i - 1] \o ss[i]
    <3>1. CASE i = 1
      <4>1. g[i] = g[i - 1] \o ss[i] /\ g[0] = << >>
        BY <1>4 DEF JoinedUpTo
      <4>2. ss[i] \in Seq(S) /\ i - 1 = 0
        BY <1>1, <3>1
      <4>3. << >> \o ss[i] = ss[i]
        BY <4>2
      <4> QED BY <3>1, <4>1, <4>2, <4>3
    <3>2. CASE i # 1
      <4>1. h[i - 1] = g[i - 1]
        BY <1>1, <3>2
      <4> QED BY <1>4, <3>2, <4>1 DEF JoinedUpTo
    <3> QED BY <3>1, <3>2
  <2>3. Whole(h)
    BY <2>2
  <2>4. Whole(f)
    BY <2>3
  <2>5. FlattenSeq(ss) = f[Len(ss)]
    BY <2>1 DEF FlattenSeq
  <2> DEFINE k == [i \in 0..Len(ss) |-> IF i = 0 THEN << >> ELSE f[i]]
  <2> HIDE DEF f, G
  <2>6. \A i \in 0..Len(ss) : k[i] = g[i]
    <3>1. \A i \in 1..Len(ss) : k[i - 1] = g[i - 1] => k[i] = g[i]
      <4> SUFFICES ASSUME NEW i \in 1..Len(ss), k[i - 1] = g[i - 1] PROVE k[i] = g[i]
        OBVIOUS
      <4>1. CASE i = 1
        <5>1. k[i] = ss[1]
          BY <1>1, <2>4, <4>1
        <5> QED BY <2>2, <4>1, <5>1
      <4>2. CASE i # 1
        <5>1. k[i] = f[i - 1] \o ss[i] /\ k[i - 1] = f[i - 1]
          <6>1. i \in 1..Len(ss) /\ i \in 0..Len(ss) /\ i - 1 \in 0..Len(ss) /\ i # 0 /\ i - 1 # 0
            BY <1>1, <4>2
          <6>2. f[i] = f[i - 1] \o ss[i]
            BY <2>4, <4>2, <6>1
          <6> QED BY <6>1, <6>2
        <5> QED BY <1>4, <5>1 DEF JoinedUpTo
      <4> QED BY <4>1, <4>2
    <3>2. k[0] = g[0]
      BY <1>1, <1>4 DEF JoinedUpTo
    <3> HIDE DEF k
    <3>3. Alike(k, g, Len(ss))
      BY <3>1, <3>2 DEF Alike
    <3> QED BY <1>1, <3>3, RecursionAgrees
  <2>7. f[Len(ss)] = g[Len(ss)]
    BY <1>1, <2>1, <2>6
  <2> QED BY <1>1, <1>4, <2>5, <2>7
<1> QED BY <1>5, <1>6

LEMMA FlattenAppends ==
  ASSUME NEW S, NEW ss \in Seq(Seq(S)), NEW s \in Seq(S)
  PROVE  FlattenSeq(ss) \in Seq(S) /\ FlattenSeq(Append(ss, s)) = FlattenSeq(ss) \o s
<1> DEFINE us == Append(ss, s)
           n == Len(ss)
<1>1. /\ us \in Seq(Seq(S)) /\ Len(us) = n + 1 /\ n \in Nat /\ us[n + 1] = s
      /\ \A i \in 1..n : us[i] = ss[i]
  OBVIOUS
<1>2. PICK f : JoinedUpTo(ss, f) /\ FlattenSeq(ss) = f[n] /\ f[n] \in Seq(S)
  BY FlattenIsAFold
<1> HIDE DEF us, n
<1>3. PICK g : JoinedUpTo(us, g) /\ FlattenSeq(us) = g[Len(us)]
  BY <1>1, FlattenIsAFold
<1>4. \A i \in 0..n : f[i] = g[i]
  <2>1. \A i \in 1..n : f[i - 1] = g[i - 1] => f[i] = g[i]
    <3>1. ASSUME NEW i \in 1..n, f[i - 1] = g[i - 1] PROVE f[i] = g[i]
      <4>1. f[i] = f[i - 1] \o ss[i]
        BY <1>2 DEF JoinedUpTo, n
      <4>2. i \in 1..Len(us) /\ us[i] = ss[i]
        BY <1>1
      <4>3. g[i] = g[i - 1] \o us[i]
        BY <1>3, <4>2 DEF JoinedUpTo
      <4> QED BY <3>1, <4>1, <4>2, <4>3
    <3> QED BY <3>1
  <2>2. f[0] = g[0]
    BY <1>2, <1>3 DEF JoinedUpTo
  <2>3. n \in Nat
    BY <1>1
  <2>4. Alike(f, g, n)
    BY <2>1, <2>2 DEF Alike
  <2> QED BY <2>3, <2>4, RecursionAgrees
<1>5. g[n + 1] = g[n] \o s
  <2> DEFINE last == n + 1
  <2>1. last \in 1..Len(us) /\ last - 1 = n /\ us[last] = s
    BY <1>1
  <2> HIDE DEF last
  <2>2. g[last] = g[last - 1] \o us[last]
    BY <1>3, <2>1 DEF JoinedUpTo
  <2>3. g[last] = g[n] \o s
    BY <2>1, <2>2
  <2> QED BY <2>3 DEF last
<1>6. f[n] = g[n]
  BY <1>1, <1>4
<1>7. FlattenSeq(us) = g[n + 1]
  BY <1>1, <1>3
<1> QED BY <1>2, <1>5, <1>6, <1>7 DEF us

-----------------------------------------------------------------------------
(* What the cell writes down. *)

Crossings == {"transport-failed", "response-capture-failed", "provider-rejected",
              "normalization-failed", "completed"}
Models == {NoModel} \cup {env.model : env \in Envelopes}
AnyCalls ==
  [tool : {"query"}, query : Queries] \cup
  [tool : {"materialize"}, handle : Handles, ids : Claims] \cup
  [tool : {"answer"}, handle : Handles, answer : Answers, cited : Claims] \cup
  [tool : {"malformed-operation", "malformed-answer", "unknown"}]
Said == UNION {[1..n -> AnyCalls] : n \in 0..CallsPerReply}
TurnRecords == [crossing : Crossings, attempts : Seq(Kinds), usage : Counters,
                model : Models, calls : Said]
Sends == [turn : Nat, kind : Kinds, usage : Counters, model : Models]

(* What is known of a send and of the turn record it ends.                  *)
Honest(kind, usage, model, charged, named) ==
  /\ kind \in Kinds
  /\ usage \in {charged, Unknown} /\ charged \in Counters
  /\ model \in {named, NoModel} /\ named \in Models
  /\ kind = "transport-error" => charged = 0 /\ usage = Unknown /\ model = NoModel

SentAs(kind, charged, named) ==
  wire' = Append(wire, [turn |-> Len(turns) + 1, kind |-> kind, usage |-> charged, model |-> named])

(* The three things a step may do to the record: nothing, one attempt more, *)
(* or the end of a turn.                                                    *)
Quiet == UNCHANGED <<attempts, turns, wire>>
Resent == /\ Len(attempts) + 1 < MaxAttempts
          /\ SentAs("transport-error", 0, NoModel)
          /\ attempts' = Append(attempts, "transport-error")
          /\ UNCHANGED <<phase, turns, counts, outcome>>
TurnEnds(kind, crossing, usage, model, said, charged, named) ==
  /\ phase = "send"
  /\ Honest(kind, usage, model, charged, named)
  /\ crossing \in Crossings /\ said \in Said
  /\ SentAs(kind, charged, named)
  /\ RecordTurn(kind, crossing, usage, model, said)
Recorded == \E kind, crossing, usage, model, said, charged, named :
              TurnEnds(kind, crossing, usage, model, said, charged, named)

LEMMA NothingIsSaid == << >> \in Said
<1>1. << >> \in [1..0 -> AnyCalls] /\ 0 \in 0..CallsPerReply
  BY BudgetsAssumption
<1> QED BY <1>1 DEF Said

LEMMA RepliesAreSaid ==
  ASSUME TypeOK, NEW reply \in Replies
  PROVE  reply \in Said
<1>1. Nameable \subseteq Handles
  <2>1. ASSUME NEW i \in DOMAIN transcript, transcript[i].event = "query_result"
        PROVE  transcript[i].handle \in Handles
    BY <2>1 DEF TypeOK, Events
  <2> QED BY <2>1 DEF Nameable, Given, Handles
<1>2. CallsNow \subseteq AnyCalls
  BY <1>1 DEF CallsNow, AnyCalls
<1>3. PICK n \in 0..CallsPerReply : reply \in [1..n -> CallsNow]
  BY DEF Replies
<1>4. reply \in [1..n -> AnyCalls]
  BY <1>2, <1>3
<1> QED BY <1>4 DEF Said

LEMMA EnvelopeShape ==
  ASSUME NEW env \in Envelopes
  PROVE  env.usage \in Counters /\ env.model \in Models
BY EnvelopesAssumption DEF Counters, Unknown, Models

LEMMA UndeliveredEnds == Undelivered => Recorded
<1> SUFFICES ASSUME Undelivered PROVE Recorded
  OBVIOUS
<1>1. Honest("transport-error", Unknown, NoModel, 0, NoModel)
  BY DEF Honest, Kinds, Counters, Models
<1>2. TurnEnds("transport-error", "transport-failed", Unknown, NoModel, << >>, 0, NoModel)
  BY <1>1, NothingIsSaid DEF Undelivered, TurnEnds, Lost, Sent, SentAs, Crossings
<1> QED BY <1>2 DEF Recorded

LEMMA CaptureEnds ==
  ASSUME NEW env \in Envelopes, CaptureFailed(env)
  PROVE  Recorded
<1>1. Honest("response-capture-failed", Unknown, NoModel, env.usage, env.model)
  BY EnvelopeShape DEF Honest, Kinds, Counters
<1>2. TurnEnds("response-capture-failed", "response-capture-failed", Unknown, NoModel, << >>,
               env.usage, env.model)
  BY <1>1, NothingIsSaid DEF CaptureFailed, TurnEnds, Reached, Sent, SentAs, Crossings
<1> QED BY <1>2 DEF Recorded

LEMMA UnusableEnds ==
  ASSUME NEW env \in Envelopes, Unusable(env)
  PROVE  Recorded
<1> DEFINE usage == ReportedUsage(Crossing(env), env)
<1>1. Honest("response", usage, NoModel, env.usage, env.model)
  BY EnvelopeShape DEF Honest, Kinds, Counters, ReportedUsage
<1>2. Crossing(env) \in Crossings
  BY DEF Crossing, Crossings
<1>3. TurnEnds("response", Crossing(env), usage, NoModel, << >>, env.usage, env.model)
  BY <1>1, <1>2, NothingIsSaid DEF Unusable, TurnEnds, Reached, Sent, SentAs
<1> QED BY <1>3 DEF Recorded

LEMMA CompletedEnds ==
  ASSUME TypeOK, NEW env \in Envelopes, NEW reply \in Replies, Completed(env, reply)
  PROVE  TurnEnds("response", "completed", env.usage, env.model, reply, env.usage, env.model)
<1>1. Honest("response", env.usage, env.model, env.usage, env.model)
  BY EnvelopeShape DEF Honest, Kinds
<1>2. reply \in Said
  BY RepliesAreSaid
<1> QED BY <1>1, <1>2 DEF Completed, TurnEnds, Reached, Sent, SentAs, Crossings, ReportedUsage, ReportedModel

RecordsTyped == /\ attempts \in Seq(Kinds)
                /\ turns \in Seq(TurnRecords)
                /\ wire \in Seq(Sends)

LEMMA CellStepRecords ==
  ASSUME TypeOK, RecordsTyped, [CellNext]_cellVars
  PROVE  Quiet \/ Resent \/ Recorded
<1>1. CASE Begin \/ NextTurn \/ BudgetExhausted \/ UNCHANGED cellVars
  BY <1>1 DEF Begin, NextTurn, BudgetExhausted, cellVars, cell, Quiet
<1>2. CASE Retry
  <2>1. Len(attempts) \in Nat /\ MaxAttempts \in Nat
    BY BudgetsAssumption DEF RecordsTyped
  <2> QED BY <1>2, <2>1 DEF Retry, Resent, Lost, Sent, SentAs, LastAttempt
<1>3. CASE Undelivered
  BY <1>3, UndeliveredEnds
<1>4. ASSUME NEW env \in Envelopes, CaptureFailed(env) \/ Unusable(env) PROVE Recorded
  BY <1>4, CaptureEnds, UnusableEnds
<1>5. ASSUME NEW env \in Envelopes, NEW reply \in Replies,
             \/ Violates(env, reply) \/ AnswersBadly(env, reply)
             \/ Concludes(env, reply) \/ Operates(env, reply)
      PROVE  Recorded
  <2>1. Completed(env, reply)
    BY <1>5 DEF Violates, AnswersBadly, Concludes, Operates
  <2> QED BY <2>1, CompletedEnds DEF Recorded
<1>6. CASE DispatchUnknown \/ DispatchMalformed \/ DispatchQuery \/ DispatchRead
  BY <1>6 DEF DispatchUnknown, DispatchMalformed, DispatchQuery, DispatchRead, Dispatching, Quiet
<1> QED BY <1>1, <1>2, <1>3, <1>4, <1>5, <1>6 DEF CellNext

LEMMA RecordsStep ==
  ASSUME RecordsTyped, Quiet \/ Resent \/ Recorded
  PROVE  RecordsTyped'
<1>1. CASE Quiet
  BY <1>1 DEF Quiet, RecordsTyped
<1>2. CASE Resent
  <2>1. [turn |-> Len(turns) + 1, kind |-> "transport-error", usage |-> 0, model |-> NoModel] \in Sends
    BY DEF RecordsTyped, Sends, Kinds, Counters, Models
  <2>2. "transport-error" \in Kinds
    BY DEF Kinds
  <2> QED BY <1>2, <2>1, <2>2 DEF Resent, SentAs, RecordsTyped
<1>3. ASSUME NEW kind, NEW crossing, NEW usage, NEW model, NEW said, NEW charged, NEW named,
             TurnEnds(kind, crossing, usage, model, said, charged, named)
      PROVE  RecordsTyped'
  <2>1. /\ kind \in Kinds /\ usage \in Counters /\ charged \in Counters
        /\ model \in Models /\ named \in Models /\ crossing \in Crossings /\ said \in Said
    BY <1>3 DEF TurnEnds, Honest, Counters, Models
  <2>2. Append(attempts, kind) \in Seq(Kinds) /\ Len(turns) + 1 \in Nat
    BY <2>1 DEF RecordsTyped
  <2>3. [crossing |-> crossing, attempts |-> Append(attempts, kind), usage |-> usage,
         model |-> model, calls |-> said] \in TurnRecords
    BY <2>1, <2>2 DEF TurnRecords
  <2>4. [turn |-> Len(turns) + 1, kind |-> kind, usage |-> charged, model |-> named] \in Sends
    BY <2>1, <2>2 DEF Sends
  <2>5. << >> \in Seq(Kinds)
    OBVIOUS
  <2> QED BY <1>3, <2>3, <2>4, <2>5 DEF TurnEnds, RecordTurn, SentAs, RecordsTyped
<1> QED BY <1>1, <1>2, <1>3 DEF Recorded

(* A turn is begun only within the budget, and a cell has an outcome        *)
(* exactly when it is done.                                                 *)
Budgeted ==
  /\ phase \in {"begin", "send", "dispatch", "done"}
  /\ Len(attempts) < MaxAttempts
  /\ Len(turns) <= MaxTurns
  /\ phase \in {"begin", "send"} => Len(turns) < MaxTurns
  /\ counts \in [tool : Nat, operation : Nat]
  /\ phase = "done" <=> outcome # Unfinished

LEMMA GradedIsAnOutcome ==
  ASSUME NEW v, NEW c
  PROVE  Graded(v, c) # Unfinished
<1>1. Graded(v, c).kind # "unfinished"
  BY DEF Graded
<1> QED BY <1>1 DEF Unfinished

LEMMA BudgetStarts == CellInit => Budgeted /\ RecordsTyped
BY BudgetsAssumption DEF CellInit, Budgeted, RecordsTyped

LEMMA TurnIsBudgeted ==
  ASSUME RecordsTyped, Budgeted, Recorded
  PROVE  /\ Len(attempts') < MaxAttempts
         /\ Len(turns') <= MaxTurns
         /\ counts' \in [tool : Nat, operation : Nat]
<1>1. PICK kind, crossing, usage, model, said, charged, named :
         TurnEnds(kind, crossing, usage, model, said, charged, named)
  BY DEF Recorded
<1>2. Len(turns') = Len(turns) + 1 /\ Len(turns) \in Nat /\ Len(turns) < MaxTurns
  BY <1>1 DEF TurnEnds, RecordTurn, RecordsTyped, Budgeted
<1>3. Len(attempts') = 0
  BY <1>1 DEF TurnEnds, RecordTurn
<1>4. Len(said) \in Nat
  <2>1. PICK n \in 0..CallsPerReply : said \in [1..n -> AnyCalls]
    BY <1>1 DEF TurnEnds, Said
  <2>2. n \in Nat /\ said \in Seq(AnyCalls)
    BY <2>1, BudgetsAssumption
  <2> QED BY <2>2
<1>5. counts' = [counts EXCEPT !.tool = @ + Len(said)]
  BY <1>1 DEF TurnEnds, RecordTurn
<1>6. counts' \in [tool : Nat, operation : Nat]
  BY <1>4, <1>5 DEF Budgeted
<1> QED BY <1>2, <1>3, <1>6, BudgetsAssumption

LEMMA BudgetStep ==
  ASSUME TypeOK, RecordsTyped, Budgeted, [CellNext]_cellVars
  PROVE  Budgeted'
<1>0. MaxTurns \in Nat /\ MaxAttempts \in Nat /\ Len(turns) \in Nat /\ Len(attempts) \in Nat
  BY BudgetsAssumption DEF RecordsTyped
<1>1. CASE Begin
  BY <1>1 DEF Begin, Budgeted
<1>2. CASE Retry
  <2>1. Len(attempts') < MaxAttempts
    BY <1>0, <1>2 DEF Retry, LastAttempt, RecordsTyped
  <2> QED BY <1>2, <2>1 DEF Retry, Budgeted
<1>3. ASSUME Recorded, phase' = "done", outcome' # Unfinished PROVE Budgeted'
  BY <1>3, TurnIsBudgeted DEF Budgeted
<1>4. CASE Undelivered
  <2>1. phase' = "done" /\ outcome' # Unfinished
    BY <1>4 DEF Undelivered, CrossingFailed, Finish, Unfinished
  <2> QED BY <1>3, <1>4, <2>1, UndeliveredEnds
<1>5. ASSUME NEW env \in Envelopes, CaptureFailed(env) \/ Unusable(env) PROVE Budgeted'
  <2>1. phase' = "done" /\ outcome' # Unfinished
    BY <1>5 DEF CaptureFailed, Unusable, CrossingFailed, Finish, Unfinished
  <2> QED BY <1>3, <1>5, <2>1, CaptureEnds, UnusableEnds
<1>6. ASSUME NEW env \in Envelopes, NEW reply \in Replies,
             Violates(env, reply) \/ AnswersBadly(env, reply) \/ Concludes(env, reply)
      PROVE  Budgeted'
  <2>1. Completed(env, reply)
    BY <1>6 DEF Violates, AnswersBadly, Concludes
  <2>2. phase' = "done"
    BY <1>6 DEF Violates, AnswersBadly, Concludes, Violation, Finish
  <2>3. outcome' # Unfinished
    BY <1>6, GradedIsAnOutcome DEF Violates, AnswersBadly, Concludes, Violation, Finish, Unfinished
  <2> QED BY <1>3, <2>1, <2>2, <2>3, CompletedEnds DEF Recorded
<1>7. ASSUME NEW env \in Envelopes, NEW reply \in Replies, Operates(env, reply)
      PROVE  Budgeted'
  <2>1. Recorded
    BY <1>7, CompletedEnds DEF Operates, Recorded
  <2>2. phase = "send" /\ phase' = "dispatch" /\ outcome' = outcome
    BY <1>7 DEF Operates, Completed
  <2> QED BY <2>1, <2>2, TurnIsBudgeted DEF Budgeted
<1>8. CASE DispatchUnknown \/ DispatchMalformed \/ DispatchQuery \/ DispatchRead
  <2>1. PICK n \in {0, 1} : Dispatching(n)
    BY <1>8 DEF DispatchUnknown, DispatchMalformed, DispatchQuery, DispatchRead
  <2>2. counts' \in [tool : Nat, operation : Nat]
    BY <2>1 DEF Dispatching, Budgeted
  <2> QED BY <2>1, <2>2 DEF Dispatching, Budgeted
<1>9. CASE NextTurn \/ BudgetExhausted
  BY <1>0, <1>9 DEF NextTurn, BudgetExhausted, EndOfReply, Finish, Unfinished, Budgeted
<1>10. CASE UNCHANGED cellVars
  BY <1>10 DEF cellVars, cell, Budgeted
<1> QED BY <1>1, <1>2, <1>4, <1>5, <1>6, <1>7, <1>8, <1>9, <1>10 DEF CellNext

CellInv == TypeOK /\ CallsNamed /\ RecordsTyped /\ Budgeted
LEMMA CellInvariant == CellSpec => []CellInv
<1>1. CellInit => CellInv
  BY CellStarts, BudgetStarts DEF CellInv
<1>2. CellInv /\ [CellNext]_cellVars => CellInv'
  BY CellStepIsSessionStep, CallsStep, TypeStep, CellStepRecords, RecordsStep, BudgetStep DEF CellInv
<1> QED BY <1>1, <1>2, PTL DEF CellSpec

(* The budgets hold for every budget: no turn is begun and no attempt made  *)
(* beyond them, every turn record holds the attempts of its delivery, and   *)
(* a cell is done exactly when it has an outcome.                           *)
THEOREM CellTypeCorrect == CellSpec => []CellTypeOK
<1>1. CellInv => CellTypeOK
  <2> SUFFICES ASSUME CellInv PROVE CellTypeOK
    OBVIOUS
  <2>1. turns \in Seq(TurnRecords)
    BY DEF CellInv, RecordsTyped
  <2>2. ASSUME NEW i \in DOMAIN turns PROVE turns[i].attempts \in Seq(Kinds)
    <3>1. turns[i] \in TurnRecords
      BY <2>1
    <3> QED BY <3>1 DEF TurnRecords
  <2> QED BY <2>2 DEF CellInv, Budgeted, CellTypeOK
<1> QED BY <1>1, CellInvariant, PTL

-----------------------------------------------------------------------------
(* The record and the wire. *)

AttemptsOf(ts) == [i \in DOMAIN ts |-> ts[i].attempts]
KindsOf(sends) == [i \in DOMAIN sends |-> sends[i].kind]

LEMMA AttemptsAppend ==
  ASSUME NEW ts \in Seq(TurnRecords), NEW t \in TurnRecords
  PROVE  /\ AttemptsOf(ts) \in Seq(Seq(Kinds))
         /\ AttemptsOf(Append(ts, t)) = Append(AttemptsOf(ts), t.attempts)
<1>1. ASSUME NEW u \in TurnRecords PROVE u.attempts \in Seq(Kinds)
  BY DEF TurnRecords
<1>2. \A i \in DOMAIN ts : ts[i] \in TurnRecords
  OBVIOUS
<1> HIDE DEF TurnRecords
<1>3. AttemptsOf(ts) \in Seq(Seq(Kinds)) /\ Len(AttemptsOf(ts)) = Len(ts)
  BY <1>1, <1>2 DEF AttemptsOf
<1> QED BY <1>1, <1>3 DEF AttemptsOf

LEMMA KindsAppend ==
  ASSUME NEW sends \in Seq(Sends), NEW x \in Sends
  PROVE  /\ KindsOf(sends) \in Seq(Kinds)
         /\ KindsOf(Append(sends, x)) = Append(KindsOf(sends), x.kind)
<1>1. ASSUME NEW u \in Sends PROVE u.kind \in Kinds
  BY DEF Sends
<1>2. \A i \in DOMAIN sends : sends[i] \in Sends
  OBVIOUS
<1>3. KindsOf(sends) \in Seq(Kinds) /\ Len(KindsOf(sends)) = Len(sends)
  BY <1>1, <1>2 DEF KindsOf
<1> QED BY <1>1, <1>3 DEF KindsOf

LEMMA AppendsLast ==
  ASSUME NEW S, NEW s \in Seq(S), NEW t \in Seq(S), NEW x \in S
  PROVE  /\ s \o Append(t, x) = Append(s \o t, x)
         /\ s \o << >> = s
OBVIOUS

(* What was sent for a turn that is over was sent before anything else, and *)
(* headers end a turn.                                                      *)
InOrder ==
  /\ \A i \in DOMAIN wire :
       /\ wire[i].turn <= Len(turns) + 1
       /\ wire[i].kind # "transport-error" => wire[i].turn <= Len(turns)
  /\ \A i, j \in DOMAIN wire :
       i < j /\ wire[i].kind # "transport-error" => wire[i].turn < wire[j].turn
Transcribed == FlattenSeq(AttemptsOf(turns)) \o attempts = KindsOf(wire)

LEMMA SendsInOrder ==
  ASSUME RecordsTyped, InOrder, NEW x \in Sends, wire' = Append(wire, x),
         x.turn = Len(turns) + 1,
         Len(turns') = Len(turns) + 1 \/ (turns' = turns /\ x.kind = "transport-error")
  PROVE  InOrder'
<1> DEFINE last == Len(wire) + 1
<1>1. /\ Len(turns) \in Nat /\ Len(wire) \in Nat
      /\ \A i \in DOMAIN wire : wire[i].turn \in Nat /\ i \in Nat /\ i < last
  <2>1. ASSUME NEW i \in DOMAIN wire PROVE wire[i].turn \in Nat /\ i \in Nat /\ i < last
    <3>1. wire[i] \in Sends
      BY DEF RecordsTyped
    <3> QED BY <3>1 DEF Sends, RecordsTyped
  <2> QED BY <2>1 DEF RecordsTyped
<1>2. /\ DOMAIN wire' = DOMAIN wire \cup {last} /\ wire'[last] = x
      /\ \A i \in DOMAIN wire : wire'[i] = wire[i]
  BY DEF RecordsTyped
<1>3. last \in Nat
  BY <1>1
<1> HIDE DEF last
<1>4. Len(turns') \in Nat /\ Len(turns') >= Len(turns)
  BY <1>1
<1>5. ASSUME NEW i \in DOMAIN wire'
      PROVE  /\ wire'[i].turn <= Len(turns') + 1
             /\ wire'[i].kind # "transport-error" => wire'[i].turn <= Len(turns')
  <2>1. CASE i = last
    BY <1>1, <1>2, <1>4, <2>1
  <2>2. CASE i \in DOMAIN wire
    BY <1>1, <1>2, <1>4, <2>2 DEF InOrder
  <2> QED BY <1>2, <2>1, <2>2
<1>6. ASSUME NEW i \in DOMAIN wire', NEW j \in DOMAIN wire', i < j,
             wire'[i].kind # "transport-error"
      PROVE  wire'[i].turn < wire'[j].turn
  <2>1. i \in DOMAIN wire
    BY <1>1, <1>2, <1>3, <1>6
  <2>2. CASE j = last
    BY <1>1, <1>2, <1>6, <2>1, <2>2 DEF InOrder
  <2>3. CASE j \in DOMAIN wire
    BY <1>2, <1>6, <2>1, <2>3 DEF InOrder
  <2> QED BY <1>2, <2>2, <2>3
<1> QED BY <1>5, <1>6 DEF InOrder

LEMMA WireStep ==
  ASSUME RecordsTyped, InOrder, Transcribed, Quiet \/ Resent \/ Recorded
  PROVE  InOrder' /\ Transcribed'
<1>0. /\ AttemptsOf(turns) \in Seq(Seq(Kinds)) /\ KindsOf(wire) \in Seq(Kinds)
      /\ FlattenSeq(AttemptsOf(turns)) \in Seq(Kinds) /\ attempts \in Seq(Kinds)
  <2>1. ASSUME NEW u \in TurnRecords PROVE u.attempts \in Seq(Kinds)
    BY DEF TurnRecords
  <2>2. \A i \in DOMAIN turns : turns[i] \in TurnRecords
    BY DEF RecordsTyped
  <2>3. AttemptsOf(turns) \in Seq(Seq(Kinds))
    <3> HIDE DEF TurnRecords
    <3>1. turns \in Seq(TurnRecords)
      BY DEF RecordsTyped
    <3> QED BY <2>1, <2>2, <3>1 DEF AttemptsOf
  <2>4. ASSUME NEW u \in Sends PROVE u.kind \in Kinds
    BY DEF Sends
  <2>5. \A i \in DOMAIN wire : wire[i] \in Sends
    BY DEF RecordsTyped
  <2>6. wire \in Seq(Sends)
    BY DEF RecordsTyped
  <2>7. KindsOf(wire) \in Seq(Kinds)
    BY <2>4, <2>5, <2>6 DEF KindsOf
  <2>8. << >> \in Seq(Kinds)
    OBVIOUS
  <2> QED BY <2>3, <2>7, <2>8, FlattenAppends DEF RecordsTyped
<1>1. CASE Quiet
  BY <1>1 DEF Quiet, InOrder, Transcribed
<1>2. CASE Resent
  <2> DEFINE x == [turn |-> Len(turns) + 1, kind |-> "transport-error", usage |-> 0,
                   model |-> NoModel]
  <2>1. x \in Sends /\ x.turn = Len(turns) + 1 /\ x.kind = "transport-error"
    BY DEF RecordsTyped, Sends, Kinds, Counters, Models
  <2>2. /\ wire' = Append(wire, x) /\ turns' = turns
        /\ attempts' = Append(attempts, "transport-error")
    BY <1>2 DEF Resent, SentAs
  <2> HIDE DEF x
  <2>3. InOrder'
    BY <2>1, <2>2, SendsInOrder
  <2>4. KindsOf(wire') = Append(KindsOf(wire), "transport-error")
    BY <2>1, <2>2, KindsAppend DEF RecordsTyped
  <2>5. "transport-error" \in Kinds
    BY DEF Kinds
  <2>6. FlattenSeq(AttemptsOf(turns)) \o Append(attempts, "transport-error")
          = Append(FlattenSeq(AttemptsOf(turns)) \o attempts, "transport-error")
    BY <1>0, <2>5, AppendsLast
  <2> QED BY <2>2, <2>3, <2>4, <2>6 DEF Transcribed
<1>3. ASSUME NEW kind, NEW crossing, NEW usage, NEW model, NEW said, NEW charged, NEW named,
             TurnEnds(kind, crossing, usage, model, said, charged, named)
      PROVE  InOrder' /\ Transcribed'
  <2> DEFINE x == [turn |-> Len(turns) + 1, kind |-> kind, usage |-> charged, model |-> named]
             t == [crossing |-> crossing, attempts |-> Append(attempts, kind), usage |-> usage,
                   model |-> model, calls |-> said]
  <2>1. /\ kind \in Kinds /\ usage \in Counters /\ charged \in Counters
        /\ model \in Models /\ named \in Models /\ crossing \in Crossings /\ said \in Said
    BY <1>3 DEF TurnEnds, Honest, Counters, Models
  <2>2. Append(attempts, kind) \in Seq(Kinds) /\ Len(turns) + 1 \in Nat
    BY <2>1 DEF RecordsTyped
  <2>3. x \in Sends /\ x.turn = Len(turns) + 1 /\ x.kind = kind
    BY <2>1, <2>2 DEF Sends
  <2>4. t \in TurnRecords /\ t.attempts = Append(attempts, kind)
    BY <2>1, <2>2 DEF TurnRecords
  <2>5. wire' = Append(wire, x) /\ turns' = Append(turns, t) /\ attempts' = << >>
    BY <1>3 DEF TurnEnds, RecordTurn, SentAs
  <2> HIDE DEF x, t
  <2>6. Len(turns') = Len(turns) + 1
    BY <2>5 DEF RecordsTyped
  <2>7. InOrder'
    BY <2>3, <2>5, <2>6, SendsInOrder
  <2>8. KindsOf(wire') = Append(KindsOf(wire), kind)
    BY <2>3, <2>5, KindsAppend DEF RecordsTyped
  <2>9. AttemptsOf(turns') = Append(AttemptsOf(turns), Append(attempts, kind))
    BY <2>4, <2>5, AttemptsAppend DEF RecordsTyped
  <2>10. FlattenSeq(AttemptsOf(turns')) = FlattenSeq(AttemptsOf(turns)) \o Append(attempts, kind)
    BY <1>0, <2>2, <2>9, FlattenAppends
  <2>11. FlattenSeq(AttemptsOf(turns')) = Append(FlattenSeq(AttemptsOf(turns)) \o attempts, kind)
    BY <1>0, <2>1, <2>10, AppendsLast
  <2>12. KindsOf(wire') = FlattenSeq(AttemptsOf(turns'))
    BY <2>8, <2>11 DEF Transcribed
  <2>13. KindsOf(wire') \in Seq(Kinds)
    BY <1>0, <2>1, <2>8
  <2>14. KindsOf(wire') \o << >> = KindsOf(wire')
    BY <2>13
  <2> QED BY <2>5, <2>7, <2>12, <2>14 DEF Transcribed
<1> QED BY <1>1, <1>2, <1>3 DEF Recorded

LEMMA WireStarts == CellInit => InOrder /\ Transcribed
<1> SUFFICES ASSUME CellInit PROVE InOrder /\ Transcribed
  OBVIOUS
<1>1. AttemptsOf(turns) = << >> /\ KindsOf(wire) = << >> /\ attempts = << >>
  BY DEF CellInit, AttemptsOf, KindsOf
<1>2. FlattenSeq(<< >>) = << >>
  BY DEF FlattenSeq
<1> QED BY <1>1, <1>2 DEF CellInit, InOrder, Transcribed

(* The record is what happened on the wire, for every network: the attempts *)
(* of the turns, in order, are all the sends there were, and once headers   *)
(* have arrived for a turn no further generation is bought for it.          *)
THEOREM RecordIsTheWire == CellSpec => []RecordMatchesWire
<1> DEFINE Inv == CellInv /\ InOrder /\ Transcribed
<1>1. CellInit => Inv
  BY CellStarts, BudgetStarts, WireStarts DEF CellInv
<1>2. Inv /\ [CellNext]_cellVars => Inv'
  BY CellStepIsSessionStep, CallsStep, TypeStep, CellStepRecords, RecordsStep, BudgetStep, WireStep
     DEF CellInv
<1>3. Inv => RecordMatchesWire
  BY DEF InOrder, Transcribed, RecordMatchesWire, AttemptsOf, KindsOf
<1> QED BY <1>1, <1>2, <1>3, PTL DEF CellSpec

-----------------------------------------------------------------------------
(* The bill and the model. *)

(* One send more: the generations that reached us, and one more if this did.*)
LEMMA GenerationsGrow ==
  ASSUME RecordsTyped, NEW x \in Sends, wire' = Append(wire, x)
  PROVE  /\ IsFiniteSet(Generations) /\ Cardinality(Generations) \in Nat
         /\ \A i \in Generations : i \in DOMAIN wire' /\ wire'[i] = wire[i]
         /\ x.kind = "transport-error" => Generations' = Generations
         /\ x.kind # "transport-error" =>
              /\ Generations' = Generations \cup {Len(wire) + 1}
              /\ wire'[Len(wire) + 1] = x
              /\ Cardinality(Generations') = Cardinality(Generations) + 1
<1> DEFINE last == Len(wire) + 1
<1>1. /\ DOMAIN wire' = DOMAIN wire \cup {last} /\ wire'[last] = x
      /\ \A i \in DOMAIN wire : wire'[i] = wire[i] /\ i # last
      /\ DOMAIN wire = 1..Len(wire) /\ Len(wire) \in Nat
  BY DEF RecordsTyped
<1>2. IsFiniteSet(1..Len(wire))
  <2>1. Len(wire) \in Int /\ 1 \in Int
    BY <1>1
  <2> QED BY <2>1, FS_Interval, Zenon
<1>3. IsFiniteSet(Generations) /\ Cardinality(Generations) \in Nat
  <2>1. Generations \subseteq 1..Len(wire)
    BY <1>1 DEF Generations
  <2> QED BY <1>2, <2>1, FS_Subset, FS_CardinalityType
<1> HIDE DEF last
<1>4. last \notin Generations
  BY <1>1 DEF Generations
<1>5. CASE x.kind = "transport-error"
  BY <1>1, <1>3, <1>5 DEF Generations
<1>6. CASE x.kind # "transport-error"
  <2>1. Generations' = Generations \cup {last}
    BY <1>1, <1>6 DEF Generations
  <2>2. Cardinality(Generations \cup {last}) = Cardinality(Generations) + 1
    BY <1>3, <1>4, FS_AddElement
  <2>3. \A i \in Generations : i \in DOMAIN wire' /\ wire'[i] = wire[i]
    BY <1>1 DEF Generations
  <2> QED BY <1>1, <1>3, <1>6, <2>1, <2>2, <2>3 DEF last
<1> QED BY <1>5, <1>6

(* A bill so far, whatever the phase.                                       *)
BilledSoFar ==
  Bill(turns) # Unknown => /\ \A i \in Generations : wire[i].usage # Unknown
                           /\ Bill(turns) = Charged(wire)
(* And a single model so far.                                               *)
OneModelSoFar ==
  (\A i \in DOMAIN turns : StatusOf(turns[i].model) = "verified") =>
    /\ \A i \in Generations : wire[i].model = RequestedModel
    /\ Cardinality(Generations) = Len(turns)

LEMMA UsagesCount ==
  ASSUME RecordsTyped
  PROVE  /\ \A i \in DOMAIN turns : turns[i].usage \in Counters
         /\ \A i \in DOMAIN wire : wire[i].usage \in Int
         /\ turns \in Seq(TurnRecords) /\ wire \in Seq(Sends)
<1>1. turns \in Seq(TurnRecords) /\ wire \in Seq(Sends)
  BY DEF RecordsTyped
<1>2. ASSUME NEW i \in DOMAIN turns PROVE turns[i].usage \in Counters
  <2>1. turns[i] \in TurnRecords
    BY <1>1
  <2> QED BY <2>1 DEF TurnRecords
<1>3. ASSUME NEW i \in DOMAIN wire PROVE wire[i].usage \in Int
  <2>1. wire[i] \in Sends
    BY <1>1
  <2> QED BY <2>1 DEF Sends, Counters, Unknown
<1> QED BY <1>1, <1>2, <1>3

LEMMA ResentCosts ==
  ASSUME RecordsTyped, BilledSoFar, OneModelSoFar, Resent
  PROVE  BilledSoFar' /\ OneModelSoFar'
<1> DEFINE x == [turn |-> Len(turns) + 1, kind |-> "transport-error", usage |-> 0,
                 model |-> NoModel]
<1>1. x \in Sends /\ x.kind = "transport-error" /\ x.usage = 0 /\ x.usage \in Int
  BY DEF RecordsTyped, Sends, Kinds, Counters, Models
<1>2. wire' = Append(wire, x) /\ turns' = turns
  BY DEF Resent, SentAs
<1> HIDE DEF x
<1>3. Charged(wire') = Charged(wire)
  <2>1. Charged(wire) \in Int /\ Charged(wire') = Charged(wire) + x.usage
    BY <1>1, <1>2, UsagesCount, ChargeAppends
  <2> QED BY <1>1, <2>1
<1>4. Generations' = Generations /\ \A i \in Generations : wire'[i] = wire[i]
  BY <1>1, <1>2, GenerationsGrow
<1>5. BilledSoFar'
  BY <1>2, <1>3, <1>4 DEF BilledSoFar
<1>6. OneModelSoFar'
  BY <1>2, <1>4 DEF OneModelSoFar
<1> QED BY <1>5, <1>6

LEMMA RecordedCosts ==
  ASSUME RecordsTyped, BilledSoFar, OneModelSoFar, Recorded
  PROVE  BilledSoFar' /\ OneModelSoFar'
<1> PICK kind, crossing, usage, model, said, charged, named :
           TurnEnds(kind, crossing, usage, model, said, charged, named)
  BY DEF Recorded
<1> DEFINE x == [turn |-> Len(turns) + 1, kind |-> kind, usage |-> charged, model |-> named]
           t == [crossing |-> crossing, attempts |-> Append(attempts, kind), usage |-> usage,
                 model |-> model, calls |-> said]
<1>1. /\ kind \in Kinds /\ usage \in Counters /\ charged \in Counters
      /\ model \in Models /\ named \in Models /\ crossing \in Crossings /\ said \in Said
  BY DEF TurnEnds, Honest, Counters, Models
<1>2. /\ usage \in {charged, Unknown} /\ model \in {named, NoModel}
      /\ kind = "transport-error" => usage = Unknown /\ model = NoModel
  BY DEF TurnEnds, Honest
<1>3. Append(attempts, kind) \in Seq(Kinds) /\ Len(turns) + 1 \in Nat
  BY <1>1 DEF RecordsTyped
<1>4. x \in Sends /\ x.kind = kind /\ x.usage = charged /\ x.model = named
  BY <1>1, <1>3 DEF Sends
<1>5. t \in TurnRecords /\ t.usage = usage /\ t.model = model
  BY <1>1, <1>3 DEF TurnRecords
<1>6. wire' = Append(wire, x) /\ turns' = Append(turns, t)
  BY DEF TurnEnds, RecordTurn, SentAs
<1> HIDE DEF x, t
<1>7. Bill(turns) \in Counters /\ Bill(turns') = Plus(Bill(turns), t)
  BY <1>1, <1>5, <1>6, UsagesCount, BillAppends
<1>8. Charged(wire) \in Int /\ Charged(wire') = Charged(wire) + charged
  <2>1. x.usage \in Int
    BY <1>1, <1>4 DEF Counters, Unknown
  <2> QED BY <1>4, <1>6, <2>1, UsagesCount, ChargeAppends
<1>9. /\ IsFiniteSet(Generations) /\ Cardinality(Generations) \in Nat
      /\ \A i \in Generations : wire'[i] = wire[i]
      /\ kind # "transport-error" =>
           /\ Generations' = Generations \cup {Len(wire) + 1}
           /\ wire'[Len(wire) + 1] = x
           /\ Cardinality(Generations') = Cardinality(Generations) + 1
  BY <1>4, <1>6, GenerationsGrow
<1>10. BilledSoFar'
  <2> SUFFICES ASSUME Bill(turns') # Unknown
               PROVE  /\ \A i \in Generations' : wire'[i].usage # Unknown
                      /\ Bill(turns') = Charged(wire')
    BY DEF BilledSoFar
  <2>1. /\ Bill(turns) # Unknown /\ usage # Unknown
        /\ Bill(turns') = Bill(turns) + usage
    BY <1>5, <1>7 DEF Plus
  <2>2. kind # "transport-error" /\ usage = charged
    BY <1>2, <2>1
  <2>3. \A i \in Generations : wire[i].usage # Unknown
    BY <2>1 DEF BilledSoFar
  <2>4. Bill(turns) = Charged(wire)
    BY <2>1 DEF BilledSoFar
  <2>5. ASSUME NEW i \in Generations' PROVE wire'[i].usage # Unknown
    BY <1>4, <1>9, <2>1, <2>2, <2>3
  <2> QED BY <1>8, <2>1, <2>2, <2>4, <2>5
<1>11. OneModelSoFar'
  <2> SUFFICES ASSUME \A i \in DOMAIN turns' : StatusOf(turns'[i].model) = "verified"
               PROVE  /\ \A i \in Generations' : wire'[i].model = RequestedModel
                      /\ Cardinality(Generations') = Len(turns')
    BY DEF OneModelSoFar
  <2> DEFINE last == Len(turns) + 1
  <2>1. /\ DOMAIN turns' = DOMAIN turns \cup {last} /\ turns'[last] = t
        /\ \A i \in DOMAIN turns : turns'[i] = turns[i]
        /\ Len(turns') = last
    BY <1>6 DEF RecordsTyped
  <2> HIDE DEF last
  <2>2. StatusOf(model) = "verified"
    BY <1>5, <2>1
  <2>3. model # NoModel /\ model = RequestedModel
    BY <2>2 DEF StatusOf
  <2>4. kind # "transport-error" /\ named = RequestedModel
    BY <1>2, <2>3
  <2>5. \A i \in DOMAIN turns : StatusOf(turns[i].model) = "verified"
    BY <2>1
  <2>6. /\ \A i \in Generations : wire[i].model = RequestedModel
        /\ Cardinality(Generations) = Len(turns)
    BY <2>5 DEF OneModelSoFar
  <2>7. ASSUME NEW i \in Generations' PROVE wire'[i].model = RequestedModel
    BY <1>4, <1>9, <2>4, <2>6
  <2>8. Cardinality(Generations') = Len(turns')
    BY <1>9, <2>1, <2>4, <2>6 DEF last
  <2> QED BY <2>7, <2>8
<1> QED BY <1>10, <1>11

LEMMA RecordStarts == CellInit => BilledSoFar /\ OneModelSoFar
<1> SUFFICES ASSUME CellInit PROVE BilledSoFar /\ OneModelSoFar
  OBVIOUS
<1>1. wire = << >> /\ turns = << >>
  BY DEF CellInit
<1>2. Generations = {}
  BY <1>1 DEF Generations
<1>3. PICK f : BilledUpTo(<< >>, f) /\ Bill(<< >>) = f[0]
  BY BillIsAFold, << >> \in Seq(TurnRecords), DOMAIN << >> = {}, Len(<< >>) = 0
<1>4. PICK g : ChargedUpTo(<< >>, g) /\ Charged(<< >>) = g[0]
  BY ChargeIsAFold, << >> \in Seq(Sends), DOMAIN << >> = {}, Len(<< >>) = 0
<1>5. Bill(<< >>) = 0 /\ Charged(<< >>) = 0
  BY <1>3, <1>4 DEF BilledUpTo, ChargedUpTo
<1>6. Cardinality(Generations) = 0
  BY <1>2, FS_EmptySet
<1> QED BY <1>1, <1>2, <1>5, <1>6 DEF BilledSoFar, OneModelSoFar

LEMMA CostStep ==
  ASSUME RecordsTyped, BilledSoFar, OneModelSoFar, Quiet \/ Resent \/ Recorded
  PROVE  BilledSoFar' /\ OneModelSoFar'
<1>1. CASE Quiet
  BY <1>1 DEF Quiet, BilledSoFar, OneModelSoFar, Generations
<1> QED BY <1>1, ResentCosts, RecordedCosts

LEMMA CostInvariant == CellSpec => [](CellInv /\ BilledSoFar /\ OneModelSoFar)
<1> DEFINE Inv == CellInv /\ BilledSoFar /\ OneModelSoFar
<1>1. CellInit => Inv
  BY CellStarts, BudgetStarts, RecordStarts DEF CellInv
<1>2. Inv /\ [CellNext]_cellVars => Inv'
  BY CellStepIsSessionStep, CallsStep, TypeStep, CellStepRecords, RecordsStep, BudgetStep, CostStep
     DEF CellInv
<1> QED BY <1>1, <1>2, PTL DEF CellSpec

(* A bill that is stated is the whole bill: every generation that reached   *)
(* us, refused and unreadable ones included, said what it cost, and the     *)
(* total is their sum.                                                      *)
THEOREM BillsAreWhole == CellSpec => []StatedBillIsWhole
<1>1. BilledSoFar => StatedBillIsWhole
  BY DEF BilledSoFar, StatedBillIsWhole, ProviderReported, FoldReportedUsage
<1> QED BY <1>1, CostInvariant, PTL

(* A cell that may be compared with another arm was answered by the model   *)
(* it asked for at every turn, and no turn failed.                          *)
THEOREM ComparableCellsHadOneModel == CellSpec => []ComparableMeansOneModel
<1>1. OneModelSoFar => ComparableMeansOneModel
  <2> SUFFICES ASSUME OneModelSoFar, Comparable
               PROVE  /\ \A i \in Generations : wire[i].model = RequestedModel
                      /\ Cardinality(Generations) = Len(turns)
    BY DEF ComparableMeansOneModel
  <2>1. "drifted" \notin Statuses /\ "missing" \notin Statuses
    BY DEF Comparable, ModelStatus
  <2>2. ASSUME NEW i \in DOMAIN turns PROVE StatusOf(turns[i].model) = "verified"
    <3>1. StatusOf(turns[i].model) \in Statuses
      BY DEF Statuses
    <3> QED BY <2>1, <3>1 DEF StatusOf
  <2> QED BY <2>2 DEF OneModelSoFar
<1> QED BY <1>1, CostInvariant, PTL

-----------------------------------------------------------------------------
(* The dialogue. *)

(* A reply of operations only, as classify_forced sees one.                 *)
OperationsOnly(said) == said # << >> /\ \A k \in DOMAIN said : ~IsAnswer(said[k])

LEMMA OperationsClassified ==
  ASSUME NEW said
  PROVE  Classify(said) = "operations" <=> OperationsOnly(said)
<1> DEFINE answers == {i \in DOMAIN said : IsAnswer(said[i])}
<1>1. answers = {} <=> \A k \in DOMAIN said : ~IsAnswer(said[k])
  OBVIOUS
<1> HIDE DEF answers
<1>2. Classify(said) = "operations" <=> said # << >> /\ answers = {}
  BY DEF Classify, answers
<1> QED BY <1>1, <1>2 DEF OperationsOnly

(* A reply classified as an answer is one call.                             *)
LEMMA AnswerIsAlone ==
  ASSUME NEW S, NEW said \in Seq(S), Classify(said) = "answer"
  PROVE  Len(said) = 1
<1> DEFINE answers == {i \in DOMAIN said : IsAnswer(said[i])}
<1>1. said # << >> /\ answers = DOMAIN said /\ ~(Cardinality(answers) > 1)
  BY DEF Classify
<1>2. Len(said) \in Nat /\ Len(said) # 0 /\ DOMAIN said = 1..Len(said)
  BY <1>1
<1>3. Cardinality(1..Len(said)) = Len(said)
  <2>1. 1 \in Int /\ Len(said) \in Int /\ ~(1 > Len(said)) /\ Len(said) - 1 + 1 = Len(said)
    BY <1>2
  <2>2. Cardinality(1..Len(said)) = IF 1 > Len(said) THEN 0 ELSE Len(said) - 1 + 1
    BY <2>1, FS_Interval, Zenon
  <2> QED BY <2>1, <2>2
<1> HIDE DEF answers
<1> QED BY <1>1, <1>2, <1>3

LEMMA SaidIsASequence ==
  ASSUME NEW said \in Said
  PROVE  said \in Seq(AnyCalls) /\ Len(said) \in 0..CallsPerReply
<1>1. PICK n \in 0..CallsPerReply : said \in [1..n -> AnyCalls]
  BY DEF Said
<1>2. n \in Nat
  BY <1>1, BudgetsAssumption
<1> QED BY <1>1, <1>2

(* What a step of the cell adds to the session's transcript.                *)
Unheard == UNCHANGED <<transcript, sequence>>
Opened == transcript' = Append(transcript, [event |-> "metadata"]) /\ UNCHANGED sequence
Heard(e) == /\ transcript' = Append(transcript, e)
            /\ sequence' = sequence + 1

LEMMA NoAnswerYet ==
  ASSUME TypeOK, Event("final_answer") = {},
         \/ Unheard \/ Opened
         \/ \E e : Heard(e) /\ e.event # "final_answer"
  PROVE  Event("final_answer")' = {}
<1>1. CASE Unheard
  BY <1>1 DEF Unheard, Event
<1>2. ASSUME NEW e, transcript' = Append(transcript, e), e.event # "final_answer"
      PROVE  Event("final_answer")' = {}
  <2>1. /\ DOMAIN transcript' = DOMAIN transcript \cup {Len(transcript) + 1}
        /\ \A i \in DOMAIN transcript : transcript'[i] = transcript[i]
        /\ transcript'[Len(transcript) + 1] = e
    BY <1>2, AppendKeeps DEF TypeOK
  <2> QED BY <1>2, <2>1 DEF Event
<1>3. CASE Opened
  <2>1. [event |-> "metadata"].event # "final_answer"
    OBVIOUS
  <2> QED BY <1>2, <1>3, <2>1 DEF Opened
<1> QED BY <1>1, <1>2, <1>3 DEF Heard

LEMMA FirstAnswer ==
  ASSUME TypeOK, Event("final_answer") = {}, NEW e, Heard(e), e.event = "final_answer"
  PROVE  Event("final_answer")' = {Len(transcript) + 1} /\ Cardinality(Event("final_answer")') = 1
<1>1. /\ DOMAIN transcript' = DOMAIN transcript \cup {Len(transcript) + 1}
      /\ \A i \in DOMAIN transcript : transcript'[i] = transcript[i]
      /\ transcript'[Len(transcript) + 1] = e
  BY AppendKeeps DEF TypeOK, Heard
<1>2. Event("final_answer")' = {Len(transcript) + 1}
  BY <1>1 DEF Event
<1> QED BY <1>2, FS_Singleton

(* The five kinds of step, with all they do to the dialogue.                *)
Orderly(ts) == \A i \in DOMAIN ts : OperationsOnly(ts[i].calls)
SaysNothing == phase = "send" /\ Unheard /\ UNCHANGED <<turns, calls>> /\ phase' = "send"
GoesOn == /\ phase' # "done"
          /\ \/ phase = "begin" /\ Opened /\ calls' = calls
             \/ phase = "dispatch" /\ calls = << >> /\ Unheard /\ calls' = calls
          /\ turns' = turns /\ outcome' = outcome
CarriesOut == /\ phase = "dispatch" /\ phase' = "dispatch" /\ calls # << >>
              /\ calls' = Tail(calls)
              /\ UNCHANGED <<turns, outcome>>
              /\ \/ Head(calls).tool \notin {"query", "materialize"} /\ Unheard
                 \/ /\ Head(calls).tool \in {"query", "materialize"}
                    /\ \E e : Heard(e) /\ e.event # "final_answer"
Accepts(t) == /\ phase = "send" /\ phase' = "dispatch" /\ outcome' = outcome
              /\ turns' = Append(turns, t) /\ t \in TurnRecords
              /\ Classify(t.calls) = "operations"
              /\ calls' = t.calls
              /\ Unheard
Fails == /\ outcome'.kind \notin {"answered", "query-path-failed"}
         /\ phase # "done" /\ phase' = "done"
         /\ calls' = calls
         /\ Unheard
         /\ \/ turns' = turns
            \/ \E t \in TurnRecords : /\ turns' = Append(turns, t)
                                      /\ Classify(t.calls) # "operations"
Concluded(t) == /\ phase = "send" /\ phase' = "done"
               /\ outcome'.kind \in {"answered", "query-path-failed"}
               /\ turns' = Append(turns, t) /\ t \in TurnRecords
               /\ Classify(t.calls) = "answer"
               /\ calls' = calls
               /\ \E e : Heard(e) /\ e.event = "final_answer"
Steps == \/ SaysNothing /\ outcome' = outcome
         \/ GoesOn
         \/ CarriesOut
         \/ \E t : Accepts(t)
         \/ Fails
         \/ \E t : Concluded(t)
         \/ UNCHANGED <<phase, outcome, turns, calls, transcript, sequence>>

LEMMA NoCallsIsNoOperation == Classify(<< >>) # "operations"
BY DEF Classify

LEMMA RecordedTurn ==
  ASSUME RecordsTyped, NEW kind, NEW crossing, NEW usage, NEW model, NEW said,
         NEW charged, NEW named, TurnEnds(kind, crossing, usage, model, said, charged, named)
  PROVE  \E t \in TurnRecords : turns' = Append(turns, t) /\ t.calls = said
<1> DEFINE t == [crossing |-> crossing, attempts |-> Append(attempts, kind), usage |-> usage,
                 model |-> model, calls |-> said]
<1>1. /\ kind \in Kinds /\ usage \in Counters
      /\ model \in Models /\ crossing \in Crossings /\ said \in Said
  BY DEF TurnEnds, Honest, Counters, Models
<1>2. Append(attempts, kind) \in Seq(Kinds)
  BY <1>1 DEF RecordsTyped
<1>3. t \in TurnRecords
  BY <1>1, <1>2 DEF TurnRecords
<1>4. turns' = Append(turns, t)
  BY DEF TurnEnds, RecordTurn
<1> QED BY <1>3, <1>4

LEMMA UndeliveredFails == RecordsTyped /\ Undelivered => Fails
<1> SUFFICES ASSUME RecordsTyped, Undelivered PROVE Fails
  OBVIOUS
<1>1. Honest("transport-error", Unknown, NoModel, 0, NoModel)
  BY DEF Honest, Kinds, Counters, Models
<1>2. TurnEnds("transport-error", "transport-failed", Unknown, NoModel, << >>, 0, NoModel)
  BY <1>1, NothingIsSaid DEF Undelivered, TurnEnds, Lost, Sent, SentAs, Crossings
<1>3. PICK t \in TurnRecords : turns' = Append(turns, t) /\ t.calls = << >>
  BY <1>2, RecordedTurn
<1>4. Classify(t.calls) # "operations"
  BY <1>3, NoCallsIsNoOperation
<1> QED BY <1>3, <1>4 DEF Undelivered, CrossingFailed, Finish, vars, Unheard, Fails

LEMMA CaptureFails ==
  ASSUME RecordsTyped, NEW env \in Envelopes, CaptureFailed(env) \/ Unusable(env)
  PROVE  Fails
<1>1. CASE CaptureFailed(env)
  <2>1. Honest("response-capture-failed", Unknown, NoModel, env.usage, env.model)
    BY EnvelopeShape DEF Honest, Kinds, Counters
  <2>2. TurnEnds("response-capture-failed", "response-capture-failed", Unknown, NoModel, << >>,
                 env.usage, env.model)
    BY <1>1, <2>1, NothingIsSaid DEF CaptureFailed, TurnEnds, Reached, Sent, SentAs, Crossings
  <2>3. PICK t \in TurnRecords : turns' = Append(turns, t) /\ t.calls = << >>
    BY <2>2, RecordedTurn
  <2>4. Classify(t.calls) # "operations"
    BY <2>3, NoCallsIsNoOperation
  <2> QED BY <1>1, <2>3, <2>4 DEF CaptureFailed, CrossingFailed, Finish, vars, Unheard, Fails
<1>2. CASE Unusable(env)
  <2> DEFINE usage == ReportedUsage(Crossing(env), env)
  <2>1. Honest("response", usage, NoModel, env.usage, env.model)
    BY EnvelopeShape DEF Honest, Kinds, Counters, ReportedUsage
  <2>2. Crossing(env) \in Crossings
    BY DEF Crossing, Crossings
  <2>3. TurnEnds("response", Crossing(env), usage, NoModel, << >>, env.usage, env.model)
    BY <1>2, <2>1, <2>2, NothingIsSaid DEF Unusable, TurnEnds, Reached, Sent, SentAs
  <2> HIDE DEF usage
  <2>4. PICK t \in TurnRecords : turns' = Append(turns, t) /\ t.calls = << >>
    BY <2>3, RecordedTurn
  <2>5. Classify(t.calls) # "operations"
    BY <2>4, NoCallsIsNoOperation
  <2> QED BY <1>2, <2>4, <2>5 DEF Unusable, CrossingFailed, Finish, vars, Unheard, Fails
<1> QED BY <1>1, <1>2

LEMMA CellStepSteps ==
  ASSUME TypeOK, RecordsTyped, [CellNext]_cellVars
  PROVE  Steps
<1>1. CASE Begin
  BY <1>1 DEF Begin, Metadata, Opened, GoesOn, Steps
<1>2. CASE Retry
  BY <1>2 DEF Retry, vars, Unheard, SaysNothing, Steps
<1>3. CASE Undelivered
  BY <1>3, UndeliveredFails DEF Steps
<1>4. ASSUME NEW env \in Envelopes, CaptureFailed(env) \/ Unusable(env) PROVE Steps
  BY <1>4, CaptureFails DEF Steps
<1>5. ASSUME NEW env \in Envelopes, NEW reply \in Replies, Completed(env, reply)
      PROVE  \E t \in TurnRecords : turns' = Append(turns, t) /\ t.calls = reply
  BY <1>5, CompletedEnds, RecordedTurn
<1>6. ASSUME NEW env \in Envelopes, NEW reply \in Replies,
             Violates(env, reply) \/ AnswersBadly(env, reply)
      PROVE  Steps
  <2>1. PICK t \in TurnRecords : turns' = Append(turns, t) /\ t.calls = reply
    BY <1>5, <1>6 DEF Violates, AnswersBadly
  <2>2. Classify(t.calls) # "operations"
    BY <1>6, <2>1 DEF Violates, AnswersBadly
  <2>3. phase = "send" /\ phase' = "done" /\ Unheard /\ calls' = calls
    BY <1>6 DEF Violates, AnswersBadly, Completed, Violation, Finish, vars, Unheard
  <2>4. outcome'.kind \notin {"answered", "query-path-failed"}
    BY <1>6 DEF Violates, AnswersBadly, Violation, Finish
  <2> QED BY <2>1, <2>2, <2>3, <2>4 DEF Fails, Steps
<1>7. ASSUME NEW env \in Envelopes, NEW reply \in Replies, Concludes(env, reply)
      PROVE  Steps
  <2>1. PICK t \in TurnRecords : turns' = Append(turns, t) /\ t.calls = reply
    BY <1>5, <1>7 DEF Concludes
  <2>2. Classify(t.calls) = "answer" /\ phase = "send" /\ phase' = "done" /\ calls' = calls
    BY <1>7, <2>1 DEF Concludes, Completed, Finish
  <2>3. outcome'.kind \in {"answered", "query-path-failed"}
    BY <1>7 DEF Concludes, Finish, Graded
  <2>4. \E e : Heard(e) /\ e.event = "final_answer"
    <3> DEFINE a == TheAnswer(reply)
               e == [event |-> "final_answer", sequence |-> sequence, handle |-> a.handle,
                     answer |-> a.answer, cited |-> a.cited,
                     verdict |-> Verify(issued, Store, a.handle, a.answer, a.cited)]
    <3>1. Heard(e)
      BY <1>7 DEF Concludes, Answer, Called, Heard
    <3>2. e.event = "final_answer"
      OBVIOUS
    <3> HIDE DEF e
    <3> QED BY <3>1, <3>2
  <2>5. Concluded(t)
    BY <2>1, <2>2, <2>3, <2>4 DEF Concluded
  <2> QED BY <2>5 DEF Steps
<1>8. ASSUME NEW env \in Envelopes, NEW reply \in Replies, Operates(env, reply)
      PROVE  Steps
  <2>1. PICK t \in TurnRecords : turns' = Append(turns, t) /\ t.calls = reply
    BY <1>5, <1>8 DEF Operates
  <2>2. Accepts(t)
    BY <1>8, <2>1 DEF Operates, Completed, vars, Unheard, Accepts
  <2> QED BY <2>2 DEF Steps
<1>9. CASE DispatchUnknown \/ DispatchMalformed
  BY <1>9 DEF DispatchUnknown, DispatchMalformed, Dispatching, vars, Unheard, CarriesOut, Steps
<1>10. CASE DispatchQuery \/ DispatchRead
  <2>1. /\ phase = "dispatch" /\ phase' = "dispatch" /\ calls # << >>
        /\ calls' = Tail(calls) /\ UNCHANGED <<turns, outcome>>
        /\ Head(calls).tool \in {"query", "materialize"}
    BY <1>10 DEF DispatchQuery, DispatchRead, Dispatching
  <2>2. ASSUME NEW q, QueryRefused(q) PROVE \E e : Heard(e) /\ e.event # "final_answer"
    BY <2>2 DEF QueryRefused, Called, Heard
  <2>3. ASSUME NEW q, QueryIssued(q) PROVE \E e : Heard(e) /\ e.event # "final_answer"
    <3> DEFINE r == Results[q]
               e == [event |-> "query_result", sequence |-> sequence, query |-> q,
                     handle |-> r.id, count |-> Cardinality(r.result),
                     completion |-> r.completion, support |-> SupportOf(r)]
    <3>1. Heard(e)
      BY <2>3 DEF QueryIssued, Called, Heard
    <3>2. e.event # "final_answer"
      OBVIOUS
    <3> HIDE DEF e
    <3> QED BY <3>1, <3>2
  <2>4. ASSUME NEW h, NEW ids, Materialize(h, ids)
        PROVE  \E e : Heard(e) /\ e.event # "final_answer"
    <3> DEFINE e == [event |-> IF Readable(h, ids) THEN "read" ELSE "read_refused",
                     sequence |-> sequence, handle |-> h, ids |-> ids]
    <3>1. Heard(e)
      BY <2>4 DEF Materialize, Called, Heard
    <3>2. e.event # "final_answer"
      OBVIOUS
    <3> HIDE DEF e
    <3> QED BY <3>1, <3>2
  <2>5. \E e : Heard(e) /\ e.event # "final_answer"
    BY <1>10, <2>2, <2>3, <2>4 DEF DispatchQuery, DispatchRead
  <2> QED BY <2>1, <2>5 DEF CarriesOut, Steps
<1>11. CASE NextTurn
  BY <1>11 DEF NextTurn, EndOfReply, vars, Unheard, GoesOn, Steps
<1>12. CASE BudgetExhausted
  BY <1>12 DEF BudgetExhausted, EndOfReply, Finish, vars, Unheard, Fails, Steps
<1>13. CASE UNCHANGED cellVars
  BY <1>13 DEF cellVars, cell, vars, Steps
<1> QED BY <1>1, <1>2, <1>3, <1>4, <1>6, <1>7, <1>8, <1>9, <1>10, <1>11, <1>12, <1>13 DEF CellNext

(* A cell that is not done has heard operations only, and no answer.        *)
Conversing == phase # "done" => Orderly(turns) /\ Event("final_answer") = {}
(* Calls wait to be dispatched only while a reply is being dispatched.      *)
NoneWaiting == phase \in {"begin", "send"} => calls = << >>

LEMMA OneTurnMoreRecorded ==
  ASSUME RecordsTyped, NEW t \in TurnRecords, turns' = Append(turns, t)
  PROVE  /\ Len(turns') = Len(turns) + 1 /\ Len(turns) \in Nat
         /\ DOMAIN turns' = DOMAIN turns \cup {Len(turns) + 1}
         /\ \A i \in DOMAIN turns : turns'[i] = turns[i]
         /\ turns'[Len(turns')] = t
         /\ DOMAIN turns = 1..Len(turns)
BY DEF RecordsTyped

LEMMA ConversingStep ==
  ASSUME TypeOK, RecordsTyped, Conversing, Steps
  PROVE  Conversing'
<1>1. CASE SaysNothing
  BY <1>1 DEF SaysNothing, Conversing, Orderly, Unheard, Event
<1>2. CASE GoesOn
  <2>1. Event("final_answer")' = {}
    BY <1>2, NoAnswerYet DEF GoesOn, Conversing
  <2>2. Orderly(turns')
    BY <1>2 DEF GoesOn, Conversing
  <2> QED BY <2>1, <2>2 DEF Conversing
<1>3. CASE CarriesOut
  <2>1. Event("final_answer")' = {}
    BY <1>3, NoAnswerYet DEF CarriesOut, Conversing
  <2>2. Orderly(turns')
    BY <1>3 DEF CarriesOut, Conversing
  <2> QED BY <2>1, <2>2 DEF Conversing
<1>4. ASSUME NEW t, Accepts(t) PROVE Conversing'
  <2>1. Event("final_answer")' = {}
    BY <1>4, NoAnswerYet DEF Accepts, Conversing
  <2>2. OperationsOnly(t.calls)
    BY <1>4, OperationsClassified DEF Accepts
  <2>3. Orderly(turns)
    BY <1>4 DEF Accepts, Conversing
  <2>4. Orderly(turns')
    BY <1>4, <2>2, <2>3, OneTurnMoreRecorded DEF Accepts, Orderly
  <2> QED BY <2>1, <2>4 DEF Conversing
<1>5. CASE Fails \/ \E t : Concluded(t)
  BY <1>5 DEF Fails, Concluded, Conversing
<1>6. CASE UNCHANGED <<phase, outcome, turns, calls, transcript, sequence>>
  BY <1>6 DEF Conversing, Orderly, Event
<1> QED BY <1>1, <1>2, <1>3, <1>4, <1>5, <1>6 DEF Steps

LEMMA OneAnswerStep ==
  ASSUME TypeOK, RecordsTyped, Budgeted, Budgeted', Conversing, Conversing',
         OneAnswerAfterOperations, Steps
  PROVE  OneAnswerAfterOperations'
<1>1. CASE phase' # "done"
  <2>1. outcome' = Unfinished
    BY <1>1 DEF Budgeted
  <2>2. ~Ended({"answered", "query-path-failed"})'
    BY <2>1 DEF Ended, Unfinished
  <2>3. Event("final_answer")' = {}
    BY <1>1 DEF Conversing
  <2> QED BY <2>2, <2>3 DEF OneAnswerAfterOperations
<1>2. CASE Fails
  <2>1. Event("final_answer")' = {}
    BY <1>2, NoAnswerYet DEF Fails, Conversing
  <2>2. ~Ended({"answered", "query-path-failed"})'
    BY <1>2 DEF Fails, Ended
  <2> QED BY <2>1, <2>2 DEF OneAnswerAfterOperations
<1>3. ASSUME NEW t, Concluded(t) PROVE OneAnswerAfterOperations'
  <2>1. /\ Len(turns') = Len(turns) + 1 /\ Len(turns) \in Nat
        /\ \A i \in DOMAIN turns : turns'[i] = turns[i]
        /\ turns'[Len(turns')] = t
        /\ DOMAIN turns = 1..Len(turns)
    BY <1>3, OneTurnMoreRecorded DEF Concluded
  <2>2. t.calls \in Said /\ Classify(t.calls) = "answer"
    BY <1>3 DEF Concluded, TurnRecords
  <2>3. Len(t.calls) = 1
    BY <2>2, SaidIsASequence, AnswerIsAlone
  <2>4. Event("final_answer") = {} /\ Orderly(turns)
    BY <1>3 DEF Concluded, Conversing
  <2>5. Cardinality(Event("final_answer")') = 1
    BY <1>3, <2>4, FirstAnswer DEF Concluded
  <2>6. ASSUME NEW i \in 1..Len(turns') - 1 PROVE OperationsOnly(turns'[i].calls)
    <3>1. i \in DOMAIN turns
      BY <2>1
    <3>2. turns'[i] = turns[i]
      BY <2>1, <3>1
    <3> QED BY <2>4, <3>1, <3>2 DEF Orderly
  <2>7. Ended({"answered", "query-path-failed"})'
    BY <1>3 DEF Concluded, Ended
  <2> QED BY <2>1, <2>3, <2>5, <2>6, <2>7 DEF OneAnswerAfterOperations, OperationsOnly
<1>4. CASE phase' = "done" /\ UNCHANGED <<phase, outcome, turns, calls, transcript, sequence>>
  BY <1>4 DEF OneAnswerAfterOperations, Ended, Event
<1>5. CarriesOut \/ GoesOn \/ SaysNothing \/ (\E t : Accepts(t)) => phase' # "done"
  BY DEF CarriesOut, GoesOn, SaysNothing, Accepts
<1> QED BY <1>1, <1>2, <1>3, <1>4, <1>5 DEF Steps

LEMMA NoneWaitingStep ==
  ASSUME NoneWaiting, Budgeted, Steps
  PROVE  NoneWaiting'
BY DEF NoneWaiting, Steps, SaysNothing, GoesOn, CarriesOut, Accepts, Fails, Concluded

LEMMA DialogueInvariant ==
  CellSpec => [](CellInv /\ Conversing /\ NoneWaiting /\ OneAnswerAfterOperations)
<1> DEFINE Inv == CellInv /\ Conversing /\ NoneWaiting /\ OneAnswerAfterOperations
<1>1. CellInit => Inv
  <2> SUFFICES ASSUME CellInit PROVE Inv
    OBVIOUS
  <2>1. transcript = << >> /\ turns = << >> /\ calls = << >> /\ outcome = Unfinished
    BY DEF CellInit, Init
  <2>2. Event("final_answer") = {}
    BY <2>1 DEF Event
  <2>3. Conversing /\ NoneWaiting
    BY <2>1, <2>2 DEF Conversing, Orderly, NoneWaiting
  <2>4. OneAnswerAfterOperations
    BY <2>1, <2>2 DEF OneAnswerAfterOperations, Ended, Unfinished
  <2> QED BY <2>3, <2>4, CellStarts, BudgetStarts DEF CellInv
<1>2. Inv /\ [CellNext]_cellVars => Inv'
  <2> SUFFICES ASSUME Inv, [CellNext]_cellVars PROVE Inv'
    OBVIOUS
  <2>1. CellInv'
    BY CellStepIsSessionStep, CallsStep, TypeStep, CellStepRecords, RecordsStep, BudgetStep
       DEF CellInv
  <2>2. Steps
    BY CellStepSteps DEF CellInv
  <2>3. Conversing'
    BY <2>2, ConversingStep DEF CellInv
  <2>4. OneAnswerAfterOperations'
    BY <2>1, <2>2, <2>3, OneAnswerStep DEF CellInv
  <2>5. NoneWaiting'
    BY <2>2, NoneWaitingStep DEF CellInv
  <2> QED BY <2>1, <2>3, <2>4, <2>5
<1> QED BY <1>1, <1>2, PTL DEF CellSpec

(* An answer was the only call of the last reply, every earlier reply was   *)
(* operations only, and the session judged one answer exactly in the cells  *)
(* that ended so.                                                           *)
THEOREM OneAnswerEndsACell == CellSpec => []OneAnswerAfterOperations
BY DialogueInvariant, PTL

-----------------------------------------------------------------------------
(* The count of operations. *)
LEMMA ReadableOfSaid ==
  ASSUME NEW said \in Said
  PROVE  Readables(said) \subseteq 1..CallsPerReply
BY SaidIsASequence, BudgetsAssumption DEF Readables

LEMMA ReadablesCounted ==
  ASSUME NEW S, NEW s \in Seq(S)
  PROVE  IsFiniteSet(Readables(s)) /\ Cardinality(Readables(s)) \in Nat
<1>1. Readables(s) \subseteq 1..Len(s) /\ 1 \in Int /\ Len(s) \in Int
  BY DEF Readables
<1>2. IsFiniteSet(1..Len(s))
  BY <1>1, FS_Interval, Zenon
<1> QED BY <1>1, <1>2, FS_Subset, FS_CardinalityType

(* Dispatching the first call leaves the others, one place forward.         *)
LEMMA TailIsReadable ==
  ASSUME NEW S, NEW s \in Seq(S), s # << >>
  PROVE  /\ Head(s).tool \in {"query", "materialize"} =>
              Cardinality(Readables(s)) = Cardinality(Readables(Tail(s))) + 1
         /\ Head(s).tool \notin {"query", "materialize"} =>
              Cardinality(Readables(s)) = Cardinality(Readables(Tail(s)))
<1> DEFINE R == Readables(Tail(s))
           Rest == {i \in Readables(s) : i # 1}
           f == [i \in R |-> i + 1]
<1>1. /\ Tail(s) \in Seq(S) /\ Len(Tail(s)) = Len(s) - 1 /\ Len(s) \in Nat /\ Len(s) >= 1
      /\ DOMAIN s = 1..Len(s) /\ DOMAIN Tail(s) = 1..(Len(s) - 1) /\ Head(s) = s[1]
      /\ \A i \in 1..(Len(s) - 1) : Tail(s)[i] = s[i + 1]
  OBVIOUS
<1>2. IsFiniteSet(R) /\ Cardinality(R) \in Nat
  BY <1>1, ReadablesCounted
<1>3. ASSUME NEW i \in R PROVE i \in Nat /\ i + 1 \in Rest
  <2>1. i \in 1..(Len(s) - 1) /\ s[i + 1].tool \in {"query", "materialize"}
    BY <1>1 DEF Readables
  <2> QED BY <1>1, <2>1 DEF Readables
<1>4. ASSUME NEW j \in Rest PROVE j \in Nat /\ j - 1 \in R
  <2>1. j \in 1..Len(s) /\ j # 1 /\ s[j].tool \in {"query", "materialize"}
    BY <1>1 DEF Readables
  <2> DEFINE i == j - 1
  <2>2. i \in 1..(Len(s) - 1) /\ i + 1 = j
    BY <1>1, <2>1
  <2> HIDE DEF i
  <2>3. i \in R
    BY <1>1, <2>1, <2>2 DEF Readables
  <2> QED BY <2>1, <2>3 DEF i
<1> HIDE DEF R, Rest
<1>5. f \in Bijection(R, Rest)
  <2>1. f \in [R -> Rest]
    BY <1>3
  <2>2. \A a, b \in R : f[a] = f[b] => a = b
    BY <1>3
  <2>3. ASSUME NEW j \in Rest PROVE \E i \in R : f[i] = j
    <3>1. j - 1 \in R /\ f[j - 1] = j
      BY <1>4
    <3> QED BY <3>1
  <2> QED BY <2>1, <2>2, <2>3 DEF Bijection, Injection, IsInjective, Surjection
<1>6. IsFiniteSet(Rest) /\ Cardinality(Rest) = Cardinality(R)
  BY <1>2, <1>5, FS_Bijection DEF ExistsBijection
<1>7. CASE Head(s).tool \in {"query", "materialize"}
  <2>1. Readables(s) = Rest \cup {1} /\ 1 \notin Rest
    BY <1>1, <1>7 DEF Readables, Rest
  <2>2. Cardinality(Rest \cup {1}) = Cardinality(Rest) + 1
    BY <1>6, <2>1, FS_AddElement
  <2> QED BY <1>6, <1>7, <2>1, <2>2 DEF R
<1>8. CASE Head(s).tool \notin {"query", "materialize"}
  <2>1. Readables(s) = Rest
    BY <1>1, <1>8 DEF Readables, Rest
  <2> QED BY <1>6, <1>8, <2>1 DEF R
<1> QED BY <1>7, <1>8

(* The operations of a turn are added to those of the turns before.         *)
LEMMA DispatchedAppends ==
  ASSUME NEW ts \in Seq(TurnRecords), NEW t \in TurnRecords
  PROVE  /\ Dispatched(ts) \in Nat
         /\ Classify(t.calls) = "operations" =>
              Dispatched(Append(ts, t)) = Dispatched(ts) + Cardinality(Readables(t.calls))
         /\ Classify(t.calls) # "operations" => Dispatched(Append(ts, t)) = Dispatched(ts)
<1> DEFINE At(us) == {at \in (DOMAIN us) \X (1..CallsPerReply) :
                        LET said == us[at[1]].calls IN
                        Classify(said) = "operations" /\ at[2] \in Readables(said)}
           us == Append(ts, t)
           last == Len(ts) + 1
           R == Readables(t.calls)
           Old == At(ts)
           New == At(us)
<1>1. /\ DOMAIN us = DOMAIN ts \cup {last} /\ us[last] = t
      /\ \A i \in DOMAIN ts : us[i] = ts[i] /\ i # last
      /\ DOMAIN ts = 1..Len(ts) /\ Len(ts) \in Nat
  OBVIOUS
<1>2. t.calls \in Said
  BY DEF TurnRecords
<1>3. R \subseteq 1..CallsPerReply /\ IsFiniteSet(R) /\ Cardinality(R) \in Nat
  BY <1>2, ReadableOfSaid, SaidIsASequence, ReadablesCounted
<1>4. IsFiniteSet(Old) /\ Cardinality(Old) \in Nat
  <2>1. /\ 1 \in Int /\ Len(ts) \in Int /\ CallsPerReply \in Int
    BY <1>1, BudgetsAssumption
  <2>2. IsFiniteSet(1..Len(ts)) /\ IsFiniteSet(1..CallsPerReply)
    BY <2>1, FS_Interval, Zenon
  <2>3. IsFiniteSet((DOMAIN ts) \X (1..CallsPerReply))
    BY <1>1, <2>2, FS_Product
  <2>4. Old \subseteq (DOMAIN ts) \X (1..CallsPerReply)
    OBVIOUS
  <2> HIDE DEF Old
  <2> QED BY <2>3, <2>4, FS_Subset, FS_CardinalityType
<1>5. Dispatched(ts) = Cardinality(Old) /\ Dispatched(us) = Cardinality(New)
  BY DEF Dispatched
<1> HIDE DEF us, last
<1>6. ASSUME Classify(t.calls) # "operations" PROVE New = Old
  BY <1>1, <1>6
<1>7. ASSUME Classify(t.calls) = "operations"
      PROVE  Cardinality(New) = Cardinality(Old) + Cardinality(R)
  <2> DEFINE Mine == {last} \X R
  <2>1. New = Old \cup Mine
    BY <1>1, <1>3, <1>7
  <2>2. Old \cap Mine = {}
    BY <1>1
  <2>3. IsFiniteSet({last}) /\ Cardinality({last}) = 1
    BY FS_Singleton
  <2>4. IsFiniteSet(Mine) /\ Cardinality(Mine) = 1 * Cardinality(R)
    BY <1>3, <2>3, FS_Product
  <2> HIDE DEF Old, New, Mine, R
  <2>5. Cardinality(Old \cup Mine) = Cardinality(Old) + Cardinality(Mine) - Cardinality(Old \cap Mine)
    BY <1>4, <2>4, FS_Union
  <2>6. Cardinality(Old \cap Mine) = 0
    BY <2>2, FS_EmptySet
  <2> QED BY <1>3, <1>4, <2>1, <2>4, <2>5, <2>6
<1> HIDE DEF Old, New, R
<1> QED BY <1>4, <1>5, <1>6, <1>7 DEF us, R

LEMMA CountStep ==
  ASSUME TypeOK, RecordsTyped, CallsNamed, Conversing, Conversing', NoneWaiting,
         EveryOperationIsOnTheTranscript, Steps
  PROVE  EveryOperationIsOnTheTranscript'
<1> DEFINE F == Cardinality(Event("final_answer"))
<1>0. /\ calls \in Seq(CallsNow) /\ turns \in Seq(TurnRecords) /\ sequence \in Nat
      /\ Cardinality(Readables(calls)) \in Nat
  <2>1. calls \in Seq(CallsNow)
    BY DEF CallsNamed
  <2> QED BY <2>1, ReadablesCounted DEF RecordsTyped, TypeOK
<1>1. CASE SaysNothing \/ UNCHANGED <<phase, outcome, turns, calls, transcript, sequence>>
  BY <1>1 DEF SaysNothing, Unheard, EveryOperationIsOnTheTranscript, Event
<1>2. ASSUME phase # "done", phase' # "done" PROVE F = F'
  BY <1>2 DEF Conversing
<1>3. CASE GoesOn
  BY <1>2, <1>3 DEF GoesOn, Opened, Unheard, EveryOperationIsOnTheTranscript
<1>4. CASE CarriesOut
  <2>1. CASE Head(calls).tool \in {"query", "materialize"}
    <3>1. sequence' = sequence + 1
      BY <1>4, <2>1 DEF CarriesOut, Heard
    <3>2. Cardinality(Readables(calls)) = Cardinality(Readables(calls')) + 1
      BY <1>0, <1>4, <2>1, TailIsReadable DEF CarriesOut
    <3>3. Cardinality(Readables(calls')) \in Nat
      <4>1. calls' \in Seq(CallsNow)
        BY <1>0, <1>4 DEF CarriesOut
      <4> QED BY <4>1, ReadablesCounted
    <3> QED BY <1>0, <1>2, <1>4, <3>1, <3>2, <3>3 DEF CarriesOut, EveryOperationIsOnTheTranscript
  <2>2. CASE Head(calls).tool \notin {"query", "materialize"}
    <3>1. sequence' = sequence
      BY <1>4, <2>2 DEF CarriesOut, Unheard
    <3>2. Cardinality(Readables(calls)) = Cardinality(Readables(calls'))
      BY <1>0, <1>4, <2>2, TailIsReadable DEF CarriesOut
    <3> QED BY <1>2, <1>4, <3>1, <3>2 DEF CarriesOut, EveryOperationIsOnTheTranscript
  <2> QED BY <2>1, <2>2
<1>5. Readables(<< >>) = {} /\ Cardinality({}) = 0
  BY FS_EmptySet DEF Readables
<1>6. ASSUME NEW t, Accepts(t) PROVE EveryOperationIsOnTheTranscript'
  <2>1. Cardinality(Readables(calls)) = 0
    BY <1>5, <1>6 DEF Accepts, NoneWaiting
  <2>2. /\ Dispatched(turns) \in Nat
        /\ Dispatched(turns') = Dispatched(turns) + Cardinality(Readables(calls'))
    BY <1>0, <1>6, DispatchedAppends DEF Accepts
  <2>3. sequence' = sequence /\ F = 0 /\ F' = F
    BY <1>2, <1>5, <1>6 DEF Accepts, Unheard, Conversing
  <2>4. Cardinality(Readables(calls')) \in Nat
    <3>1. t.calls \in Said
      BY <1>6 DEF Accepts, TurnRecords
    <3> QED BY <1>6, <3>1, SaidIsASequence, ReadablesCounted DEF Accepts
  <2>5. sequence + 0 = Dispatched(turns) + F
    BY <2>1 DEF EveryOperationIsOnTheTranscript
  <2>6. sequence' + Cardinality(Readables(calls')) = Dispatched(turns') + F'
    <3> HIDE DEF F
    <3> QED BY <1>0, <2>2, <2>3, <2>4, <2>5
  <2> QED BY <2>6 DEF EveryOperationIsOnTheTranscript
<1>7. CASE Fails
  <2>1. Dispatched(turns') = Dispatched(turns)
    BY <1>0, <1>7, DispatchedAppends DEF Fails
  <2>2. F' = F
    BY <1>7 DEF Fails, Unheard, Event
  <2> QED BY <1>7, <2>1, <2>2 DEF Fails, Unheard, EveryOperationIsOnTheTranscript
<1>8. ASSUME NEW t, Concluded(t) PROVE EveryOperationIsOnTheTranscript'
  <2>1. Dispatched(turns') = Dispatched(turns) /\ Dispatched(turns) \in Nat
    BY <1>0, <1>8, DispatchedAppends DEF Concluded
  <2>2. Event("final_answer") = {}
    BY <1>8 DEF Concluded, Conversing
  <2>3. F = 0 /\ F' = 1
    BY <1>5, <1>8, <2>2, FirstAnswer DEF Concluded
  <2>4. sequence' = sequence + 1
    BY <1>8 DEF Concluded, Heard
  <2> QED BY <1>0, <1>8, <2>1, <2>3, <2>4 DEF Concluded, EveryOperationIsOnTheTranscript
<1> QED BY <1>1, <1>3, <1>4, <1>6, <1>7, <1>8 DEF Steps

(* Every operation the model made and the session could read is on the      *)
(* session's transcript, whatever was refused in between.                   *)
THEOREM OperationsAreTranscribed == CellSpec => []EveryOperationIsOnTheTranscript
<1> DEFINE Dialogue == CellInv /\ Conversing /\ NoneWaiting /\ OneAnswerAfterOperations
<1>1. CellInit => EveryOperationIsOnTheTranscript
  <2> SUFFICES ASSUME CellInit PROVE EveryOperationIsOnTheTranscript
    OBVIOUS
  <2>1. transcript = << >> /\ turns = << >> /\ calls = << >> /\ sequence = 0
    BY DEF CellInit, Init
  <2>2. Event("final_answer") = {} /\ Readables(calls) = {}
    BY <2>1 DEF Event, Readables
  <2>3. Dispatched(turns) = Cardinality({})
    <3>1. (DOMAIN turns) \X (1..CallsPerReply) = {}
      BY <2>1
    <3> QED BY <3>1 DEF Dispatched
  <2> QED BY <2>1, <2>2, <2>3, FS_EmptySet DEF EveryOperationIsOnTheTranscript
<1>2. Dialogue /\ Dialogue' /\ EveryOperationIsOnTheTranscript /\ [CellNext]_cellVars
        => EveryOperationIsOnTheTranscript'
  BY CellStepSteps, CountStep DEF CellInv
<1> QED BY <1>1, <1>2, DialogueInvariant, PTL DEF CellSpec
=============================================================================
