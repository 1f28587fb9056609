------------------------------ MODULE ForcedCell ------------------------------
(***************************************************************************)
(* run_forced_query_cell (src/src/cell.rs) over a panel session and the     *)
(* crossing of src/src/provider.rs: a request is delivered with retries, a  *)
(* reply is classified, its operations are dispatched to the session in     *)
(* order, and the cell ends with a record whatever happened.                *)
(*                                                                         *)
(* The model and the network are the environment.  What comes back is an    *)
(* envelope [status, body, model, usage]: status "ok" or "refused"; body    *)
(* "parses", "malformed" (JSON whose content does not normalize) or         *)
(* "not-json"; the model and the token count it names, or that it does not. *)
(* A call is [tool, ...] with tool "query", "materialize", "answer", one of *)
(* "malformed-operation" and "malformed-answer" when the arguments do not   *)
(* parse, or "unknown".                                                    *)
(***************************************************************************)
EXTENDS PanelSession, SequencesExt

CONSTANTS MaxTurns, MaxAttempts,  \* the cell's budgets
          RequestedModel, Expected,
          Envelopes,              \* what the provider may send back
          CallsPerReply           \* bound on the calls in one reply

(* CellSpec::validated; and the session's counter never runs out.           *)
ASSUME BudgetsAssumption ==
  /\ MaxTurns \in Nat \ {0} /\ MaxAttempts \in Nat \ {0} /\ CallsPerReply \in Nat
  /\ MaxCalls >= MaxTurns * CallsPerReply + 1
(* A provider that counts tokens counts from 0.                             *)
ASSUME EnvelopesAssumption == \A env \in Envelopes : env.usage \in Nat \cup {-1}

VARIABLES phase,     \* "begin", "send", "dispatch" or "done"
          attempts,  \* outcomes of this turn's attempts
          turns,     \* completed turn records
          calls,     \* operations of this reply still to dispatch
          counts,    \* [tool, operation] call counts
          outcome,   \* how the cell ended
          wire       \* history: what each send came to, as the network saw it

cell == <<phase, attempts, turns, calls, counts, outcome, wire>>
cellVars == <<vars, cell>>

Unknown == -1        \* a counter the provider did not report
NoModel == "no model named"
Unfinished == [kind |-> "unfinished"]

CellInit == /\ Init
            /\ phase = "begin"
            /\ attempts = << >> /\ turns = << >> /\ calls = << >>
            /\ counts = [tool |-> 0, operation |-> 0]
            /\ outcome = Unfinished
            /\ wire = << >>

-----------------------------------------------------------------------------
(* One crossing. *)

(* exchange: a complete reply is a rejection, unreadable, or completed.     *)
Crossing(env) == IF env.status = "refused" THEN "provider-rejected"
                 ELSE IF env.body = "parses" THEN "completed"
                 ELSE "normalization-failed"

(* reported_usage: counters are salvaged from a malformed body, and unknown *)
(* wherever no counters could be read.                                      *)
ReportedUsage(crossing, env) ==
  IF crossing = "completed" \/ (crossing = "normalization-failed" /\ env.body = "malformed")
  THEN env.usage ELSE Unknown
ReportedModel(crossing, env) == IF crossing = "completed" THEN env.model ELSE NoModel

(* One attempt and what became of it.                                       *)
Sent(kind, usage, model) ==
  wire' = Append(wire, [turn |-> Len(turns) + 1, kind |-> kind,
                        usage |-> usage, model |-> model])
Lost == Sent("transport-error", 0, NoModel)
Reached(kind, env) == Sent(kind, env.usage, env.model)

(* charge and the turn record: written whether or not the crossing worked.  *)
RecordTurn(kind, crossing, usage, model, toolCalls) ==
  /\ turns' = Append(turns, [crossing |-> crossing, attempts |-> Append(attempts, kind),
                             usage |-> usage, model |-> model, calls |-> toolCalls])
  /\ attempts' = << >>
  /\ counts' = [counts EXCEPT !.tool = @ + Len(toolCalls)]

Finish(how) == /\ outcome' = how
               /\ phase' = "done"
CrossingFailed(crossing) == Finish([kind |-> "crossing-failed", crossing |-> crossing])

(* The opening event, then the first request.                               *)
Begin == /\ phase = "begin"
         /\ Metadata
         /\ phase' = "send"
         /\ UNCHANGED <<attempts, turns, calls, counts, outcome, wire>>

(* deliver: nothing came back.  The same sealed request is sent again,      *)
(* unless this was the last attempt.                                        *)
LastAttempt == Len(attempts) + 1 >= MaxAttempts
Retry == /\ phase = "send"
         /\ ~LastAttempt
         /\ Lost
         /\ attempts' = Append(attempts, "transport-error")
         /\ UNCHANGED <<vars, phase, turns, calls, counts, outcome>>
Undelivered ==
  /\ phase = "send"
  /\ LastAttempt
  /\ Lost
  /\ RecordTurn("transport-error", "transport-failed", Unknown, NoModel, << >>)
  /\ CrossingFailed("transport-failed")
  /\ UNCHANGED <<vars, calls>>

(* A mutant: a reply lost after its headers is asked for again.             *)
BuyAgain(env) ==
  /\ phase = "send"
  /\ ~LastAttempt
  /\ Reached("response-capture-failed", env)
  /\ attempts' = Append(attempts, "response-capture-failed")
  /\ UNCHANGED <<vars, phase, turns, calls, counts, outcome>>

(* The headers arrived and the body did not: terminal, never sent again.    *)
CaptureFailed(env) ==
  /\ phase = "send"
  /\ Reached("response-capture-failed", env)
  /\ RecordTurn("response-capture-failed", "response-capture-failed", Unknown, NoModel, << >>)
  /\ CrossingFailed("response-capture-failed")
  /\ UNCHANGED <<vars, calls>>

(* A complete reply that is not a usable answer from the model.             *)
Unusable(env) ==
  /\ phase = "send"
  /\ Crossing(env) # "completed"
  /\ Reached("response", env)
  /\ RecordTurn("response", Crossing(env), ReportedUsage(Crossing(env), env), NoModel, << >>)
  /\ CrossingFailed(Crossing(env))
  /\ UNCHANGED <<vars, calls>>

-----------------------------------------------------------------------------
(* What the model may say: any calls naming only handles it has been given, *)
(* fixed before any of them runs.                                           *)
CallsNow ==
  [tool : {"query"}, query : Queries] \cup
  [tool : {"materialize"}, handle : Nameable, ids : Claims] \cup
  [tool : {"answer"}, handle : Nameable, answer : Answers, cited : Claims] \cup
  [tool : {"malformed-operation", "malformed-answer", "unknown"}]

IsAnswer(call) == call.tool \in {"answer", "malformed-answer"}
IsOperation(call) == call.tool \in {"query", "materialize", "malformed-operation"}

(* A mutant: an answer among operations is taken, and they are not.         *)
TakeTheAnswer(reply) ==
  LET answers == {i \in DOMAIN reply : IsAnswer(reply[i])}
  IN  IF reply = << >> THEN "no-tool-call"
      ELSE IF answers = {} THEN "operations"
      ELSE IF Cardinality(answers) > 1 THEN "multiple-answers"
      ELSE "answer"

(* classify_forced: operations or one answer, never both.                   *)
Classify(reply) ==
  LET answers == {i \in DOMAIN reply : IsAnswer(reply[i])}
  IN  IF reply = << >> THEN "no-tool-call"
      ELSE IF answers = {} THEN "operations"
      ELSE IF Cardinality(answers) > 1 THEN "multiple-answers"
      ELSE IF answers = DOMAIN reply THEN "answer"
      ELSE "answer-mixed-with-operations"

Completed(env, reply) ==
  /\ phase = "send"
  /\ Crossing(env) = "completed"
  /\ Reached("response", env)
  /\ RecordTurn("response", "completed", ReportedUsage("completed", env),
                ReportedModel("completed", env), reply)

Violation(slug) == Finish([kind |-> "protocol-violation", violation |-> slug])

Violates(env, reply) ==
  /\ Completed(env, reply)
  /\ Classify(reply) \notin {"operations", "answer"}
  /\ Violation(Classify(reply))
  /\ UNCHANGED <<vars, calls>>

(* The answer of a reply that is one: its only call.                        *)
TheAnswer(reply) == reply[CHOOSE i \in DOMAIN reply : IsAnswer(reply[i])]

AnswersBadly(env, reply) ==
  /\ Completed(env, reply)
  /\ Classify(reply) = "answer"
  /\ TheAnswer(reply).tool = "malformed-answer"
  /\ Violation("malformed-answer-arguments")
  /\ UNCHANGED <<vars, calls>>

(* A mutant: the right bytes count whatever the verdict.                    *)
GradedByBytes(verdict, correct) ==
  IF verdict = "valid" \/ correct THEN [kind |-> "answered", correct |-> correct]
  ELSE [kind |-> "query-path-failed", verdict |-> verdict, matched |-> correct]

(* session.answer, then the grade: bytes count only behind a valid verdict. *)
Graded(verdict, correct) ==
  IF verdict = "valid" THEN [kind |-> "answered", correct |-> correct]
  ELSE [kind |-> "query-path-failed", verdict |-> verdict, matched |-> correct]

Concludes(env, reply) ==
  LET a == TheAnswer(reply) IN
  /\ Completed(env, reply)
  /\ Classify(reply) = "answer"
  /\ a.tool = "answer"
  /\ Answer(a.handle, a.answer, a.cited)
  /\ Finish(Graded(Verify(issued, Store, a.handle, a.answer, a.cited), a.answer = Expected))
  /\ UNCHANGED calls

Operates(env, reply) ==
  /\ Completed(env, reply)
  /\ Classify(reply) = "operations"
  /\ calls' = reply
  /\ phase' = "dispatch"
  /\ UNCHANGED <<vars, outcome>>

-----------------------------------------------------------------------------
(* dispatch: one call at a time, each counted before its arguments are      *)
(* parsed, and no refusal ends the cell.                                    *)
Dispatching(counted) ==
  /\ phase = "dispatch"
  /\ calls # << >>
  /\ calls' = Tail(calls)
  /\ counts' = [counts EXCEPT !.operation = @ + counted]
  /\ UNCHANGED <<phase, attempts, turns, outcome, wire>>

(* Mutants: an unknown tool is left where it is; a call that does not parse *)
(* cuts the reply short.                                                    *)
LeaveUnknown == /\ phase = "dispatch"
                /\ calls # << >>
                /\ Head(calls).tool = "unknown"
                /\ UNCHANGED cellVars
DropTheRest == /\ phase = "dispatch"
               /\ calls # << >>
               /\ Head(calls).tool = "malformed-operation"
               /\ calls' = << >>
               /\ counts' = [counts EXCEPT !.operation = @ + 1]
               /\ UNCHANGED <<vars, phase, attempts, turns, outcome, wire>>

DispatchUnknown == /\ Dispatching(0)
                   /\ Head(calls).tool = "unknown"
                   /\ UNCHANGED vars
DispatchMalformed == /\ Dispatching(1)
                     /\ Head(calls).tool = "malformed-operation"
                     /\ UNCHANGED vars
DispatchQuery == /\ Dispatching(1)
                 /\ Head(calls).tool = "query"
                 /\ QueryIssued(Head(calls).query) \/ QueryRefused(Head(calls).query)
DispatchRead == /\ Dispatching(1)
                /\ Head(calls).tool = "materialize"
                /\ Materialize(Head(calls).handle, Head(calls).ids)

(* The results go back and the next request is sent, budget permitting.     *)
EndOfReply == phase = "dispatch" /\ calls = << >>
OneTurnMore == /\ EndOfReply  \* a mutant: the budget is checked too late
               /\ Len(turns) <= MaxTurns
               /\ phase' = "send"
               /\ UNCHANGED <<vars, attempts, turns, calls, counts, outcome, wire>>
NextTurn == /\ EndOfReply
            /\ Len(turns) < MaxTurns
            /\ phase' = "send"
            /\ UNCHANGED <<vars, attempts, turns, calls, counts, outcome, wire>>
BudgetExhausted == /\ EndOfReply
                   /\ Len(turns) >= MaxTurns
                   /\ Finish([kind |-> "no-answer"])
                   /\ UNCHANGED <<vars, attempts, turns, calls, counts, wire>>

Replies == UNION {[1..n -> CallsNow] : n \in 0..CallsPerReply}

CellNext ==
  \/ Begin
  \/ Retry \/ Undelivered
  \/ \E env \in Envelopes : CaptureFailed(env) \/ Unusable(env)
  \/ \E env \in Envelopes, reply \in Replies :
        \/ Violates(env, reply)
        \/ AnswersBadly(env, reply)
        \/ Concludes(env, reply)
        \/ Operates(env, reply)
  \/ DispatchUnknown \/ DispatchMalformed \/ DispatchQuery \/ DispatchRead
  \/ NextTurn \/ BudgetExhausted

-----------------------------------------------------------------------------
(* What the record says. *)

(* Mutants: a turn without counters costs nothing; a silent model is taken  *)
(* for the requested one.                                                   *)
PlusWhatIsKnown(total, turn) == IF turn.usage = Unknown THEN total ELSE total + turn.usage
TrustSilence(model) == IF model \in {NoModel, RequestedModel} THEN "verified" ELSE "drifted"

(* fold_reported_usage: one turn without counters makes the total unknown,  *)
(* and so does having no turn at all.                                       *)
Plus(total, turn) == IF total = Unknown \/ turn.usage = Unknown THEN Unknown
                     ELSE total + turn.usage
Bill(ts) ==
  LET upTo[n \in 0..Len(ts)] == IF n = 0 THEN 0 ELSE Plus(upTo[n - 1], ts[n])
  IN  upTo[Len(ts)]
FoldReportedUsage(ts) == IF ts = << >> THEN Unknown ELSE Bill(ts)
ProviderReported == FoldReportedUsage(turns)

(* model_status: the worst turn decides.                                    *)
StatusOf(model) == IF model = NoModel THEN "missing"
                   ELSE IF model = RequestedModel THEN "verified" ELSE "drifted"
Statuses == {StatusOf(turns[i].model) : i \in DOMAIN turns}
ModelStatus == IF "drifted" \in Statuses THEN "drifted"
               ELSE IF "missing" \in Statuses \/ turns = << >> THEN "missing"
               ELSE "verified"
Comparable == ModelStatus = "verified"

(* The loop runs by itself, and every send returns: a transport has a       *)
(* timeout of at least a second (provider.rs:1836-1838).                    *)
CellSpec == CellInit /\ [][CellNext]_cellVars
FairCellSpec == CellSpec /\ WF_cellVars(CellNext)

-----------------------------------------------------------------------------
Kinds == {"transport-error", "response", "response-capture-failed"}
CellTypeOK ==
  /\ TypeOK
  /\ phase \in {"begin", "send", "dispatch", "done"}
  /\ Len(attempts) < MaxAttempts
  /\ Len(turns) <= MaxTurns
  /\ \A i \in DOMAIN turns : turns[i].attempts \in Seq(Kinds)
  /\ counts \in [tool : Nat, operation : Nat]
  /\ phase = "done" <=> outcome # Unfinished

(* The record is what happened on the wire: the attempts of the turns, in   *)
(* order, are all the sends there were, so a failed crossing leaves its     *)
(* attempts behind; and once headers have arrived for a turn nothing more   *)
(* is sent for it, so no second generation is bought (provider.rs:968-975,  *)
(* cell.rs:46-52).                                                          *)
RecordMatchesWire ==
  /\ FlattenSeq([i \in DOMAIN turns |-> turns[i].attempts]) \o attempts
       = [i \in DOMAIN wire |-> wire[i].kind]
  /\ \A i, j \in DOMAIN wire :
        i < j /\ wire[i].kind # "transport-error" => wire[i].turn < wire[j].turn

(* A bill that is stated is the whole bill: a total is reported only when   *)
(* every generation that reached us reported its counters, and then it is   *)
(* their sum.  No unreadable, rejected or lost turn makes a cell look       *)
(* cheaper (cell.rs:1014-1034).                                             *)
Generations == {i \in DOMAIN wire : wire[i].kind # "transport-error"}
Charged(sends) ==
  LET upTo[n \in 0..Len(sends)] == IF n = 0 THEN 0 ELSE upTo[n - 1] + sends[n].usage
  IN  upTo[Len(sends)]
StatedBillIsWhole ==
  phase = "done" /\ ProviderReported # Unknown =>
    /\ \A i \in Generations : wire[i].usage # Unknown
    /\ ProviderReported = Charged(wire)

(* A cell that may stand beside another arm was answered by the requested   *)
(* model every time: no turn failed, stayed silent about its model or named *)
(* another (cell.rs:441-464).                                               *)
ComparableMeansOneModel ==
  Comparable => /\ \A i \in Generations : wire[i].model = RequestedModel
                /\ Cardinality(Generations) = Len(turns)

(* An answer ends a dialogue that kept to the protocol: it was the only     *)
(* call of the last reply, every earlier reply was operations only, and the *)
(* session judged exactly one answer (cell.rs:36-44).                       *)
Ended(kinds) == outcome.kind \in kinds
OneAnswerAfterOperations ==
  /\ Ended({"answered", "query-path-failed"}) =>
       /\ Cardinality(Event("final_answer")) = 1
       /\ Len(turns[Len(turns)].calls) = 1
       /\ \A i \in 1..Len(turns) - 1 :
            LET said == turns[i].calls IN
            said # << >> /\ \A k \in DOMAIN said : ~IsAnswer(said[k])
  /\ ~Ended({"answered", "query-path-failed"}) => Event("final_answer") = {}

(* A cell scored correct is right about the store: the expected answer is   *)
(* the only true answer of a query this cell ran, and the session accepted  *)
(* it.  An unverified match is never scored (cell.rs:349-355).              *)
CorrectMeansProved ==
  outcome = [kind |-> "answered", correct |-> TRUE] =>
    \E i \in Event("final_answer"), j \in Event("query_result") :
      /\ j < i /\ transcript[i].handle = transcript[j].handle
      /\ transcript[i].answer = Expected
      /\ Supports(transcript[j].query, Expected, transcript[i].cited)

(* Every operation the model made and the session could read is on the      *)
(* session's transcript, refused or not: refusals do not cut a reply short  *)
(* (cell.rs:745-750).                                                       *)
Readables(said) == {i \in DOMAIN said : said[i].tool \in {"query", "materialize"}}
Dispatched(ts) ==
  Cardinality({at \in (DOMAIN ts) \X (1..CallsPerReply) :
                 LET said == ts[at[1]].calls IN
                 Classify(said) = "operations" /\ at[2] \in Readables(said)})
EveryOperationIsOnTheTranscript ==
  sequence + Cardinality(Readables(calls))
    = Dispatched(turns) + Cardinality(Event("final_answer"))

(* Every cell ends, with a record.                                          *)
Terminates == <>(phase = "done")
=============================================================================
