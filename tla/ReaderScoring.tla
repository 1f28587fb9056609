---------------------------- MODULE ReaderScoring ----------------------------
(***************************************************************************)
(* How the answers of a reader run become a verdict: score_reader.py, the  *)
(* answer parser of bench/reader_tasks.py and the loss selection of        *)
(* bench/failure_decomp.py.  ans maps the keys [q, arm, repeat] of the     *)
(* journal to answers; category gives the category of each question.       *)
(***************************************************************************)
EXTENDS Integers, Sequences, FiniteSets, FiniteSetsExt

NoCount == -1   \* a token count the server did not report

Raw == 1
Brief == 2      \* raw+brief
Encoded == 3    \* encoded+brief
ReaderArms == {Raw, Brief, Encoded}

Categories == {"fact", "count", "locator", "call_path", "actionability"}

-----------------------------------------------------------------------------
(* One answer against its question. *)

(* The four ways a list answer may match; lists are sequences of tokens. *)
ListMatches(mode, gold, got) ==
    LET G == {gold[i] : i \in DOMAIN gold}
        A == {got[i] : i \in DOMAIN got}
        SameBag == \A x \in G \cup A : Cardinality({i \in DOMAIN gold : gold[i] = x})
                                         = Cardinality({i \in DOMAIN got : got[i] = x})
        InOrder == \E f \in [DOMAIN gold -> DOMAIN got] :
                      /\ \A i \in DOMAIN gold : got[f[i]] = gold[i]
                      /\ \A i, j \in DOMAIN gold : i < j => f[i] < f[j]
    IN  CASE mode \in {"exact", "exact-set"} -> SameBag
          [] mode = "one-of"       -> G \cap A # {}
          [] mode = "contains-all" -> G \subseteq A
          [] mode = "ordered-path" -> InOrder

(* An answer is a record of lists of tokens, or unparsed: then it is scored *)
(* as an empty one.  A count is right when its only number is the gold one. *)
ScoreQuestion(task, answer, source, lastSegment, aliases) ==
    LET used(keys) == UNION {{answer[k][i] : i \in DOMAIN answer[k]} : k \in keys}
        right == CASE task.category = "count" -> answer.answer = task.gold
                   [] task.category \in {"fact", "actionability"} ->
                        {task.gold[i] : i \in DOMAIN task.gold} \subseteq used({"facts", "answer"})
                   [] OTHER -> ListMatches(task.match, task.gold, answer[task.field])
    IN  [correct |-> right,
         format  |-> answer.parsed,
         invalid |-> (used({"files", "symbols"}) \ source)
                     \cup {x \in used({"call_path"}) : {x, lastSegment[x]} \cap source = {}},
         leaks   |-> used({"files", "symbols", "call_path", "facts", "answer"}) \cap aliases]

-----------------------------------------------------------------------------
(* Stability: all repeats of a question in an arm agree on everything that *)
(* is scored, and not only on being right.                                 *)

Signature(r) == <<r.correct, r.format, r.leaks, r.invalid>>
Asked(ans, q, arm) == {k \in DOMAIN ans : k.q = q /\ k.arm = arm}
AskedQuestions(ans) == {k.q : k \in DOMAIN ans}
Unstable(ans) ==
    {q \in AskedQuestions(ans) : \E arm \in ReaderArms : \E k, l \in Asked(ans, q, arm) :
        Signature(ans[k]) # Signature(ans[l])}

(* Repeat 0 decides; without it the earliest repeat does. *)
PrimaryKey(ans, q, arm) ==
    CHOOSE k \in Asked(ans, q, arm) : \A l \in Asked(ans, q, arm) : k.repeat <= l.repeat
PrimaryAnswer(ans, q, arm) == ans[PrimaryKey(ans, q, arm)]
Whole(ans) == {q \in AskedQuestions(ans) : \A arm \in ReaderArms : Asked(ans, q, arm) # {}}

RightIn(ans, qs, arm) == {q \in qs : PrimaryAnswer(ans, q, arm).correct}

(* Right with the brief, not right with the encoded artifact. *)
LostOf(ans, qs) ==
    LET both == {q \in AskedQuestions(ans) \cap qs : Asked(ans, q, Brief) # {} /\ Asked(ans, q, Encoded) # {}}
    IN  RightIn(ans, both, Brief) \ RightIn(ans, both, Encoded)

(* The codec is judged on what the brief alone left right. *)
Transitions(ans, qs) ==
    LET rows == Whole(ans) \cap qs
        ok(arm) == RightIn(ans, rows, arm)
        lost == ok(Brief) \ ok(Encoded)
        stable == {q \in LostOf(ans, qs) : q \notin Unstable(ans)}
    IN  [n |-> Cardinality(rows), competent |-> Cardinality(ok(Raw)),
         briefKept |-> Cardinality(ok(Raw) \cap ok(Brief)),
         eligible |-> Cardinality(ok(Brief)), kept |-> Cardinality(ok(Brief) \cap ok(Encoded)),
         losses |-> Cardinality(lost), rescues |-> Cardinality(ok(Encoded) \ ok(Brief)),
         stable |-> Cardinality(stable)]

-----------------------------------------------------------------------------
(* What the system prompt adds on the server is the same in every arm, so  *)
(* a spread of the mean overhead means that the two tokenizers differ.     *)
ParityTolerance == 8
Counted(ans, arm) == {q \in AskedQuestions(ans) : /\ Asked(ans, q, arm) # {}
                                                  /\ PrimaryAnswer(ans, q, arm).server # NoCount}
Overhead(ans, arm) ==
    MapThenSumSet(LAMBDA q : PrimaryAnswer(ans, q, arm).server - PrimaryAnswer(ans, q, arm).local,
                  Counted(ans, arm))
ParityMismatch(ans) ==
    \E a, b \in ReaderArms :
        LET n == Cardinality(Counted(ans, a))
            m == Cardinality(Counted(ans, b))
        IN  n > 0 /\ m > 0 /\ Overhead(ans, a) * m - Overhead(ans, b) * n > ParityTolerance * n * m

Answered(ans, arm) == {q \in AskedQuestions(ans) : Asked(ans, q, arm) # {}}
Leaks(ans) == MapThenSumSet(LAMBDA q : Cardinality(PrimaryAnswer(ans, q, Encoded).leaks), Answered(ans, Encoded))
Invented(ans, arm) == MapThenSumSet(LAMBDA q : Cardinality(PrimaryAnswer(ans, q, arm).invalid), Answered(ans, arm))

(* An undefined rate is 0 to the gates; a retention that is 0 or undefined *)
(* is taken for 1 by the test for a general drop ("or 1").                 *)
AtLeast(num, den, p, q) == den > 0 /\ num * q >= den * p
GeneralDrop(t) == t.kept > 0 /\ ~AtLeast(t.kept, t.eligible, 9, 10)

Inconclusive(all, locator, minEligible, minLocator) ==
    \/ ~AtLeast(all.competent, all.n, 6, 10)
    \/ all.eligible < minEligible
    \/ locator.eligible < minLocator

Verdict(ans, category, minEligible, minLocator) ==
    LET of(cats) == Transitions(ans, {q \in AskedQuestions(ans) : category[q] \in cats})
        all == of(Categories)
        locator == of({"locator"})
        facts == of({"fact", "count"})
    IN  IF Inconclusive(all, locator, minEligible, minLocator) THEN "inconclusive"
        ELSE IF /\ all.stable = 0
                /\ locator.stable = 0
                /\ Leaks(ans) = 0
                /\ Invented(ans, Encoded) <= Invented(ans, Brief)
                /\ ~ParityMismatch(ans)
             THEN "passes"
        ELSE IF locator.stable > 0 /\ AtLeast(facts.kept, facts.eligible, 9, 10) THEN "protect_spans"
        ELSE IF GeneralDrop(all) THEN "do_not_apply"
        ELSE IF ParityMismatch(ans) THEN "tokenizer_mismatch" ELSE "mixed"

-----------------------------------------------------------------------------
(* The decomposition of a finished run takes its losses from repeat 0 only *)
(* and refuses when their number is not what the report says.              *)

At0(ans, q, arm) == \E k \in Asked(ans, q, arm) : k.repeat = 0
DecomposedLosses(ans) ==
    {q \in AskedQuestions(ans) :
        /\ At0(ans, q, Brief) /\ At0(ans, q, Encoded)
        /\ PrimaryAnswer(ans, q, Brief).correct
        /\ ~PrimaryAnswer(ans, q, Encoded).correct
        /\ q \notin Unstable(ans)}
CrosscheckPasses(ans, category) ==
    \A cats \in {Categories, {"fact", "count"}, {"locator"}} :
        LET qs == {q \in AskedQuestions(ans) : category[q] \in cats}
        IN  Cardinality(DecomposedLosses(ans) \cap qs) = Transitions(ans, qs).stable

(* A control is right with and without the codec, stably and cleanly. *)
ControlPool(ans) ==
    {q \in AskedQuestions(ans) :
        /\ At0(ans, q, Brief) /\ At0(ans, q, Encoded)
        /\ PrimaryAnswer(ans, q, Brief).correct /\ PrimaryAnswer(ans, q, Encoded).correct
        /\ q \notin Unstable(ans)
        /\ LET e == PrimaryAnswer(ans, q, Encoded) IN e.format /\ e.leaks = {} /\ e.invalid = {}}

(* Losses, in order, each take the nearest control that is still free:     *)
(* near[l, c] is the rank of the pair, distinct for distinct controls.     *)
SelectControls(losses, pool, near) ==
    LET pick[i \in 0..Len(losses)] ==
          IF i = 0 THEN <<>>
          ELSE LET before == pick[i - 1]
                   free == pool \ {before[j][2] : j \in DOMAIN before}
               IN  IF free = {} THEN before
                   ELSE Append(before, <<losses[i], CHOOSE c \in free :
                                          \A d \in free : near[losses[i], c] <= near[losses[i], d]>>)
    IN  pick[Len(losses)]
=============================================================================
