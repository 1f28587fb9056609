--------------------------- MODULE MCBenchMatrix ---------------------------
(***************************************************************************)
(* The reader bench: its pure algorithms over bounded inputs, which TLC    *)
(* evaluates before the run, and the instance of the matrix.               *)
(***************************************************************************)
EXTENDS BenchMatrix, AblationAnalysis, LossMechanism, TLC

RS == INSTANCE ReaderScoring

Keys1 == [q : {1}, arm : 1..3, repeat : 0..1]
Cheap(r, f) == [correct |-> r, format |-> f, leaks |-> {}, invalid |-> {}, server |-> -1, local |-> 0]
Answers1 == UNION {[ks -> {Cheap(TRUE, TRUE), Cheap(FALSE, TRUE)}] :
                      ks \in {s \in SUBSET Keys1 : {k \in Keys1 : k.repeat = 0} \subseteq s}}

(* The decomposition never refuses a complete run: its own loss set is the *)
(* one the report counts.  And no verdict passes with a loss that every    *)
(* repeat confirms.                                                        *)
ASSUME CrosscheckOnCompleteRuns == \A ans \in Answers1 : RS!CrosscheckPasses(ans, <<"locator">>)
ASSUME PassHasNoConfirmedLoss ==
    \A ans \in Answers1 : RS!Verdict(ans, <<"locator">>, 1, 1) = "passes"
                             => RS!LostOf(ans, {1}) \subseteq RS!Unstable(ans)

(* No control serves two losses, and each loss before one without a        *)
(* control has one.                                                        *)
ASSUME ControlsAreDistinct ==
    \A pool \in SUBSET (1..3) :
        LET s == RS!SelectControls(<<1, 2>>, pool, [l \in 1..2, c \in 1..3 |-> (c + l) % 3])
        IN  /\ Len(s) = (IF Cardinality(pool) < 2 THEN Cardinality(pool) ELSE 2)
            /\ \A i, j \in DOMAIN s : i # j => s[i][2] # s[j][2]

(* An encoder that is a function matches the stages of S, SM and SG; only  *)
(* one that answers differently on the second call does not.               *)
Artifacts == [codec : {"raw", "fold"}, legend : {{}, {"p"}}, body : {"x"}]
Encoders == [{"squeeze-stage1", "squeeze", "squeeze-mine-guarded"} -> Artifacts]
RawText == [codec |-> "raw", legend |-> {}, body |-> "x"]
ASSUME StagesMatch ==
    \A enc \in Encoders : StageMatched(Realized("S", RawText, enc), Realized("SM", RawText, enc),
                                       Realized("SG", RawText, enc))
(* After normalisation a stage that is said to apply has added an alias.   *)
ASSUME AppliedMeansMined ==
    \A enc \in Encoders : LET r == Normalized(Realized("SG", RawText, enc))
                          IN  r.stage2.applied <=> enc["squeeze-mine-guarded"].legend # {}
                                                   /\ enc["squeeze-stage1"].legend = {}

(* An arm that may advance answers no fewer questions than the raw arm and *)
(* leaks nothing, so it ranks above raw unless it invents as much.         *)
Cell(ok, tokens) == [Missing EXCEPT !.correct = ok, !.stable = "stable", !.tokens = tokens]
Asked2 == [loss : BOOLEAN, cells : [{"R", "SG"} -> {Cell(o, n) : o \in BOOLEAN, n \in 1..3}]]
ASSUME AdvancingIsNoWorse ==
    \A p, q \in Asked2 : Advances({p, q}, "SG") =>
        /\ Score({p, q}, "SG").right >= Score({p, q}, "R").right
        /\ ~RanksAbove(Score({p, q}, "R"), Score({p, q}, "SG"))

(* The mining effect is confirmed only where the guard alone decides.      *)
Cells == [{"R", "S", "SM", "SG", "V", "VG"} -> {Missing, Cell(TRUE, 1), Cell(FALSE, 1)}]
ASSUME MiningConfirmedIsMatched ==
    \A c \in Cells : /\ ClosureVerdict(c) = "mining_confirmed" => Rescuers(c, "SM", {"SG", "V", "VG"}) \cap {"SG"} # {}
                     /\ ClosureVerdict(c) = "none" => Rescuers(c, "SM", {"SG", "V", "VG"}) = {}
FactorCells == [{"R", "I", "M", "F", "MF", "VG"} -> {Missing, Cell(TRUE, 1), Cell(FALSE, 1)}]
ASSUME FramingComesFirst ==
    \A c \in FactorCells : QuestionVerdict(c) \in {"alias", "structure", "stage_unresolved", "mine_unresolved", "none"}
                              => Holds(c["I"])

(* A report that is not refused names an arm only if it rescued every loss, *)
(* and a question whose repeats disagree is never rescued.                 *)
Reply(ok) == [correct |-> ok, format |-> TRUE, leaks |-> {}, invalid |-> {}, tokens |-> 2, latency |-> 1, codec |-> "fold"]
ASSUME FlippingIsNotRescued ==
    \A reps \in UNION {[ns -> {Reply(TRUE), Reply(FALSE)}] : ns \in SUBSET (0..2)} :
        Holds(CellOf(reps)) <=> /\ DOMAIN reps # {}
                                /\ \A n \in DOMAIN reps : reps[n].correct
OneQuestion == [loss : BOOLEAN, cells : [{"R", "S", "SM", "SG", "V", "VG"} -> {Cell(TRUE, 1), Cell(TRUE, 2), Cell(FALSE, 1)}]]
ASSUME ConclusionNamesARescuer ==
    \A q \in OneQuestion :
        LET r == Report({q}, TRUE, {})
        IN  /\ r.conclusion = "guard" => "SG" \in r.advancing
            /\ r.conclusion = "simplified_shelf" => "VG" \in r.advancing /\ "SG" \notin r.advancing
            /\ q.loss => \A a \in r.advancing : Holds(q.cells[a])
ASSUME MismatchRefuses ==
    \A enc \in Encoders, other \in Artifacts :
        LET sg == Realized("SG", RawText, enc)
            r == Report({}, TRUE, {[S |-> Realized("S", RawText, enc), SM |-> Realized("SM", RawText, enc),
                                   SG |-> [sg EXCEPT !.stage2.input = {other}]]})
        IN  r.refused <=> other # enc["squeeze-stage1"]

(* A span that the body shows verbatim is never called lost, and a label   *)
(* never repeats its primary mechanism.                                    *)
Fates == {"preserved_verbatim", "represented_by_alias", "structurally_rewritten",
          "absent_from_encoded_artifact", "ambiguous_after_encoding"}
ASSUME LabelsAreConsistent ==
    \A f \in SUBSET Fates, g, a, l \in BOOLEAN, w \in {"absent", "elsewhere", "none"} :
        LET m == SpanMechanism(f, g, a, w, l)
        IN  /\ {m.primary} \cup m.secondary \subseteq Mechanisms /\ m.primary \notin m.secondary
            /\ m.primary = "information-absent" => "absent_from_encoded_artifact" \in f
Phrase == [a |-> "p"]
Traces == [body : SUBSET {"p", "a"}, legend : {Phrase}, trace : {[x \in {} |-> {}], "p" :> {"a"}, "p" :> {}},
           grep : {FALSE}, numbers : {{}}]
ASSUME LostSpansHaveACause ==
    \A art \in Traces, ans \in SUBSET {"a", "z"} :
        LET d == Dossier([gold |-> {"p"}, answer |-> ans, leaks |-> {}, lost |-> TRUE, category |-> "locator"],
                         art, [s \in {"p"} |-> s])
        IN  /\ d.mechanism.primary = "information-absent" => "p" \notin art.body /\ "p" \notin DOMAIN art.trace
            /\ "a" \in ans => "alias-decoding" \in {d.mechanism.primary} \cup d.mechanism.secondary
ASSUME CountsAreConsistent ==
    \A ns \in SUBSET [value : 1..2, glued : BOOLEAN, times : BOOLEAN, colon : {FALSE}, unique : {FALSE}, unit : {TRUE}] :
        LET m == CountMechanism(CountAnalysis(1, ns, 2))
        IN  /\ m.primary = "information-absent" => ~\E n \in ns : n.value = 1 /\ Construct(n) = "count"
            /\ Conclusion({m}) = "information_loss" <=> m.primary = "information-absent"

-----------------------------------------------------------------------------
(* The instance of the matrix.                                             *)

McTasks == <<[case |-> 1, id |-> 1], [case |-> 2, id |-> 2]>>
Plain(s) == [score |-> s, breaks |-> FALSE]
Breaking(s) == [score |-> s, breaks |-> TRUE]
McOutcomes == {Plain("right"), Plain("wrong"), Breaking("right")}
McRepeatOutcomes == {Plain("right")}
Full == [up |-> TRUE, encodes |-> TRUE, rejects |-> {}, usage |-> {"stream", "body"}]
McEndpoints == {Full, [Full EXCEPT !.rejects = {"seed", "json_schema"}],
                [Full EXCEPT !.up = FALSE], [Full EXCEPT !.rejects = {"stream"}]}
=============================================================================
