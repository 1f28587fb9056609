--------------------------- MODULE AblationAnalysis ---------------------------
(***************************************************************************)
(* The ablations of evals/interop: which encoder stages ran in an arm      *)
(* (bench/ablation_policies.py), what the answers of the arms say about    *)
(* the cause of a loss, and which policy may go to a full rerun            *)
(* (analyze_ablation.py).                                                  *)
(*                                                                         *)
(* An artifact is a record [codec, legend, body]: its outer codec, the     *)
(* phrases it aliases, and the rest.                                       *)
(***************************************************************************)
EXTENDS Integers, Sequences, FiniteSets, FiniteSetsExt

Missing == [correct |-> FALSE, stable |-> "absent", leaks |-> 0, invalid |-> 0,
            tokens |-> 0, latency |-> 0, codec |-> "none"]
Present(c) == c.stable # "absent"

(* A single answer counts as stable; an answer that flips never is right. *)
Holds(c) == c.correct /\ c.stable # "unstable"

(* What the repeats of a question in one arm come to: repeat 0 decides,    *)
(* one answer alone says nothing of stability.                             *)
CellOf(reps) ==
    IF DOMAIN reps = {} THEN Missing
    ELSE LET first == CHOOSE n \in DOMAIN reps : \A m \in DOMAIN reps : n <= m
             sig(r) == <<r.correct, r.format, r.leaks, r.invalid>>
         IN  [correct |-> reps[first].correct,
              stable  |-> IF Cardinality(DOMAIN reps) = 1 THEN "once"
                          ELSE IF Cardinality({sig(reps[n]) : n \in DOMAIN reps}) = 1 THEN "stable" ELSE "unstable",
              leaks   |-> Cardinality(reps[first].leaks),
              invalid |-> Cardinality(reps[first].invalid),
              tokens  |-> reps[first].tokens, latency |-> reps[first].latency, codec |-> reps[first].codec]

FactorArms == <<"R", "I", "M", "F", "MF", "VG">>
ClosureArms == <<"R", "S", "SM", "SG", "V", "VG">>
StructuralCodecs == {"fold", "grep", "diag", "tmpl", "toon", "raw", "identity"}

(* Truth table of the factors: framing, aliases, structure, both. *)
QuestionVerdict(cells) ==
    LET I == Holds(cells["I"])
        M == Holds(cells["M"])
        F == Holds(cells["F"])
        MF == Holds(cells["MF"])
    IN  CASE Present(cells["I"]) /\ ~I -> "framing"
          [] I /\ ~M -> "alias"
          [] I /\ M /\ ~F -> "structure"
          [] I /\ M /\ F /\ ~MF -> IF cells["MF"].codec \in StructuralCodecs
                                   THEN "stage_unresolved" ELSE "mine_unresolved"
          [] I /\ M /\ F /\ MF -> "none"
          [] OTHER -> "unresolved"

(* Truth table of the stages, which SM and SG share up to the guard. *)
ClosureVerdict(cells) ==
    LET ok(a) == Holds(cells[a])
        fails(a) == Present(cells[a]) /\ ~ok(a)
    IN  CASE fails("S") -> IF ok("V") \/ ok("VG") THEN "stage1_shelf" ELSE "stage1"
          [] ok("S") /\ fails("SM") /\ ok("SG") -> "mining_confirmed"
          [] ok("S") /\ fails("SM") /\ fails("SG") -> "mining_not_covered"
          [] ~fails("S") /\ ~ok("S") /\ fails("SM") /\ ~ok("SG") -> "beyond_guard"
          [] ~fails("S") /\ ok("SM") -> "none"
          [] OTHER -> "unresolved"

Rescuers(cells, baseline, candidates) ==
    IF Present(cells[baseline]) /\ ~Holds(cells[baseline]) THEN {a \in candidates : Holds(cells[a])} ELSE {}

-----------------------------------------------------------------------------
(* A policy may advance only if it rescues every loss, regresses no        *)
(* control, leaks no alias, invents no more than the raw arm and saves     *)
(* tokens in total and in the median.  questions is a set of               *)
(* [loss : BOOLEAN, cells].                                                *)

Priced(questions, arm) == {q \in questions : q.cells[arm].tokens > 0 /\ q.cells["R"].tokens > 0}
Saving(q, arm) == q.cells["R"].tokens - q.cells[arm].tokens
TotalSaving(questions, arm) == MapThenSumSet(LAMBDA q : Saving(q, arm), Priced(questions, arm))

(* The median is positive: of an odd number the middle one, of an even     *)
(* number the sum of the two in the middle.                                *)
MedianPositive(questions, arm) ==
    LET qs == Priced(questions, arm)
        n == Cardinality(qs)
        AtMost(q) == Cardinality({p \in qs : Saving(p, arm) <= Saving(q, arm)})
        Below(q) == Cardinality({p \in qs : Saving(p, arm) < Saving(q, arm)})
        nth(i) == Saving(CHOOSE q \in qs : Below(q) < i /\ i <= AtMost(q), arm)
    IN  /\ n > 0
        /\ IF n % 2 = 1 THEN nth((n + 1) \div 2) > 0
                        ELSE nth(n \div 2) + nth(n \div 2 + 1) > 0

Advances(questions, arm) ==
    LET total(f(_), a) == MapThenSumSet(LAMBDA q : f(q.cells[a]), questions)
        leaks(c) == c.leaks
        invalid(c) == c.invalid
    IN  /\ \A q \in questions : IF q.loss THEN Holds(q.cells[arm])
                                          ELSE Holds(q.cells["R"]) => Holds(q.cells[arm])
        /\ total(leaks, arm) = 0
        /\ total(invalid, arm) <= total(invalid, "R")
        /\ TotalSaving(questions, arm) > 0
        /\ MedianPositive(questions, arm)

(* A priority order, not a frontier: right answers, then leaks, inventions *)
(* and tokens decide; an unknown mean is last.                             *)
Score(questions, arm) ==
    LET cs == {q \in questions : Present(q.cells[arm])}
        paid == {q \in cs : q.cells[arm].tokens > 0}
    IN  [right |-> Cardinality({q \in cs : Holds(q.cells[arm])}),
         leaks |-> MapThenSumSet(LAMBDA q : q.cells[arm].leaks, cs),
         invalid |-> MapThenSumSet(LAMBDA q : q.cells[arm].invalid, cs),
         tokens |-> MapThenSumSet(LAMBDA q : q.cells[arm].tokens, paid), n |-> Cardinality(paid)]
CheaperMean(s, t) == s.n > 0 /\ (t.n = 0 \/ s.tokens * t.n < t.tokens * s.n)
RanksAbove(s, t) ==
    \/ s.right > t.right
    \/ s.right = t.right /\ s.leaks < t.leaks
    \/ s.right = t.right /\ s.leaks = t.leaks /\ s.invalid < t.invalid
    \/ s.right = t.right /\ s.leaks = t.leaks /\ s.invalid = t.invalid /\ CheaperMean(s, t)

ClosureConclusion(questions) ==
    CASE Advances(questions, "SG") -> "guard"
      [] ~Advances(questions, "SG") /\ Advances(questions, "VG") -> "simplified_shelf"
      [] OTHER -> "no_policy"

-----------------------------------------------------------------------------
(* The stages of an arm, reconstructed by encoding again.  enc[c] is what  *)
(* the encoder makes of a text under codec c.                              *)

(* stage 1 codec ("none": there is none), whether it mines, and guarded *)
StageMeta == [R |-> <<"none", FALSE, FALSE>>, I |-> <<"identity", FALSE, FALSE>>,
              M |-> <<"none", TRUE, FALSE>>, F |-> <<"structural", FALSE, FALSE>>,
              MF |-> <<"squeeze-stage1", TRUE, FALSE>>, VG |-> <<"structural", TRUE, TRUE>>,
              S |-> <<"squeeze-stage1", FALSE, FALSE>>, SM |-> <<"squeeze-stage1", TRUE, FALSE>>,
              SG |-> <<"squeeze-stage1", TRUE, TRUE>>, V |-> <<"structural", FALSE, FALSE>>]
ArmCodec == [R |-> "none", I |-> "identity", M |-> "mine", F |-> "structural", MF |-> "squeeze",
             VG |-> "fold-grep-guarded", S |-> "squeeze-stage1", SM |-> "squeeze",
             SG |-> "squeeze-mine-guarded", V |-> "structural"]

Realized(arm, raw, enc) ==
    LET codec == StageMeta[arm][1]
        mines == StageMeta[arm][2]
        guard == StageMeta[arm][3]
        final == IF arm = "R" THEN raw ELSE enc[ArmCodec[arm]]
        first == IF codec = "none" THEN raw ELSE enc[codec]
        moved == mines /\ final # first
    IN  [stage1 |-> [attempted |-> codec # "none",
                     codec |-> IF codec = "none" THEN "none" ELSE first.codec,
                     applied |-> codec # "none" /\ first.codec \notin {"raw", "identity"}],
         stage2 |-> [attempted |-> mines,
                     input |-> IF mines THEN {first} ELSE {},
                     applied |-> moved,
                     miner |-> IF ~moved THEN "none" ELSE IF guard THEN "guarded-mine-or-deep" ELSE "mine-or-deep",
                     added |-> IF mines THEN Cardinality(final.legend) - Cardinality(first.legend) ELSE 0],
         final |-> final]

(* A passthrough unwraps a container that mined nothing: the bytes moved,  *)
(* but no candidate was accepted.                                          *)
Normalized(r) ==
    LET accepted == r.stage2.attempted /\ r.stage2.added > 0
    IN  [r EXCEPT !.stage2.applied = accepted,
                  !.stage2.miner = IF accepted THEN @ ELSE "none"]
PassthroughUnwrapped(r, raw) == r.final.codec = "raw" /\ r.final = raw

(* SM against SG may be read causally only when both mined the very        *)
(* artifact that S ends with.                                              *)
StageMatched(s, sm, sg) ==
    /\ sm.stage2.input = {s.final} /\ sg.stage2.input = {s.final}
    /\ s.stage1.codec = sm.stage1.codec /\ s.stage1.codec = sg.stage1.codec
    /\ StageMeta["SM"][1] = StageMeta["SG"][1]
    /\ StageMeta["SM"][2] = StageMeta["SG"][2]
    /\ StageMeta["SM"][3] # StageMeta["SG"][3]

(* The report over all questions.  Of a closure run it refuses any causal  *)
(* verdict unless the stages match; without receipts it goes on unchecked. *)
Report(questions, closure, receipts) ==
    IF closure /\ \E r \in receipts : ~StageMatched(r.S, r.SM, r.SG)
    THEN [refused |-> TRUE, verdicts |-> {}, advancing |-> {}, conclusion |-> "none"]
    ELSE LET arms == IF closure THEN {"S", "SM", "SG", "V", "VG"} ELSE {"I", "M", "F", "MF", "VG"}
         IN  [refused |-> FALSE,
              verdicts |-> {IF closure THEN ClosureVerdict(q.cells) ELSE QuestionVerdict(q.cells) :
                               q \in {q \in questions : q.loss}},
              advancing |-> {a \in arms : Advances(questions, a)},
              conclusion |-> IF closure THEN ClosureConclusion(questions) ELSE "factorial"]

(* What every set of arms must satisfy before its answers are worth paying *)
(* for: exact round trips, no aliases where aliasing is off, no guarded    *)
(* phrase aliased by the guarded miner.  decode maps artifacts to texts.    *)
ClosureInvariants(raw, enc, decode, guarded) ==
    /\ \A c \in DOMAIN enc : decode[enc[c]] = raw.body
    /\ enc["structural"].legend = {}
    /\ (enc["squeeze-mine-guarded"].legend \ enc["squeeze-stage1"].legend) \cap guarded = {}
    /\ enc["fold-grep-guarded"].legend \cap guarded = {}
FactorInvariants(raw, enc, decode, guarded, paths) ==
    /\ \A c \in DOMAIN enc : decode[enc[c]] = raw.body
    /\ enc["identity"].legend = {} /\ enc["structural"].legend = {}
    /\ paths \subseteq enc["structural"].tokens
    /\ enc["fold-grep-guarded"].legend \cap guarded = {}
    /\ enc["identity"].codec = "identity"
ByteIdentical(artifacts) ==
    {p \in (DOMAIN artifacts) \X (DOMAIN artifacts) : p[1] # p[2] /\ artifacts[p[1]] = artifacts[p[2]]}
=============================================================================
