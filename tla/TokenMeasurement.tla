--------------------------- MODULE TokenMeasurement ---------------------------
(***************************************************************************)
(* The token benchmark of the identity lock: one case measured in two      *)
(* legs, the legs combined, the totals over the corpus, the supplement     *)
(* that resamples them, and the canary that repeats one measurement.       *)
(*                                                                         *)
(* A tool run is a record of what it returned.  An encoding is [exit,      *)
(* nonUtf8, out, tin, tout, encoded, restored]: restored says whether the  *)
(* decoder, or the envelope itself when nothing was encoded, gave back     *)
(* the bytes that went in.                                                 *)
(***************************************************************************)
EXTENDS Integers, Sequences, FiniteSets, FiniteSetsExt, SequencesExt

CONSTANTS Cases,          \* the corpus
          NonUtf8Cases    \* the cases whose input may be refused as non UTF-8
ASSUME NonUtf8Assumption == IsFiniteSet(Cases) /\ NonUtf8Cases \subseteq Cases

Legs == {"a", "b"}
Nothing == <<>>

-----------------------------------------------------------------------------
(* One leg of one case. *)

EncodeRoundtrip(enc) ==
    IF enc.exit # 0 THEN [ok |-> FALSE, exit |-> enc.exit, nonUtf8 |-> enc.nonUtf8]
    ELSE [ok |-> TRUE, out |-> enc.out, tin |-> enc.tin, tout |-> enc.tout, encoded |-> enc.encoded,
          roundtrip |-> enc.restored]

(* A bundle names each member with the hash of its bytes. *)
LoadCaseInput(bundle, case) ==
    IF bundle.members[case] = bundle.manifest[case].input THEN <<bundle.members[case]>> ELSE Nothing

(* Anything that was not foreseen is an error, never a row: a refusal that *)
(* is not of an authorised case, a filter that fails, a round trip that    *)
(* loses something.                                                        *)
MeasureCaseLeg(case, leg, input, raw, rtk, hybrid) ==
    LET r == EncodeRoundtrip(raw)
        h == EncodeRoundtrip(hybrid)
        base == [case |-> case, leg |-> leg, input |-> input]
    IN  IF ~r.ok
        THEN IF case \in NonUtf8Cases /\ r.nonUtf8
             THEN <<base @@ [status |-> "UNMEASURABLE_NON_UTF8", exit |-> r.exit, class |-> "INVALID_UTF8_INPUT"]>>
             ELSE Nothing
        ELSE IF rtk.exit # 0 \/ ~h.ok THEN Nothing
        ELSE IF ~r.roundtrip \/ ~h.roundtrip THEN Nothing
        ELSE <<base @@ [status |-> "MEASURED", raw |-> r.tin, qodec |-> r.tout, rtk |-> h.tin, hybrid |-> h.tout,
                        encoded |-> r.encoded, out |-> r.out, rtkOut |-> rtk.out, hybridOut |-> h.out]>>

-----------------------------------------------------------------------------
(* The legs combined, and the benchmark. *)

MeasuredFields == {"raw", "qodec", "rtk", "hybrid", "encoded", "out", "rtkOut", "hybridOut"}
RefusalFields == {"exit", "class"}
CombineCaseLegs(a, b) ==
    IF a.leg # "a" \/ b.leg # "b" \/ a.case # b.case \/ a.status # b.status \/ a.input # b.input THEN Nothing
    ELSE IF a.status = "UNMEASURABLE_NON_UTF8" /\ a.case \notin NonUtf8Cases THEN Nothing
    ELSE LET fields == IF a.status = "MEASURED" THEN MeasuredFields ELSE RefusalFields
         IN  <<[case |-> a.case, status |-> a.status, input |-> a.input,
                row |-> [f \in fields |-> a[f]], disagreements |-> {f \in fields : a[f] # b[f]}]>>

(* Savings are kept as pairs out/in: the weighted one is of the totals, the *)
(* macro one the mean of the cases' own.                                   *)
Saving(row, field) == IF row["raw"] = 0 THEN <<0, 1>> ELSE <<row["raw"] - row[field], row["raw"]>>
ArmStats(rows, field) ==
    LET sum(f) == FoldSet(LAMBDA c, n : n + rows[c].row[f], 0, DOMAIN rows)
    IN  [total |-> sum(field), weighted |-> <<sum("raw") - sum(field), sum("raw")>>,
         macro |-> [c \in DOMAIN rows |-> Saving(rows[c].row, field)]]

(* pairs maps a case to its two legs. *)
BuildBenchmark(pairs) ==
    LET combined == [c \in DOMAIN pairs |-> CombineCaseLegs(pairs[c].a, pairs[c].b)]
        whole == DOMAIN pairs = Cases /\ \A c \in DOMAIN pairs : combined[c] # Nothing
        agreed == \A c \in DOMAIN pairs : combined[c][1].disagreements = {}
        refused == {c \in DOMAIN pairs : combined[c][1].status = "UNMEASURABLE_NON_UTF8"}
        rows == [c \in DOMAIN pairs \ refused |-> combined[c][1]]
    IN  IF ~whole THEN Nothing
        ELSE IF ~agreed \/ refused # NonUtf8Cases THEN Nothing
        ELSE <<[corpus |-> [total |-> Cardinality(Cases), measurable |-> Cardinality(DOMAIN rows),
                            refusals |-> Cardinality(refused), failures |-> 0,
                            passthrough |-> Cardinality({c \in DOMAIN rows : ~rows[c].row["encoded"]})],
                arms |-> [f \in {"qodec", "rtk", "hybrid"} |-> ArmStats(rows, f)],
                cases |-> [c \in DOMAIN pairs |-> combined[c][1]]]>>

(* The files of a run: a case with one leg only stops the build. *)
PairsOf(rows) ==
    LET of(c, l) == {r \in rows : r.case = c /\ r.leg = l}
        cases == {r.case : r \in rows}
    IN  IF \E c \in cases, l \in Legs : of(c, l) = {} THEN Nothing
        ELSE <<[c \in cases |-> [l \in Legs |-> CHOOSE r \in of(c, l) : TRUE]]>>

(* The leg evidence keeps every row as it was measured. *)
BuildLegEvidence(rows) == IF {r.case : r \in rows} # Cases THEN Nothing ELSE PairsOf(rows)

-----------------------------------------------------------------------------
(* The supplement: the weighted ratio of the resampled totals. *)

MeasuredRows(benchmark) ==
    {c \in DOMAIN benchmark.cases : benchmark.cases[c].status = "MEASURED"}
ResampledRatio(benchmark, draw, field) ==
    LET total(f) == FoldLeft(LAMBDA n, c : n + benchmark.cases[c].row[f], 0, draw)
    IN  IF total("raw") = 0 THEN <<0, 1>> ELSE <<total("raw") - total(field), total("raw")>>
BuildSupplement(benchmark, draws) ==
    IF Cardinality(MeasuredRows(benchmark)) # Cardinality(Cases) - Cardinality(NonUtf8Cases) THEN Nothing
    ELSE <<[source |-> benchmark, canonical |-> FALSE,
            point |-> [f \in DOMAIN benchmark.arms |-> benchmark.arms[f].weighted],
            spread |-> [f \in DOMAIN benchmark.arms |->
                          {ResampledRatio(benchmark, d, f) : d \in draws}]]>>

-----------------------------------------------------------------------------
(* The canary: one case, the same measurement again and again. *)

(* A repetition in which the filter fails still counts as run, with no     *)
(* filtered tokens.                                                        *)
RunOneRepetition(raw, rtk, hybrid) ==
    IF raw.exit # 0 THEN [ok |-> FALSE]
    ELSE [ok |-> TRUE, out |-> raw.out, tin |-> raw.tin, tout |-> raw.tout, roundtrip |-> raw.restored,
          rtkExit |-> rtk.exit, rtkOut |-> IF rtk.exit = 0 THEN <<rtk.out>> ELSE Nothing,
          hybrid |-> IF rtk.exit = 0 /\ hybrid.exit = 0 THEN <<hybrid.tin, hybrid.tout, hybrid.out>> ELSE Nothing]

RunLeg(leg, reps) ==
    LET ran == \A i \in DOMAIN reps : reps[i].ok
        distinct(f) == {reps[i][f] : i \in DOMAIN reps}
        fields == {"out", "tin", "tout", "rtkOut", "hybrid"}
    IN  IF ~ran THEN [leg |-> leg, repetitions |-> Len(reps), deterministic |-> FALSE, kept |-> Nothing]
        ELSE [leg |-> leg, repetitions |-> Len(reps),
              deterministic |-> /\ \A f \in fields : Cardinality(distinct(f)) = 1
                                /\ \A i \in DOMAIN reps : reps[i].roundtrip /\ reps[i].rtkExit = 0,
              kept |-> [f \in fields |-> IF Cardinality(distinct(f)) = 1 THEN <<CHOOSE v \in distinct(f) : TRUE>> ELSE Nothing]]

CombineLegs(a, b) ==
    LET within == a.deterministic /\ b.deterministic
        fields == {"out", "tin", "tout", "rtkOut", "hybrid"}
        between == within /\ \A f \in fields : a.kept[f] # Nothing /\ a.kept[f] = b.kept[f]
    IN  [all |-> within /\ between, legs |-> <<a, b>>,
         tokens |-> IF within /\ between THEN <<a.kept>> ELSE Nothing]
===============================================================================
