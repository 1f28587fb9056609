---------------------------- MODULE LossMechanism ----------------------------
(***************************************************************************)
(* Why a question was lost by the encoded artifact: the labels of          *)
(* bench/failure_decomp.py.  An artifact is [legend, body, trace, grep]:   *)
(* the aliases with their phrases, the tokens read literally in its body,  *)
(* the tokens of its decoded body with the aliases each came through, and  *)
(* whether the body groups matches under file markers.                     *)
(***************************************************************************)
EXTENDS Naturals, Sequences, FiniteSets

Mechanisms == {"alias-decoding", "identifier-or-path-aliasing", "structural-folding",
               "grouping-or-boundary-loss", "notation-ambiguity", "information-absent",
               "format-or-integrity", "mixed", "unresolved"}

(* A legend is applied until nothing changes, at most depth times: a       *)
(* phrase may hold further aliases.  expand maps aliases to sets of tokens. *)
DecodeViaLegend(body, expand, depth) ==
    LET once(ts) == {t \in ts : t \notin DOMAIN expand} \cup UNION {expand[t] : t \in ts \cap DOMAIN expand}
        text[n \in 0..depth] == IF n = 0 THEN body ELSE once(text[n - 1])
    IN  text[depth]

(* Where a gold span went; lastSegment maps spans to their last segments. *)
SpanFate(span, artifact, lastSegment) ==
    LET decoded(t) == t \in DOMAIN artifact.trace
        tail == lastSegment[span]
    IN  CASE span \in artifact.body -> "preserved_verbatim"
          [] span \notin artifact.body /\ decoded(span) ->
               IF artifact.trace[span] # {} THEN "represented_by_alias" ELSE "ambiguous_after_encoding"
          [] span \notin artifact.body /\ ~decoded(span) ->
               IF tail \in artifact.body \/ decoded(tail) THEN "structurally_rewritten"
               ELSE "absent_from_encoded_artifact"

(* A number in the artifact, by what surrounds it. *)
Construct(n) ==
    CASE n.glued -> "identifier_or_code"
      [] ~n.glued /\ n.times -> "repetition_marker"
      [] ~n.glued /\ ~n.times /\ n.colon -> "line_coordinate"
      [] ~n.glued /\ ~n.times /\ ~n.colon ->
           IF n.unique THEN "unique_count" ELSE IF n.unit THEN "count" ELSE "bare_number"

CountAnalysis(gold, numbers, wrong) ==
    LET counts == {n \in numbers : Construct(n) = "count"}
    IN  [preserved |-> \E n \in counts : n.value = gold,
         competing |-> \E n \in counts : n.value = wrong /\ n.value # gold,
         repeated  |-> \E n \in numbers : Construct(n) = "repetition_marker"]

Label(primary, secondary) == [primary |-> primary, secondary |-> secondary \ {primary}]

CountMechanism(c) ==
    CASE c.preserved /\ c.competing ->
           Label("notation-ambiguity", IF c.repeated THEN {"structural-folding"} ELSE {})
      [] c.preserved /\ ~c.competing -> Label("unresolved", {})
      [] ~c.preserved -> Label(IF c.repeated THEN "structural-folding" ELSE "information-absent", {})

(* fates are those of the gold spans, alsoAliased says that one of the     *)
(* verbatim ones is a phrase of the legend too, wrong is "absent", "elsewhere" *)
(* (in the artifact) or "none" for what the model answered, leaked that an *)
(* alias stands in the answer.                                             *)
SpanMechanism(fates, grep, alsoAliased, wrong, leaked) ==
    LET aliased == "represented_by_alias" \in fates
        verbatim == "preserved_verbatim" \in fates
        absent == "absent_from_encoded_artifact" \in fates
        slips == IF leaked THEN {"alias-decoding", "format-or-integrity"} ELSE {}
    IN  IF grep /\ aliased /\ wrong # "elsewhere"
        THEN Label("mixed", {"identifier-or-path-aliasing", "grouping-or-boundary-loss", "alias-decoding"})
        ELSE IF grep /\ (aliased \/ absent)
        THEN Label("grouping-or-boundary-loss", IF aliased THEN {"identifier-or-path-aliasing"} ELSE {})
        ELSE IF alsoAliased THEN Label("identifier-or-path-aliasing", slips)
        ELSE IF aliased
        THEN Label("identifier-or-path-aliasing",
                   IF leaked THEN slips ELSE IF wrong = "absent" THEN {"alias-decoding"} ELSE {})
        ELSE IF leaked THEN Label("alias-decoding", {"format-or-integrity"})
        ELSE IF verbatim /\ wrong = "elsewhere" THEN Label("notation-ambiguity", {})
        ELSE IF absent THEN Label("information-absent", {}) ELSE Label("unresolved", {})

(* The dossier of a question: the fate of its gold spans, and for a loss   *)
(* the mechanism, by the counts when it asks for one.                      *)
Dossier(q, artifact, lastSegment) ==
    LET spans == {[span |-> s, fate |-> SpanFate(s, artifact, lastSegment)] : s \in q.gold}
        fates == {s.fate : s \in spans}
        verbatim == {s.span : s \in {s \in spans : s.fate = "preserved_verbatim"}}
        alsoAliased == verbatim \cap {artifact.legend[a] : a \in DOMAIN artifact.legend} # {}
        wrong == IF q.answer = {} THEN "none"
                 ELSE IF q.answer \cap (artifact.body \cup DOMAIN artifact.trace) # {} THEN "elsewhere" ELSE "absent"
        leaked == q.answer \cap DOMAIN artifact.legend # {} \/ q.leaks # {}
    IN  [spans |-> spans,
         mechanism |-> IF ~q.lost THEN Label("retained", {})
                       ELSE IF q.category = "count"
                       THEN CountMechanism(CountAnalysis(q.goldCount, artifact.numbers, q.wrongCount))
                       ELSE SpanMechanism(fates, artifact.grep, alsoAliased, wrong, leaked)]

(* The conclusion over all losses uses every label, primary or secondary. *)
Conclusion(labels) ==
    LET all == UNION {{l.primary} \cup l.secondary : l \in labels}
        alias == all \cap {"identifier-or-path-aliasing", "alias-decoding"} # {}
        fold == all \cap {"structural-folding", "grouping-or-boundary-loss"} # {}
    IN  CASE \A l \in labels : l.primary = "unresolved" -> "undetermined"
          [] (\E l \in labels : l.primary # "unresolved") /\ alias /\ fold -> "interaction"
          [] (\E l \in labels : l.primary # "unresolved") /\ alias /\ ~fold -> "alias_mining"
          [] (\E l \in labels : l.primary # "unresolved") /\ ~alias /\ fold -> "structural_folding"
          [] (\E l \in labels : l.primary # "unresolved") /\ ~alias /\ ~fold ->
               IF "information-absent" \in all THEN "information_loss" ELSE "undetermined"

(* What a summary counts of the losses: each span once, by its fate. *)
FateShare(spans) == [f \in {"preserved_verbatim", "represented_by_alias", "structurally_rewritten",
                            "absent_from_encoded_artifact"} |-> Cardinality({s \in spans : s.fate = f})]

(* The canonical run must hash to its SHA256SUMS file by file before it is *)
(* read, and the analysis is never written inside it.                      *)
SumsHold(sums, files) == \A f \in DOMAIN sums : f \in DOMAIN files /\ files[f] = sums[f]
OutsideRun(runDir, out) == ~(Len(runDir) <= Len(out) /\ SubSeq(out, 1, Len(runDir)) = runDir)
=============================================================================
