----------------------------- MODULE MCStoreOpen -----------------------------
(* Texts of up to three lines over: a marker naming the preamble section 1, *)
(* one naming section 2, one whose name does not parse, a record with a     *)
(* field and one without.  Artifacts of one layer hold any short text;      *)
(* those of two hold a text whose own reading is a text again.  The scanned *)
(* texts spread two records over each of two sections under three keys in   *)
(* every way, and the budgets lie on both sides of every total.             *)
EXTENDS IntersectScan

McMark(m) == [mark |-> m, field |-> NoKey, whole |-> 10 + m]
McRecord(k) == [mark |-> NoMark, field |-> k, whole |-> 20 + k]
McLines == {McMark(1), McMark(2), McMark(BadName), McRecord(3), McRecord(NoKey)}
McLong == {<<McRecord(3), McMark(2), McRecord(3)>>,
           <<McMark(2), McRecord(3), McMark(2)>>,
           <<McRecord(3), McRecord(3), McMark(2), McRecord(NoKey), McRecord(3)>>}
McTexts == UNION {[1..n -> McLines] : n \in 0..1} \cup
           {<<l, McRecord(3)>> : l \in McLines} \cup
           {<<McMark(2), l>> : l \in McLines} \cup McLong
McKeyPairs == {p \in (1..3) \X (1..3) : p[1] <= p[2]}
McScanTexts == {<<McRecord(p[1]), McRecord(p[2]), McMark(2), McRecord(q[1]), McRecord(q[2])>> :
                  p, q \in McKeyPairs}
McArtifacts ==
  {[digest |-> <<t>>, readings |-> <<t>>] : t \in McTexts \cup McScanTexts} \cup
  {[digest |-> <<t, u>>, readings |-> <<t, u>>] :
     t \in {<<McMark(2)>>, <<McRecord(3), McRecord(3)>>}, u \in McLong}

McLinesSeg == [kind |-> "lines", section |-> 1]
McMarked(s) == [kind |-> "marked", section |-> s]
McBare == [kind |-> "bare", section |-> 1]
McField == [name |-> "f", extractor |-> "field"]
McWhole == [name |-> "w", extractor |-> "whole"]
McRequests ==
  {[layers |-> n, seg |-> McMarked(1), specs |-> <<McField>>] : n \in 0..2} \cup
  {[layers |-> 1, seg |-> McLinesSeg, specs |-> <<McWhole, McField>>],
   [layers |-> 1, seg |-> McLinesSeg, specs |-> <<McField, McWhole>>],
   [layers |-> 1, seg |-> McMarked(1), specs |-> <<McField, McField>>],
   [layers |-> 1, seg |-> McBare, specs |-> <<McField>>]}
=============================================================================
