--------------------------- MODULE MCEncodePipeline ---------------------------
(* Texts of two lines that repeat, that hold an alias symbol, a sigil or a  *)
(* delimiter already, that are containers, and one whose first line is all  *)
(* but a header.  Legends as `qodec legend` writes them; a rules key of one *)
(* rule and one whose second rule could swallow a span of the first.        *)
EXTENDS EncodePipeline

McRepeats == <<"a", "b", " ", "a", "b", " ", "a", "b", "\n", "a", "b">>
McHoldsAliases == <<"x", "a", "b", "s", "0", "\n", "a", "b", "a", "b">>
McShaped == Raw(<<"a", "b", "a", "b">>)
McTwiceShaped == Mosaic(<<Raw(<<"a", "\n">>), Raw(<<"a">>)>>)
McUnknown == Emit(Container("zip", << >>, << >>, <<"a", "a">>))
McAlmost == <<Magic, " ", "a", " ", "b", "\n", Magic, " ", "body", "\n", "a", " ", "b">>
McSpans == <<"f", "a", "g", " ", "f", "b", "g", "\n", "h", "f", "a", "g", "k", "h", "b", "k">>
McDelimited == <<"<", "f", "a", "g", " ", "f", "f", " ", "g", "a", "g">>
McExhausted == <<"f", "a", "g", ">">>
McPhrase(alias, phrase) == [alias |-> alias, phrase |-> phrase]
McRule(alias, parts) == [alias |-> alias, parts |-> parts]
McGlyphLegend == [kind |-> "legend", sum |-> "1",
                  entries |-> <<McPhrase(<<"x">>, <<"a", "b">>), McPhrase(<<"y">>, <<"b", " ">>),
                                McPhrase(<<"z">>, <<"a", " ", "b">>)>>]
McSigilLegend == [kind |-> "legend", sum |-> "2",
                  entries |-> <<McPhrase(<<"s", "0">>, <<"a", "b">>), McPhrase(<<"s", "1">>, <<"a">>)>>]
McOneRule == [kind |-> "rules", sum |-> "3",
              entries |-> <<McRule(<<"x">>, <<<<"f">>, <<"g">>>>)>>]
McSwallow == [kind |-> "rules", sum |-> "4",
              entries |-> <<McRule(<<"x">>, <<<<"f">>, <<"g">>>>), McRule(<<"y">>, <<<<"h">>, <<"k">>>>)>>]
McJob(t, k) == [text |-> t, key |-> k]
McJobs ==
  {McJob(in, NoKey) : in \in {McRepeats, McHoldsAliases, McShaped, McTwiceShaped, McUnknown, McAlmost}}
  \cup {McJob(in, McGlyphLegend) : in \in {McRepeats, McHoldsAliases, McShaped, McAlmost}}
  \cup {McJob(in, McSigilLegend) : in \in {McRepeats, McHoldsAliases}}
  \cup {McJob(in, McOneRule) : in \in {McSpans, McDelimited, McExhausted, McShaped}}
  \cup {McJob(McSpans, McSwallow)}
(* A second rule that matches inside a value of the first.                  *)
McNested == [kind |-> "rules", sum |-> "5",
             entries |-> <<McRule(<<"x">>, <<<<"f">>, <<"g">>>>), McRule(<<"y">>, <<<<"a">>>>)>>]
McNestedJobs == {McJob(McSpans, McNested)}
McDelimiters == [start |-> <<"<", "{">>, end |-> <<">">>, sep |-> <<"|">>]
McSigils == <<"s", "t">>

(* A legend edited by hand: the parser takes it, since no alias is there    *)
(* twice.  The longer alias is used; the shorter one is passed over because *)
(* the text holds it already, and is expanded all the same.                 *)
McOverlapping == <<McPhrase(<<"@", "1", "1">>, <<"a", "b">>), McPhrase(<<"@", "1">>, <<"c">>)>>
McMarked == <<"a", "b", "@", "1", "a", "b">>
ASSUME OverlappingAliasesMisread ==
  LET sub == Replace(McMarked, <<"a", "b">>, <<"@", "1", "1">>)
  IN  /\ Holds(sub, <<"@", "1">>)
      /\ ExpandLegend(sub, McOverlapping, <<"@", "1", "1">>) # McMarked
(* A phrase that is most of a malformed header: its alias makes the header  *)
(* well formed, and the decoder takes the text for a container.             *)
ASSUME PrepassMakesAContainer ==
  /\ ~IsContainer(McAlmost)
  /\ IsContainer(Replace(McAlmost, <<"a", " ", "b">>, <<"z">>))
=============================================================================
