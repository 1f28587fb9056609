--------------------------- MODULE EncodePipeline ---------------------------
(***************************************************************************)
(* `qodec encode` (cmd_encode, src/src/main.rs) as the steps it takes on    *)
(* one text: a pre-pass with a key the reader holds (legend.rs substitute,   *)
(* rules.rs apply), a first stage (a raw container or a mosaic of raw       *)
(* segments, lib.rs and mosaic.rs), the miner's commits (mine.rs encode)    *)
(* and the wrapper that pins the key.  ArtifactText decodes what comes out. *)
(*                                                                         *)
(* Whatever the token meter decides is a choice here: which phrase is       *)
(* committed, under which free alias, whether an entry of a key pays,       *)
(* whether a stage, a dictionary or a wrapper is kept.  So the results hold *)
(* for every meter.  The other structural codecs are left out.              *)
(***************************************************************************)
EXTENDS ArtifactText

CONSTANTS Jobs,        \* [text, key]: what is encoded, with which key or NoKey
          Glyphs,      \* one-symbol aliases
          Sigils,      \* markers of indexed aliases, in order of preference
          Digits,      \* indexes after a sigil, all of one width
          Delimiters,  \* [start, end, sep]: candidates, in order of preference
          MaxEntries,  \* dictionary entries (64 in the code)
          MaxPhrase    \* bound: symbols of a mined phrase

ASSUME BoundsArePositive == MaxEntries \in Nat \ {0} /\ MaxPhrase \in Nat \ {0}

(* What the candidates of alias.rs are: no symbol of one kind is of another *)
(* kind, or one that a container or a legend line is written with.          *)
AliasSymbols == Glyphs \cup Digits \cup ToSet(Sigils)
ASSUME AliasesAssumption ==
  /\ Sigils \in Seq(Symbols) /\ Glyphs \subseteq Symbols /\ Digits \subseteq Symbols
  /\ Glyphs \cap Digits = {} /\ ToSet(Sigils) \cap (Glyphs \cup Digits) = {}
  /\ AliasSymbols \cap {Equals, Newline} = {}

(* The candidates of rules.rs, and no role without any.                     *)
ASSUME DelimitersAssumption ==
  /\ DOMAIN Delimiters = {"start", "end", "sep"}
  /\ \A role \in DOMAIN Delimiters : /\ Delimiters[role] \in Seq(Symbols)
                                    /\ ToSet(Delimiters[role]) \cap {Space, Newline} = {}

(* The files that legend.rs and rules.rs load: an alias is of one word, a   *)
(* phrase is not empty and a template begins with fixed text.  The aliases  *)
(* of a legend are those `qodec legend` hands out, each once: a glyph is in *)
(* no other, and an index begins none.                                      *)
HandedOut(entries) ==
  \A i, j \in DOMAIN entries :
    LET a == entries[i].alias
        b == entries[j].alias
    IN  /\ Len(a) \in {1, 2}
        /\ i # j => a # b
        /\ Len(a) = 1 /\ i # j => a[1] # b[1]
        /\ Len(a) = 2 => a[2] # b[1]
Loadable(k) ==
  /\ k.sum \in Symbols \ {Space, Newline, "another"}
  /\ \A i \in DOMAIN k.entries : \A s \in {Space, Newline} : ~Holds(k.entries[i].alias, <<s>>)
LegendFiles == [kind : {"legend"}, sum : Symbols, entries : Seq([alias : Texts, phrase : Texts])]
RulesFiles == [kind : {"rules"}, sum : Symbols, entries : Seq([alias : Texts, parts : Seq(Texts)])]
ASSUME JobsAssumption ==
  \A job \in Jobs :
    /\ job.text \in Texts
    /\ \/ job.key = NoKey
       \/ /\ job.key \in LegendFiles /\ Loadable(job.key) /\ HandedOut(job.key.entries)
          /\ \A i \in DOMAIN job.key.entries : job.key.entries[i].phrase # << >>
       \/ /\ job.key \in RulesFiles /\ Loadable(job.key)
          /\ \A i \in DOMAIN job.key.entries : LET parts == job.key.entries[i].parts
                                                IN  parts # << >> /\ parts[1] # << >>

VARIABLES phase,
          input, key,
          entry,     \* next entry of the key
          current,   \* the text so far
          used,      \* aliases of the key that were applied, in file order
          staged,    \* what the miner starts from
          legend,    \* the miner's commits, <<alias, phrase>>
          artifact   \* what is written

vars == <<phase, input, key, entry, current, used, staged, legend, artifact>>

Phases == {"prepass", "stage", "mine", "wrap", "done", "refused"}

Init == /\ \E job \in Jobs : input = job.text /\ key = job.key
        /\ phase = "prepass"
        /\ entry = 1
        /\ current = input
        /\ used = << >> /\ staged = << >> /\ legend = << >> /\ artifact = << >>

Entries == IF key.kind = "none" THEN << >> ELSE key.entries
AtEntry == phase = "prepass" /\ entry <= Len(Entries)
PassOn == /\ entry' = entry + 1
          /\ UNCHANGED <<phase, input, key, current, used, staged, legend, artifact>>
Apply(text, alias) ==
  /\ current' = text
  /\ used' = Append(used, alias)
  /\ entry' = entry + 1
  /\ UNCHANGED <<phase, input, key, staged, legend, artifact>>

(* What is not in the text of a row of candidates, and the first of it.     *)
Unheld(candidates, text) == {i \in DOMAIN candidates : ~Holds(text, <<candidates[i]>>)}
FirstUnheld(candidates, text) ==
  LET free == Unheld(candidates, text)
  IN  candidates[CHOOSE i \in free : \A j \in free : i <= j]

-----------------------------------------------------------------------------
(* legend.rs substitute *)

(* An alias already in the text cannot be told from a substitution.         *)
Substitutable(e) == ~Holds(current, e.alias) /\ Holds(current, e.phrase)
Substitute == /\ AtEntry /\ key.kind = "legend"
              /\ LET e == Entries[entry] IN
                 \/ Substitutable(e) /\ Apply(Replace(current, e.phrase, e.alias), e.alias)
                 \/ PassOn

-----------------------------------------------------------------------------
(* rules.rs apply *)

(* The first candidate of each role that the input does not hold.           *)
DelimitersLeft == \A role \in DOMAIN Delimiters : Unheld(Delimiters[role], input) # {}
Chosen == [role \in DOMAIN Delimiters |-> FirstUnheld(Delimiters[role], input)]
ChosenSet == {Chosen[role] : role \in DOMAIN Delimiters}

(* The parts matched one after the other from `start` on: where the match   *)
(* ends and the values between, or 0.                                       *)
Match(line, parts, start) ==
  LET More[n \in 0..Len(parts) - 1] ==
        LET m     == More[n - 1]
            hit   == IF m.end = 0 THEN 0 ELSE Find(line, parts[n + 1], m.end)
            value == SubSeq(line, m.end, hit - 1)
        IN  IF n = 0 THEN [end |-> start + Len(parts[1]), values |-> << >>]
            ELSE IF hit = 0 \/ Holds(value, <<Space>>) THEN [end |-> 0, values |-> << >>]
            ELSE [end |-> hit + Len(parts[n + 1]), values |-> Append(m.values, value)]
  IN  More[Len(parts) - 1]

(* find_span: the starts at which the parts match and the span holds no     *)
(* delimiter.                                                               *)
Spans(line, parts, from) ==
  {i \in from..Len(line) :
     /\ OccursAt(line, parts[1], i)
     /\ Match(line, parts, i).end # 0
     /\ \A d \in ChosenSet : ~Holds(SubSeq(line, i, Match(line, parts, i).end - 1), <<d>>)}

Rewritten(line, e) ==
  LET Rest[from \in 1..Len(line) + 1] ==
        LET starts == Spans(line, e.parts, from)
            i == CHOOSE i \in starts : \A j \in starts : i <= j
            m == Match(line, e.parts, i)
        IN  IF starts = {} THEN SubSeq(line, from, Len(line))
            ELSE SubSeq(line, from, i - 1) \o <<Chosen.start>> \o e.alias
                   \o FlattenSeq([v \in DOMAIN m.values |-> <<Chosen.sep>> \o m.values[v]])
                   \o <<Chosen.end>> \o Rest[m.end]
  IN  Rest[1]

RewriteLines(e) ==
  LET lines == Split(current, Newline)
  IN  Join([l \in DOMAIN lines |-> Rewritten(lines[l], e)], Newline)

(* A rule is applied everywhere or not at all, and never when its alias     *)
(* occurs in the text or holds a delimiter.                                 *)
Applicable(e) == /\ ~Holds(current, e.alias)
                 /\ \A d \in ChosenSet : ~Holds(e.alias, <<d>>)
                 /\ RewriteLines(e) # current
ApplyRule == /\ AtEntry /\ key.kind = "rules" /\ DelimitersLeft
             /\ LET e == Entries[entry] IN
                \/ Applicable(e) /\ Apply(RewriteLines(e), e.alias)
                \/ PassOn

DelimitersExhausted == /\ phase = "prepass" /\ key.kind = "rules" /\ ~DelimitersLeft
                       /\ phase' = "refused"
                       /\ UNCHANGED <<input, key, entry, current, used, staged, legend, artifact>>

-----------------------------------------------------------------------------
(* The stages of lib.rs: the miner alone works on the text itself, squeeze  *)
(* and mosaic on the container of their first stage.                        *)
Prepared == phase = "prepass" /\ ~AtEntry
            /\ (key.kind = "rules" => DelimitersLeft)
Stage(text) == /\ staged' = text
               /\ UNCHANGED <<input, key, entry, current, used, legend, artifact>>

MineAlone == Prepared /\ phase' = "mine" /\ Stage(current)
SqueezeStage == Prepared /\ phase' = "mine" /\ Stage(Raw(current))
(* Regions are cut after a newline.                                         *)
MosaicStage ==
  /\ Prepared /\ phase' = "mine"
  /\ \E i \in 1..Len(current) - 1 :
        /\ current[i] = Newline
        /\ Stage(Mosaic(<<Raw(SubSeq(current, 1, i)), Raw(SubSeq(current, i + 1, Len(current)))>>))

-----------------------------------------------------------------------------
(* mine.rs encode.  `mined` is the text after the commits so far.           *)

(* AliasPool::build: glyphs the text does not hold, and the indexes of the  *)
(* first sigil it does not hold.                                            *)
Pool(text) == {<<g>> : g \in {h \in Glyphs : ~Holds(text, <<h>>)}} \cup
              {<<FirstUnheld(Sigils, text), d>> : d \in IF Unheld(Sigils, text) = {} THEN {} ELSE Digits}

Mined == CommitAll(staged, legend)

(* Candidates are repeated spans of one line.                               *)
Phrases(text) ==
  {p \in UNION {{SubSeq(text, i, i + n - 1) : i \in 1..Len(text) - n + 1} : n \in 2..MaxPhrase} :
     /\ \A i \in 1..Len(p) : p[i] # Newline
     /\ Find(text, p, Find(text, p, 1) + Len(p)) # 0}

Commit(alias, phrase) ==
  /\ phase = "mine"
  /\ Len(legend) < MaxEntries
  /\ alias \notin {legend[i][1] : i \in DOMAIN legend}
  /\ legend' = Append(legend, <<alias, phrase>>)
  /\ UNCHANGED <<phase, input, key, entry, current, used, staged, artifact>>

Inner(text) == /\ phase = "mine" /\ phase' = "wrap"
               /\ artifact' = text
               /\ UNCHANGED <<input, key, entry, current, used, staged, legend>>

(* The dictionary pays for the whole artifact.                              *)
KeepMined == /\ legend # << >>
             /\ Inner(Emit(Container("mine", <<<<"n", Number(Len(legend))>>>>,
                                     [i \in DOMAIN legend |-> LegendLine(legend[i])], Mined)))
(* The fallbacks: a first stage that pays without the dictionary, or raw.   *)
KeepStage == staged # current /\ Inner(staged)
KeepRaw == \E text \in {staged, current} : Inner(Raw(text))

-----------------------------------------------------------------------------
(* The wrappers: ext and rules pin the key's checksum and the used list.    *)
ExtWrapper == Emit(Container("ext", <<<<"sum", <<key.sum>>>>, <<"used", FlattenSeq(used)>>>>,
                             << >>, artifact))
RulesWrapper ==
  Emit(Container("rules", <<<<"sum", <<key.sum>>>>, <<"used", FlattenSeq(used)>>,
                            <<"start", <<Chosen.start>>>>, <<"sep", <<Chosen.sep>>>>,
                            <<"end", <<Chosen.end>>>>>>, << >>, artifact))

Write(text) == /\ phase = "wrap" /\ phase' = "done"
               /\ artifact' = text
               /\ UNCHANGED <<input, key, entry, current, used, staged, legend>>
(* Nothing of the key was used: the artifact stands on its own.             *)
Bare == used = << >> /\ Write(artifact)
Wrap == used # << >> /\ Write(IF key.kind = "legend" THEN ExtWrapper ELSE RulesWrapper)
(* The wrapper does not pay: the original, and not what was substituted.    *)
GiveUp == used # << >> /\ Write(Raw(input))

Next == \/ Substitute \/ ApplyRule \/ DelimitersExhausted
        \/ MineAlone \/ SqueezeStage \/ MosaicStage
        \/ \E phrase \in Phrases(Mined), alias \in Pool(staged) : Commit(alias, phrase)
        \/ KeepMined \/ KeepStage \/ KeepRaw
        \/ Bare \/ Wrap \/ GiveUp

Spec == Init /\ [][Next]_vars

-----------------------------------------------------------------------------
(* What is not a container, before and after the pre-pass, comes back       *)
(* symbol for symbol, whatever was substituted, rewritten, committed or     *)
(* given up; and what was one comes back without its layers, which is all   *)
(* that decoding loses (mine.rs:8-16, lib.rs:468-470).                      *)
Shapeless == ~IsContainer(input) /\ ~IsContainer(current)
DecodesToTheInput ==
  phase = "done" =>
    /\ Shapeless => DecodeWithKeys(artifact, key) = {input}
    /\ key = NoKey => DecodeWithKeys(artifact, key) = DecodeAll(input)

(* A key is asked for exactly when something of it is in the artifact: one  *)
(* that used nothing, or gave up, decodes without it, and any other refuses *)
(* a reader with no key or with another file (legend.rs:9-12, 175-182).     *)
Drifted == [key EXCEPT !.sum = "another"]
Pins == {c \in Parse(artifact) : c.codec \in {"ext", "rules"}} # {}
AsksForTheKeyItUsed ==
  phase = "done" /\ key # NoKey /\ Shapeless =>
    /\ Pins => used # << >>
    /\ IF Pins THEN DecodeWithKeys(artifact, NoKey) = {} /\ DecodeWithKeys(artifact, Drifted) = {}
       ELSE DecodeWithKeys(artifact, NoKey) = {input}

(* A mosaic whose count, lengths and end disagree is refused: with another  *)
(* count, or cut at any place, it has no segments (mosaic.rs:528-574).      *)
Mosaics == {c \in Parse(staged) : c.codec = "mosaic"}
MiscountsAreRefused ==
  phase = "mine" /\ legend = << >> => \A c \in Mosaics : SplitMosaic(c) # {} =>
    /\ \A n \in 0..Len(c.body) : SplitMosaic([c EXCEPT !.params = <<<<"n", Number(n)>>>>]) # {} =>
                                   Declared(c) = {n}
    /\ \A cut \in 0..Len(c.body) - 1 : SplitMosaic([c EXCEPT !.body = SubSeq(@, 1, cut)]) = {}

(* Rules applied one after the other still invert byte for byte, since no   *)
(* span captures another's (rules.rs:139-146, tests/rules.rs:189-228).      *)
RulesInvertByteExactly ==
  phase = "done" /\ key.kind = "rules" /\ Shapeless => DecodeWithKeys(artifact, key) = {input}
=============================================================================
