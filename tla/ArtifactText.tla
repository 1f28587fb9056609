---------------------------- MODULE ArtifactText ----------------------------
(***************************************************************************)
(* An artifact as the text it is, and how it is decoded: the container      *)
(* (src/src/container.rs), the dictionary of `mine`, the frames of mosaic,   *)
(* the pinned keys of legend.rs and rules.rs, and the decoding loops of     *)
(* lib.rs.  What an artifact means depends on its symbols alone: a payload  *)
(* that reads as a container is one.                                        *)
(*                                                                         *)
(* A text is a sequence of symbols.  A symbol is a character of the payload *)
(* or stands for a run that only ever matters whole: the magic "%q1", a     *)
(* codec's name.  A number is a row of tallies.  A function that may refuse *)
(* gives the set of its results, empty when it refuses.  What a carriage    *)
(* return does to a line is left out.                                       *)
(***************************************************************************)
EXTENDS Integers, FiniteSets, Sequences, SequencesExt

Magic == "%q1"
Space == " "
Equals == "="
Newline == "\n"
Tally == "|"

(* A string is a symbol, and so is what a container is written with.        *)
Symbols == STRING \cup {Magic, Space, Equals, Newline, Tally, "body", "raw", "mine", "mosaic", "ext",
                        "rules", "n", "sum", "used", "start", "sep", "end"}
Texts == Seq(Symbols)

-----------------------------------------------------------------------------
(* str and slice operations of the standard library.                        *)

OccursAt(t, p, i) == i + Len(p) - 1 <= Len(t) /\ \A k \in 1..Len(p) : t[i + k - 1] = p[k]
Holds(t, p) == \E i \in 1..Len(t) : OccursAt(t, p, i)

(* The first place at or after `from` where p occurs, or 0.                 *)
Find(t, p, from) ==
  IF \A i \in from..Len(t) : ~OccursAt(t, p, i) THEN 0
  ELSE CHOOSE i \in from..Len(t) : OccursAt(t, p, i) /\ \A j \in from..i - 1 : ~OccursAt(t, p, j)

(* What is before the first sep, and what is after it.                      *)
Before(t, sep) == IF Holds(t, <<sep>>) THEN SubSeq(t, 1, Find(t, <<sep>>, 1) - 1) ELSE t
After(t, sep) == IF Holds(t, <<sep>>) THEN SubSeq(t, Find(t, <<sep>>, 1) + 1, Len(t)) ELSE << >>

(* str::replace: occurrences from the left that do not overlap; an empty    *)
(* pattern is found before every symbol and at the end.                     *)
Replace(t, p, by) ==
  LET everywhere == IF p = << >> THEN by ELSE << >>
      Replaced[s \in Texts] ==
        IF s = << >> THEN everywhere
        ELSE IF p # << >> /\ OccursAt(s, p, 1) THEN by \o Replaced[SubSeq(s, Len(p) + 1, Len(s))]
        ELSE everywhere \o <<Head(s)>> \o Replaced[Tail(s)]
  IN  Replaced[t]

(* str::split on one symbol: always at least one piece.                     *)
Split(t, sep) ==
  LET Pieces[s \in Texts] ==
        IF Holds(s, <<sep>>) THEN <<Before(s, sep)>> \o Pieces[After(s, sep)] ELSE <<s>>
  IN  Pieces[t]

(* split_once: the pair before and after the first separator, if any.       *)
SplitOnce(t, sep) == IF Holds(t, <<sep>>) THEN {<<Before(t, sep), After(t, sep)>>} ELSE {}

Join(pieces, sep) ==
  Head(pieces) \o FlattenSeq([i \in 1..Len(pieces) - 1 |-> <<sep>> \o pieces[i + 1]])

-----------------------------------------------------------------------------
(* container.rs *)

Boundary == <<Magic, Space, "body">>

(* params is a sequence of <<key, value>>, legend a sequence of lines.      *)
Container(codec, params, legend, body) ==
  [codec |-> codec, params |-> params, legend |-> legend, body |-> body]

Emit(c) ==
  <<Magic, Space, c.codec>>
    \o FlattenSeq([i \in DOMAIN c.params |-> <<Space, c.params[i][1], Equals>> \o c.params[i][2]])
    \o <<Newline>>
    \o FlattenSeq([i \in DOMAIN c.legend |-> c.legend[i] \o <<Newline>>])
    \o Boundary \o <<Newline>> \o c.body

Raw(text) == Emit(Container("raw", << >>, << >>, text))

(* The first line: the magic, a codec that is not "body", and parameters.   *)
HeaderParses(line) ==
  /\ Len(line) >= 2 /\ line[1] = Magic /\ line[2] = Space
  /\ LET words == Split(SubSeq(line, 3, Len(line)), Space) IN
     /\ words[1] \notin {<< >>, <<"body">>}
     /\ \A i \in 2..Len(words) : Holds(words[i], <<Equals>>)

(* The codec, and each parameter's value; a key is one symbol here.         *)
Header(line) ==
  LET words == Split(SubSeq(line, 3, Len(line)), Space)
  IN  [codec  |-> IF Len(words[1]) = 1 THEN words[1][1] ELSE "unknown",
       params |-> [i \in 1..Len(words) - 1 |->
                     LET kv == CHOOSE kv \in SplitOnce(words[i + 1], Equals) : TRUE
                     IN  <<IF Len(kv[1]) = 1 THEN kv[1][1] ELSE "unknown", kv[2]>>]]

(* The lines of legend up to the boundary, and the body after it verbatim.  *)
Unpacked(text) ==
  LET Rest[t \in Texts] ==
        IF t = << >> THEN {}
        ELSE IF Before(t, Newline) = Boundary THEN {[legend |-> << >>, body |-> After(t, Newline)]}
        ELSE {[rest EXCEPT !.legend = <<Before(t, Newline)>> \o @] : rest \in Rest[After(t, Newline)]}
  IN  Rest[text]

Parse(text) ==
  LET line == Before(text, Newline) IN
  IF ~HeaderParses(line) THEN {}
  ELSE {Container(Header(line).codec, Header(line).params, rest.legend, rest.body) :
          rest \in Unpacked(After(text, Newline))}

IsContainer(text) == Parse(text) # {}

(* Container::param: the first of that name.                                *)
Param(c, key) ==
  LET named == {i \in DOMAIN c.params : c.params[i][1] = key}
  IN  IF named = {} THEN {}
      ELSE {c.params[CHOOSE i \in named : \A j \in named : i <= j][2]}

-----------------------------------------------------------------------------
(* mine.rs *)

LegendLine(entry) == entry[1] \o <<Equals>> \o entry[2]

(* The commits <<alias, phrase>> one after the other.                       *)
CommitAll(text, entries) ==
  LET Committed[n \in 0..Len(entries)] ==
        IF n = 0 THEN text ELSE Replace(Committed[n - 1], entries[n][2], entries[n][1])
  IN  Committed[Len(entries)]

(* Mutant: the dictionary is expanded in the order it was built.            *)
ExpandForward(body, entries) ==
  LET Expanded[n \in 0..Len(entries)] ==
        IF n = 0 THEN body ELSE Replace(Expanded[n - 1], entries[n][1], entries[n][2])
  IN  Expanded[Len(entries)]

(* Entries are expanded from the last committed to the first: a later       *)
(* phrase may contain an earlier alias.                                     *)
ExpandAll(body, entries) ==
  LET Nth(n) == entries[Len(entries) + 1 - n]
      Expanded[n \in 0..Len(entries)] ==
        IF n = 0 THEN body ELSE Replace(Expanded[n - 1], Nth(n)[1], Nth(n)[2])
  IN  Expanded[Len(entries)]

MineDecode(c) ==
  IF \E i \in DOMAIN c.legend : SplitOnce(c.legend[i], Equals) = {} THEN {}
  ELSE {ExpandAll(c.body, [i \in DOMAIN c.legend |->
                             CHOOSE e \in SplitOnce(c.legend[i], Equals) : TRUE])}

-----------------------------------------------------------------------------
(* mosaic.rs *)

(* Numerals of different numbers differ, none is empty, and none holds a    *)
(* separator.                                                               *)
Number(n) == [i \in 1..n + 1 |-> Tally]
(* str::parse of a length: the number a line spells, if it is one and small *)
(* enough to be of use here.                                                *)
Spelled(line, most) == {n \in {Len(line) - 1} : n \in 0..most /\ line = Number(n)}

MosaicBody(segs) == FlattenSeq([i \in DOMAIN segs |-> Number(Len(segs[i])) \o <<Newline>> \o segs[i]])
Mosaic(segs) == Emit(Container("mosaic", <<<<"n", Number(Len(segs))>>>>, << >>, MosaicBody(segs)))

(* The segments of a body; a frame that does not parse or overruns the body *)
(* refuses.                                                                 *)
Segments(body) ==
  LET From[t \in Texts] ==
        LET framed  == After(t, Newline)
            lengths == IF Holds(t, <<Newline>>) THEN Spelled(Before(t, Newline), Len(framed)) ELSE {}
        IN  IF t = << >> THEN {<< >>}
            ELSE UNION {{<<SubSeq(framed, 1, n)>> \o segs : segs \in From[SubSeq(framed, n + 1, Len(framed))]} :
                          n \in lengths}
  IN  From[body]

(* The declared count: 0 when the header has none.                          *)
Declared(c) == IF Param(c, "n") = {} THEN {0}
               ELSE UNION {Spelled(v, Len(c.body) + 1) : v \in Param(c, "n")}
(* Mutant: only too few segments are refused.                               *)
SplitAtLeast(c) ==
  UNION {{segs \in Segments(c.body) : Len(segs) >= n} : n \in Declared(c)}
(* split: the body holds exactly the declared segments.                     *)
SplitMosaic(c) ==
  UNION {{segs \in Segments(c.body) : Len(segs) = n} : n \in Declared(c)}

-----------------------------------------------------------------------------
(* lib.rs: one layer.  An artifact that pins a key is no layer to open      *)
(* here, and a mosaic holds no mosaic.                                      *)

DecodeFlat(c) ==
  CASE c.codec \in {"raw", "identity"} -> {c.body}
    [] c.codec = "mine"                -> MineDecode(c)
    [] OTHER                           -> {}

DecodeSegments(segs) ==
  LET Out[q \in Seq(Texts)] ==
        IF q = << >> THEN {<< >>}
        ELSE {o[1] \o o[2] : o \in (UNION {DecodeFlat(c) : c \in Parse(Head(q))}) \X Out[Tail(q)]}
  IN  Out[segs]

DecodeContainer(c) ==
  IF c.codec = "mosaic" THEN UNION {DecodeSegments(segs) : segs \in SplitMosaic(c)}
  ELSE DecodeFlat(c)

(* decode_once, and decode_all, which goes on while the text parses.        *)
DecodeOnce(text) == UNION {DecodeContainer(c) : c \in Parse(text)}
DecodeAll(text) ==
  LET All[t \in Texts] ==
        IF IsContainer(t) THEN UNION {All[inner] : inner \in DecodeOnce(t)} ELSE {t}
  IN  All[text]

-----------------------------------------------------------------------------
(* legend.rs and rules.rs: keys the reader holds.  A key is                 *)
(* [kind, sum, entries]; an entry of a legend is [alias, phrase], one of a  *)
(* rules key [alias, parts] with a one-word wildcard between two parts.     *)

NoKey == [kind |-> "none"]

(* legend.rs expand: `used` is the concatenation of the applied aliases and *)
(* an entry counts as used when its alias occurs anywhere in it.            *)
ExpandLegend(text, entries, used) ==
  LET Nth(n) == entries[Len(entries) + 1 - n]
      Expanded[n \in 0..Len(entries)] ==
        IF n = 0 THEN text
        ELSE IF Holds(used, Nth(n).alias) THEN Replace(Expanded[n - 1], Nth(n).alias, Nth(n).phrase)
        ELSE Expanded[n - 1]
  IN  Expanded[Len(entries)]

(* rules.rs: the used list read back alias by alias, the longest first.     *)
UsedAliases(used, entries) ==
  LET Read[u \in Texts] ==
        LET heads == {e \in ToSet(entries) : OccursAt(u, e.alias, 1)}
            next  == {e \in heads : \A f \in heads : Len(f.alias) <= Len(e.alias)}
        IN  IF u = << >> THEN {{}}
            ELSE UNION {{rest \cup {e.alias} : rest \in Read[SubSeq(u, Len(e.alias) + 1, Len(u))]} :
                          e \in next}
  IN  Read[used]

Refill(parts, values) ==
  FoldLeft(LAMBDA out, i : out \o values[i] \o parts[i + 1], parts[1],
           [i \in 1..Len(values) |-> i])

(* expand_spans: each START alias (SEP value)* END back to the text it      *)
(* stood for; d is [start, end, sep].                                       *)
ExpandSpans(text, entries, d, used) ==
  LET Filled[t \in Texts] ==
        LET inside == After(t, d.start)
            span   == Split(Before(inside, d.end), d.sep)
            rules  == {e \in ToSet(entries) :
                         /\ e.alias = span[1] /\ e.alias \in used
                         /\ Len(e.parts) = Len(span)}
        IN  IF ~Holds(t, <<d.start>>) THEN {t}
            ELSE IF ~Holds(inside, <<d.end>>) THEN {}
            ELSE UNION {{Before(t, d.start) \o Refill(e.parts, Tail(span)) \o rest :
                           rest \in Filled[After(inside, d.end)]} : e \in rules}
  IN  Filled[text]

(* Mutant: the checksum is not compared.                                    *)
AnyFile(c, key) == key.kind = IF c.codec = "ext" THEN "legend" ELSE "rules"
(* The exact file the artifact pins, or nothing.                            *)
SameFile(c, key) == /\ key.kind = IF c.codec = "ext" THEN "legend" ELSE "rules"
                    /\ Param(c, "sum") = {<<key.sum>>}

ExpandRules(c, inner, key) ==
  UNION {ExpandSpans(inner, key.entries, [start |-> s[1], end |-> e[1], sep |-> p[1]], aliases) :
           s \in Param(c, "start"), e \in Param(c, "end"), p \in Param(c, "sep"),
           aliases \in UNION {UsedAliases(u, key.entries) : u \in Param(c, "used")}}
ExpandKey(c, inner, key) ==
  IF ~SameFile(c, key) THEN {}
  ELSE IF c.codec = "rules" THEN ExpandRules(c, inner, key)
  ELSE {ExpandLegend(inner, key.entries, u) : u \in Param(c, "used")}

(* decode_with_keys: an outermost ext or rules container asks for its key.  *)
DecodeWithKeys(text, key) ==
  LET pinned == {c \in Parse(text) : c.codec \in {"ext", "rules"}}
  IN  IF pinned = {} THEN DecodeAll(text)
      ELSE UNION {UNION {ExpandKey(c, inner, key) : inner \in DecodeAll(c.body)} : c \in pinned}
=============================================================================
