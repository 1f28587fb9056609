------------------------------ MODULE StoreOpen ------------------------------
(***************************************************************************)
(* StorePlan::new, CanonicalStore::open and segment (src/src/store.rs) as   *)
(* the code runs them: the plan is checked, exactly the declared number of  *)
(* container layers is decoded, the text of that depth is divided line by   *)
(* line, and only then does a store exist.                                  *)
(*                                                                         *)
(* An artifact is [digest, readings]: readings[k] is the sequence of lines  *)
(* that k successful calls of decode_once leave; a call beyond the last     *)
(* reading fails.  A payload that looks like a container has a further      *)
(* reading it was never meant to have.                                      *)
(*                                                                         *)
(* A request is [layers, seg, specs]: seg is [kind, section] with kind      *)
(* "lines", "marked", or "bare" (marked with neither prefix nor suffix),    *)
(* and specs is a sequence of [name, extractor].                            *)
(***************************************************************************)
EXTENDS CanonicalStore, Sequences

CONSTANTS Artifacts, Requests,
          MaxOpens   \* bound: stores opened in one behaviour

(* A decoded line, as CanonicalStore reads it.  Equal digests mean equal    *)
(* texts: the digest is taken to have no collisions.                        *)
Line == [mark : Nat \cup {NoMark, BadName}, field : Nat \cup {NoKey}, whole : Nat]

ASSUME ReadingsAreTexts ==
  \A a \in Artifacts : a.readings \in Seq(Seq(Line))
ASSUME DigestsTellApart ==
  \A a, b \in Artifacts : a.digest = b.digest => a.readings = b.readings
ASSUME RequestsAreTyped ==
  \A r \in Requests : r.layers \in Nat /\ r.seg.section \in Nat

VARIABLES opened,    \* the stores returned so far
          phase,     \* where the current call is
          artifact, request,
          layer,     \* layers decoded
          cursor,    \* next line, from 1
          current,   \* section the next record belongs to
          ordinal,   \* its position there
          records, sections

vars == <<opened, phase, artifact, request, layer, cursor, current, ordinal,
          records, sections>>
locals == <<layer, cursor, current, ordinal, records, sections>>

NoSection == 0

Fresh == /\ layer' = 0 /\ cursor' = 1 /\ current' = NoSection /\ ordinal' = 0
         /\ records' = << >> /\ sections' = {}

Init == /\ opened = {}
        /\ phase = "idle"
        /\ artifact \in Artifacts /\ request \in Requests
        /\ layer = 0 /\ cursor = 1 /\ current = NoSection /\ ordinal = 0
        /\ records = << >> /\ sections = {}

Call == /\ phase \in {"idle", "refused"}
        /\ Cardinality(opened) < MaxOpens
        /\ phase' = "plan"
        /\ artifact' \in Artifacts /\ request' \in Requests
        /\ Fresh
        /\ UNCHANGED opened

(* Every `?` and `bail!`: the call ends without a store.                    *)
Refuse == /\ phase' = "refused"
          /\ UNCHANGED <<opened, artifact, request, locals>>

(* StorePlan::new: a depth of at least one, no index name twice.            *)
Repeats(specs) == \E i, j \in DOMAIN specs : i # j /\ specs[i].name = specs[j].name
PlanRefused == /\ phase = "plan"
               /\ request.layers = 0 \/ Repeats(request.specs)
               /\ Refuse
PlanAccepted == /\ phase = "plan"
                /\ request.layers > 0 /\ ~Repeats(request.specs)
                /\ phase' = "decode"
                /\ UNCHANGED <<opened, artifact, request, locals>>

(* The plan as the store knows it: its specs sorted by name.                *)
Plan == [layers  |-> request.layers,
         seg     |-> request.seg,
         indexes |-> [n \in {request.specs[i].name : i \in DOMAIN request.specs} |->
                        LET i == CHOOSE i \in DOMAIN request.specs : request.specs[i].name = n
                        IN  request.specs[i].extractor]]

LayerDecodes == layer + 1 \in DOMAIN artifact.readings
DecodeLayer == /\ phase = "decode"
               /\ layer < request.layers
               /\ LayerDecodes
               /\ layer' = layer + 1
               /\ UNCHANGED <<opened, phase, artifact, request, cursor, current, ordinal,
                              records, sections>>
DecodeFails == /\ phase = "decode"
               /\ layer < request.layers
               /\ ~LayerDecodes
               /\ Refuse

(* A mutant: unwrap until nothing parses, as decode_all does.               *)
DepthByGuess == /\ phase = "decode" /\ layer > 0 /\ ~LayerDecodes

(* The depth is reached: its text is the payload, whatever it looks like.   *)
(* The first section is declared before any line is read.                   *)
Depth == /\ phase = "decode" /\ layer = request.layers
BareMarkers == Depth /\ request.seg.kind = "bare" /\ Refuse
StartSegment == /\ Depth
                /\ request.seg.kind # "bare"
                /\ phase' = "segment"
                /\ sections' = {request.seg.section}
                /\ current' = request.seg.section
                /\ UNCHANGED <<opened, artifact, request, layer, cursor, ordinal, records>>

Text == artifact.readings[layer]
AtLine == phase = "segment" /\ cursor <= Len(Text)
IsMarker(line) == request.seg.kind = "marked" /\ line.mark # NoMark

(* A marker whose name does not parse, or names a section already open.     *)
MarkerRefused == /\ AtLine
                 /\ IsMarker(Text[cursor])
                 /\ Text[cursor].mark \in {BadName} \cup sections
                 /\ Refuse

(* Mutant: the ordinals of the section before continue.                    *)
OpenWithoutReset == /\ AtLine
                    /\ IsMarker(Text[cursor])
                    /\ Text[cursor].mark \notin {BadName} \cup sections
                    /\ sections' = sections \cup {Text[cursor].mark}
                    /\ current' = Text[cursor].mark
                    /\ cursor' = cursor + 1
                    /\ UNCHANGED <<opened, phase, artifact, request, layer, ordinal, records>>
(* A new section starts at ordinal 0.                                       *)
OpenSection == /\ AtLine
               /\ IsMarker(Text[cursor])
               /\ Text[cursor].mark \notin {BadName} \cup sections
               /\ sections' = sections \cup {Text[cursor].mark}
               /\ current' = Text[cursor].mark
               /\ ordinal' = 0
               /\ cursor' = cursor + 1
               /\ UNCHANGED <<opened, phase, artifact, request, layer, records>>

(* insert_record: an id already issued is refused, never overwritten.       *)
Here == LocalId(current, ordinal)
InsertRecord ==
  /\ AtLine
  /\ ~IsMarker(Text[cursor])
  /\ IF Here \in DOMAIN records
     THEN Refuse
     ELSE /\ records' = [id \in DOMAIN records \cup {Here} |->
                          IF id = Here THEN Text[cursor] ELSE records[id]]
          /\ ordinal' = ordinal + 1
          /\ cursor' = cursor + 1
          /\ UNCHANGED <<opened, phase, artifact, request, layer, current, sections>>

(* The last line is read: the indexes are built and the store returned.     *)
Return == /\ phase = "segment"
          /\ cursor > Len(Text)
          /\ opened' = opened \cup {MakeStore(artifact.digest, Plan, records, sections)}
          /\ phase' = "idle"
          /\ Fresh
          /\ UNCHANGED <<artifact, request>>

Next == \/ Call
        \/ PlanRefused \/ PlanAccepted
        \/ DecodeLayer \/ DecodeFails
        \/ BareMarkers \/ StartSegment
        \/ MarkerRefused \/ OpenSection \/ InsertRecord
        \/ Return

Spec == Init /\ [][Next]_vars

-----------------------------------------------------------------------------
(* What the text at the declared depth says, with no cursor.                *)
DeclaredText == artifact.readings[request.layers]
MarkersUpTo(n) == {m \in 1..n : IsMarker(DeclaredText[m])}
RecordLines(n) == (1..n) \ MarkersUpTo(n)
Opener(n) == CHOOSE m \in MarkersUpTo(n) : \A p \in MarkersUpTo(n) : p <= m
Place(n) ==
  LET start == IF MarkersUpTo(n) = {} THEN 0 ELSE Opener(n)
  IN  LocalId(IF start = 0 THEN request.seg.section ELSE DeclaredText[start].mark,
              n - start - 1)

(* Position is identity: at any moment of segmentation the lines read so    *)
(* far that are not markers, at the declared depth and no other, are the    *)
(* records, one each, under the section of the last marker before them and  *)
(* their distance from it.  Two equal lines stay two records                *)
(* (store.rs:17-27).                                                        *)
EveryLineIsOneRecord ==
  phase = "segment" =>
    /\ DOMAIN records = {Place(n) : n \in RecordLines(cursor - 1)}
    /\ \A n \in RecordLines(cursor - 1) : records[Place(n)] = DeclaredText[n]
    /\ Cardinality(DOMAIN records) = Cardinality(RecordLines(cursor - 1))
    /\ sections = {request.seg.section} \cup
                    {DeclaredText[m].mark : m \in MarkersUpTo(cursor - 1)}

(* Which calls succeed depends on the plan and on the text at its depth     *)
(* alone: never on whether that text itself looks like a container, and a   *)
(* layer that does not decode is never taken for the payload                *)
(* (store.rs:306-334).                                                      *)
Openable ==
  /\ request.layers > 0 /\ ~Repeats(request.specs)
  /\ request.layers <= Len(artifact.readings)
  /\ request.seg.kind # "bare"
  /\ LET text == DeclaredText IN
     \A m \in MarkersUpTo(Len(text)) :
       /\ text[m].mark \notin {BadName, request.seg.section}
       /\ \A p \in MarkersUpTo(m) : text[p].mark = text[m].mark => p = m
OpensExactlyWhatIsDeclared ==
  /\ phase = "refused" => ~Openable
  /\ phase = "segment" /\ cursor > Len(Text) => Openable

(* A record id means its record in every store that resolves it: an id of   *)
(* one opened store is refused by every store with another artifact, depth, *)
(* segmentation or index, and resolves to the same bytes in one opened the  *)
(* same way (store.rs:556-578).                                             *)
IdsResolveInTheirStoreOnly ==
  \A s, t \in opened : \A l \in DOMAIN s.records :
    LET id == Bind(s, l) IN
    /\ Materializable(t, {id}) => s.artifact = t.artifact /\ s.plan = t.plan
    /\ s.artifact = t.artifact /\ s.plan = t.plan =>
         Materializable(t, {id}) /\ Bytes(t, {id}) = Bytes(s, {id})
=============================================================================
