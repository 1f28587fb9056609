----------------------------- MODULE MCForcedCell -----------------------------
(* The store of two sections; key 1 is in both, key 2 in the second twice.  *)
(* <<1, 2>> has the one answer 1; <<2>> has two candidates, of which the    *)
(* limits keep one; <<9>> is refused.                                       *)
EXTENDS ForcedCell

McKeyAt == (LocalId(1, 0) :> 1) @@ (LocalId(2, 0) :> 1) @@
           (LocalId(2, 1) :> 2) @@ (LocalId(2, 2) :> 2)
McPlan == [layers |-> 1, indexes |-> [n \in {"field"} |-> "field"]]
McStore == MakeStore("A", McPlan,
             [id \in DOMAIN McKeyAt |-> [mark |-> NoMark, field |-> McKeyAt[id], whole |-> 0]],
             {1, 2})
McLimits == [candidates |-> 2, support |-> 2, preview |-> 1]
McIntersect(sets) == [op |-> "intersect", index |-> "field", sets |-> sets]
McDialogueQueries == {McIntersect(<<1, 2>>), McIntersect(<<2>>), McIntersect(<<9>>)}
McOneQuery == {McIntersect(<<1, 2>>)}
McClaims == {BindAll(McStore, {LocalId(1, 0)}), BindAll(McStore, {LocalId(2, 1)})}
McOneClaim == {BindAll(McStore, {LocalId(1, 0)})}
McForeign == {Execute(McStore, "qodec.query.v1", McIntersect(<<1>>), McLimits).id}

McEnvelope(status, body, model, usage) ==
  [status |-> status, body |-> body, model |-> model, usage |-> usage]
McPlain == {McEnvelope("ok", "parses", "m", 1)}
McVaried == {McEnvelope("ok", "parses", "m", 1),
             McEnvelope("ok", "parses", "m", Unknown), McEnvelope("ok", "parses", NoModel, 1),
             McEnvelope("ok", "parses", "other", 1), McEnvelope("ok", "malformed", "m", 2),
             McEnvelope("ok", "not-json", "m", 2), McEnvelope("refused", "parses", "m", 0)}
=============================================================================
