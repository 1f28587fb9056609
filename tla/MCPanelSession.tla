---------------------------- MODULE MCPanelSession ----------------------------
(* Three sections and three keys.  With two candidates and two records      *)
(* allowed: lookups of 1 and 2 find one record too many and exactly enough; *)
(* the sections <<1, 2>> hold two answers of which only the first fits,     *)
(* <<1, 3>> one answer, <<2>> two, <<1>> three, <<4>> none; <<9>> does not   *)
(* exist.                                                                  *)
EXTENDS PanelSession, TLC

McKeyAt == (LocalId(1, 0) :> 1) @@ (LocalId(1, 1) :> 2) @@ (LocalId(1, 2) :> 3) @@
           (LocalId(2, 0) :> 1) @@ (LocalId(2, 1) :> 2) @@ (LocalId(3, 0) :> 1)
McPlan == [layers |-> 1, indexes |-> [n \in {"field"} |-> "field"]]
McStore == MakeStore("A", McPlan,
             [id \in DOMAIN McKeyAt |-> [mark |-> NoMark, field |-> McKeyAt[id], whole |-> 0]],
             {1, 2, 3, 4})
McOther == MakeStore("B", McPlan, McStore.records, {1, 2, 3, 4})
McLimits == [candidates |-> 2, support |-> 2, preview |-> 1]

McLookup(k) == [op |-> "lookup", index |-> "field", key |-> k]
McIntersect(sets) == [op |-> "intersect", index |-> "field", sets |-> sets]
McQueries == {McLookup(1), McLookup(2), McIntersect(<<1, 2>>), McIntersect(<<1, 3>>),
              McIntersect(<<3, 1, 3>>), McIntersect(<<2>>), McIntersect(<<1>>),
              McIntersect(<<4>>), McIntersect(<<9>>)}
McForeign == {Execute(McOther, SchemaV1, McIntersect(<<1, 3>>), McLimits).id}

(* Nothing; one record; the whole evidence of the answer of <<1, 3>>; a     *)
(* record no issued result of <<1, 3>> supports; another store's record.    *)
McLocals(st, ids) == BindAll(st, ids)
McClaims == {{}, McLocals(McStore, {LocalId(1, 0), LocalId(3, 0)}),
             McLocals(McStore, {LocalId(2, 1)}), McLocals(McOther, {LocalId(1, 0)})}
=============================================================================
