--------------------------- MODULE MCQueryRegistry ---------------------------
(* Three stores: artifact A opened under two plans, and artifact B.  Key 1  *)
(* is in both sections of A and of B; key 2 in both of B, in one of A.  The  *)
(* limits allow everything; one record, which cuts off a lookup of 1; two,   *)
(* which cuts off B's second answer; and nothing, which is refused.          *)
EXTENDS QueryRegistry

McLine(k) == [mark |-> NoMark, field |-> k, whole |-> 10 + k]
McPlan(layers) == [layers |-> layers, indexes |-> [n \in {"field"} |-> "field"]]
McRecords1 == [id \in {LocalId(1, 0), LocalId(2, 0), LocalId(2, 1)} |->
                 McLine(IF id = LocalId(2, 1) THEN 2 ELSE 1)]
McRecords2 == [id \in {LocalId(1, 0), LocalId(1, 1)} |->
                 McLine(IF id = LocalId(1, 0) THEN 2 ELSE NoKey)]
McRecords3 == [id \in {LocalId(1, 0), LocalId(1, 1), LocalId(2, 0), LocalId(2, 1)} |->
                 McLine(IF id[2] = 0 THEN 1 ELSE 2)]
McStores == {MakeStore("A", McPlan(1), McRecords1, {1, 2}),
             MakeStore("A", McPlan(2), McRecords2, {1}),
             MakeStore("B", McPlan(1), McRecords3, {1, 2})}
McSchemas == {SchemaV1, "qodec.query.v2"}
McQueries == {[op |-> "lookup", index |-> "field", key |-> 1],
              [op |-> "intersect", index |-> "field", sets |-> <<1, 2>>],
              [op |-> "intersect", index |-> "field", sets |-> <<2, 1, 2>>]}
McLimits == {[candidates |-> 2, support |-> 4, preview |-> 1],
             [candidates |-> 1, support |-> 1, preview |-> 1],
             [candidates |-> 1, support |-> 2, preview |-> 1],
             [candidates |-> 0, support |-> 1, preview |-> 0]}
=============================================================================
