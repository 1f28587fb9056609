--------------------------- MODULE EvidencePromise ---------------------------
(***************************************************************************)
(* What the forced-query arm promises, with no registry, handle, bound or   *)
(* transcript: records are disclosed only as evidence of a question that is *)
(* open, and an answer is accepted only when it is the one true answer of   *)
(* an open question.                                                       *)
(***************************************************************************)
CONSTANTS Questions,  \* the questions that can be asked of the store
          Truth,      \* question -> its true answers
          Proof       \* question -> the records that bear on its true answers

VARIABLES open,      \* questions currently backed by an issued result
          disclosed, \* record ids whose bytes were returned
          accepted   \* <<question, answer>> pairs accepted

Init == open = {} /\ disclosed = {} /\ accepted = {}

Ask(q) == /\ open' = open \cup {q}
          /\ UNCHANGED <<disclosed, accepted>>
Forget(q) == /\ open' = open \ {q}
             /\ UNCHANGED <<disclosed, accepted>>
Disclose(q, ids) == /\ q \in open
                    /\ ids \subseteq Proof[q]
                    /\ disclosed' = disclosed \cup ids
                    /\ UNCHANGED <<open, accepted>>
Accept(q, answer) == /\ q \in open
                     /\ Truth[q] = {answer}
                     /\ accepted' = accepted \cup {<<q, answer>>}
                     /\ UNCHANGED <<open, disclosed>>

Next == \E q \in Questions :
          \/ Ask(q)
          \/ Forget(q)
          \/ \E ids \in SUBSET Proof[q] : Disclose(q, ids)
          \/ \E answer \in Truth[q] : Accept(q, answer)

Spec == Init /\ [][Next]_<<open, disclosed, accepted>>
=============================================================================
