---------------------------- MODULE MCProfileFile ----------------------------
(* Three phrases of which a profile keeps two; one is longer, so that a rare *)
(* long phrase and a frequent short one can weigh the same.                  *)
EXTENDS ProfileFile, TLC

McBytes == (1 :> 1) @@ (2 :> 1) @@ (3 :> 2)
McLearn(counts) == [kind |-> "learn", counts |-> counts, probes |-> 0]
McTrain == [kind |-> "train", counts |-> << >>, probes |-> 1]
McRuns == {<<McLearn(1 :> 2 @@ 2 :> 1)>>, <<McLearn(3 :> 1), McLearn(2 :> 1)>>, <<McTrain>>}
(* The runs of one memory beside the phrases of another.                    *)
McSplices == {[runs |-> 3, phrases |-> 1 :> 2 @@ 2 :> 1, samples |-> 0]}
McShortRuns == {<<McLearn(1 :> 1)>>, <<McTrain>>}
=============================================================================
