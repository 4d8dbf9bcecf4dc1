--------------------------- MODULE MCBatchManager ---------------------------
(* Constants for the model checker.                                        *)
EXTENDS BatchManager

\* Asset a costs half as much as b: two of it make one index.
Weights == [a \in Assets |-> IF a = "a" THEN 2 ELSE 1]
EqualWeights == [a \in Assets |-> 1]
AllSent == {{}}
SomeUnsent == {{}, {"a"}}

=============================================================================
