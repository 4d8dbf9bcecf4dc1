---------------------------- MODULE MCEngagements -----------------------------
(* Two orders of different indexes that share an asset, in one batch.         *)
EXTENDS Engagements

OneAndTwo == "i" :> ("a" :> 1 @@ "b" :> 2) @@ "j" :> ("b" :> 1)

\* A best level of a size, deeper liquidity, and none.
Level(p, q) == [price |-> p, quantity |-> q]
AskBooks == {<<>>, <<Level(2, 3)>>, <<Level(4, 4), Level(5, 9), Level(6, 90)>>,
             <<Level(2, 40), Level(4, 9)>>}

Half == Ratio(1, 2)
Fee == Ratio(5, 4)
Forty == Int2Ratio(40)
Fifty == Int2Ratio(50)
Four == Int2Ratio(4)
Three == Int2Ratio(3)
Hundred == Int2Ratio(100)
Ten == Int2Ratio(10)
================================================================================
