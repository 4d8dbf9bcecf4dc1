---------------------------- MODULE MCCollateral ----------------------------
(* Constants for the model checker.                                        *)
EXTENDS Collateral

\* Orders of different sizes: the first needs both of the first two deposits,
\* the others share a lot.
TwoOrders == <<"o1", "o2">>
ThreeOrders == TwoOrders \o <<"o3">>
OrderAmounts == [o \in Orders |-> CASE o = "o1" -> 5 [] o = "o2" -> 3 [] o = "o3" -> 4]
DepositAmounts == [d \in Deposits |-> d + 2]

=============================================================================
