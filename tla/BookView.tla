------------------------------- MODULE BookView -------------------------------
(* What readers of order books are promised: whatever is lost, delayed or     *)
(* started again, the book they see is the exchange's book of some moment. It *)
(* may be late, and may go back to an earlier moment, but no update is        *)
(* missing between those that it shows. Updates are numbered from 1.          *)
EXTENDS Integers

CONSTANT Symbols

VARIABLES traded,  \* number of the exchange's last update of a symbol
          shown    \* updates that are in its book

AtMoment(n) == 1 .. n

Init == traded \in [Symbols -> Nat] /\ shown = [s \in Symbols |-> AtMoment(0)]

Trade(s) == /\ traded'[s] > traded[s]
            /\ traded' = [traded EXCEPT ![s] = traded'[s]]
            /\ UNCHANGED shown

Refresh(s) == /\ \E n \in 0 .. traded[s] : shown' = [shown EXCEPT ![s] = AtMoment(n)]
              /\ UNCHANGED traded

Next == \E s \in Symbols : Trade(s) \/ Refresh(s)

Spec == Init /\ [][Next]_<<traded, shown>>
================================================================================
