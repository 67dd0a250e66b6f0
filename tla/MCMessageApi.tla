--------------------------- MODULE MCMessageApi ----------------------------
(***************************************************************************)
(* Two requests over two messages, a day of one tick.                      *)
(***************************************************************************)
EXTENDS MessageApi, TLC

CONSTANTS m1, m2

HandlerSymmetry == Permutations(Handlers)

OrderOf2 == [m \in {m1, m2} |-> IF m = m1 THEN 1 ELSE 2]
NoMethod == {}
ListAndDelete == {"list", "deleteOne"}
StoreAndList == {"store", "list"}
OnePeriod == {1}
Periods == {1, 2}
AllOrOne == {{m1}, {m1, m2}}
=============================================================================
