------------------------- MODULE MCManagedStorage --------------------------
(***************************************************************************)
(* Small instances of ManagedStorage: a few messages, a day of one tick,   *)
(* retention periods that are absent, short and long.                      *)
(***************************************************************************)
EXTENDS ManagedStorage

CONSTANTS m1, m2, m3

OrderOf2 == [m \in {m1, m2} |-> IF m = m1 THEN 1 ELSE 2]
OrderOf3 == [m \in {m1, m2, m3} |-> IF m = m1 THEN 1 ELSE IF m = m2 THEN 2 ELSE 3]

NoMethod == {}
AllMethods == Methods
DeleteAllOnly == {"deleteAll"}
WritesOnly == {"store", "deleteAll"}
Periods == {-1, 1, 2}
=============================================================================
