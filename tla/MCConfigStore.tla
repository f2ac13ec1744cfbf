--------------------------- MODULE MCConfigStore ---------------------------
(* Model checking of ConfigStore: two region contents, and four sequence   *)
(* numbers so that the wrapping comparison wraps within a few saves.       *)
EXTENDS ConfigStore

CONSTANTS b1, b2

MCBodies == {b1, b2}

\* the two CALIB contents differ on the second page as well
DistinctTails == [b \in MCBodies |-> b]

============================================================================
