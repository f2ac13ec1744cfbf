----------------------------- MODULE MCServoBus -----------------------------
(* Model checking of ServoBus: an id and a baud register, one write of     *)
(* each, a chain position with and without a predecessor.                  *)
EXTENDS ServoBus, TLC

MCRegs       == {"id", "baud"}
MCValues     == {1, 2}
MCInitTable  == [r \in MCRegs |-> IF r = "id" THEN 1 ELSE 2]
MCWrites     == {"id" :> 2, "baud" :> 2}
MCUnicastIds == {1}
MCIdBytes    == {1, 255}
=============================================================================
