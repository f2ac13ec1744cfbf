---------------------------- MODULE MCDispatcher ----------------------------
(* Model checking of Dispatcher: an id with immediate bounds, a pair of    *)
(* limits that each carry a rule against the other, a goal of the CONTROL  *)
(* region bounded in magnitude by one of them, an enum and a read-only     *)
(* register; writes of one or two adjacent registers, one of them past the *)
(* end of the map.                                                         *)
EXTENDS Dispatcher, TLC

MCRegs       == {"id", "min", "max", "goal", "mode", "ro"}
MCValues     == -2 .. 3
MCWritable   == MCRegs \ {"ro"}
MCPersistent == {"id", "min", "max"}
Cmp(reg, op, rhs) == [reg |-> reg, op |-> op, abs |-> FALSE, imm |-> FALSE,
                      rhs |-> rhs]
MCRules      == {Cmp("min", "lt", "max"), Cmp("max", "gt", "min"),
                 [Cmp("id", "ge", 1) EXCEPT !.imm = TRUE],
                 [Cmp("id", "le", 2) EXCEPT !.imm = TRUE],
                 [Cmp("goal", "le", "max") EXCEPT !.abs = TRUE]}
MCAllowed    == {[reg |-> "mode", allowed |-> {0, 1}]}
MCUnicastIds == {1}
MCIdBytes    == {1, 255}
MCInitTable  == [r \in MCRegs |-> CASE r = "max" -> 2
                                    [] r = "id" -> 1
                                    [] OTHER -> 0]
MCOldImages  == {[MCInitTable EXCEPT !["id"] = 2]}
MCWrites     ==
    {"id" :> 2, "id" :> 3, "min" :> 1, "max" :> 1, "goal" :> -2,
     "min" :> 0 @@ "max" :> 2, "min" :> 1 @@ "max" :> 1,
     "goal" :> 0 @@ "mode" :> 2, "ro" :> 1, "past" :> 1}
=============================================================================
