---------------------------- MODULE LinkContract ----------------------------
(* What the adapter promises its client over the pipe: every sequence       *)
(* number the client sends is answered by exactly one closing record        *)
(* (REJECTED, TERMINAL or WIRE_DONE), and streamed statuses belong to a     *)
(* number that is open.                                                     *)
CONSTANT Seqs

VARIABLES open, closed, streaming

Init == open = {} /\ closed = {} /\ streaming = {}

Send == \E S \in SUBSET (Seqs \ (open \cup closed)) :
           /\ open' = open \cup S
           /\ UNCHANGED <<closed, streaming>>

Stream == \E s \in open :
             /\ streaming' = streaming \cup {s}
             /\ UNCHANGED <<open, closed>>

Close == \E s \in open :
            /\ open' = open \ {s} /\ closed' = closed \cup {s}
            /\ streaming' = streaming \ {s}

Next == Send \/ Stream \/ Close

Spec == Init /\ [][Next]_<<open, closed, streaming>>
             /\ WF_<<open, closed, streaming>>(Close)
=============================================================================
