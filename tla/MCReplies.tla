----------------------------- MODULE MCReplies -----------------------------
(* Model checking of what the bus makes of its bytes: the replies of a list, *)
(* with all the ways in which its servos can be live, dead or wedged         *)
(* (ReplyChain), and the frames behind garble, as a servo finds them         *)
(* (Framer), on the streams of FramerStreams.                                *)
EXTENDS ReplyChain, Framer, FramerStreams

VARIABLE unit   \* the part of the system this behaviour is about

-----------------------------------------------------------------------------
\* A part that is not under way stands still.
Unasked == Init /\ health = [s \in Slots |-> "live"]

Unheard ==
    /\ stream = PingFrame \o PingFrame
    /\ cursor = 0
    /\ gaps = {Len(stream)}
    /\ FramerInit

SuiteInit ==
    \/ unit = "chain" /\ Unheard /\ Init
    \/ unit = "framer" /\ Unasked /\ FramerInit

OnlyChain(A) == unit = "chain" /\ A /\ UNCHANGED <<unit, framerVars>>
OnlyFramer(A) == unit = "framer" /\ A /\ UNCHANGED <<unit, vars>>

SuiteNext ==
    \/ OnlyChain(Next)
    \/ OnlyFramer(FramerNext)

suiteVars == <<unit, vars, framerVars>>

\* Each part with the fairness of its own specification.
SuiteSpec ==
    /\ SuiteInit /\ [][SuiteNext]_suiteVars
    /\ WF_suiteVars(OnlyChain(Next))
    /\ WF_suiteVars(OnlyFramer(Arrive))
    /\ WF_suiteVars(OnlyFramer(Resolve))
    /\ WF_suiteVars(OnlyFramer(GiveUp))

-----------------------------------------------------------------------------
ASSUME RingAssumption /\ FramesAssumption /\ StreamAssumption

(* A dead or wedged predecessor never collapses the tail: every servo that  *)
(* can answer gets its turn (chain.rs, reclaim).                            *)
EveryoneReplies == \A s \in Slots :
    (unit = "chain" /\ health[s] # "dead") ~> (sent[s] # "none")

(* Whatever garble parks the resolver, every good frame is resolved once    *)
(* the wire falls silent (framer.rs, the starve horizon).                   *)
EveryFrameFound == (unit = "framer") ~> (unit = "framer" => starts \subseteq verified)
=============================================================================
