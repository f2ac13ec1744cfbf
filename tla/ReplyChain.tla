----------------------------- MODULE ReplyChain -----------------------------
(***************************************************************************)
(* A GREAD reply chain: the servos a group read lists answer one after the *)
(* other on one half-duplex wire, each counting the status frames before   *)
(* its own.  Nobody arbitrates: a slot is taken from a predecessor only    *)
(* because that one's reclaim window expired without a break.              *)
(*                                                                         *)
(* Each servo runs the Chain state machine; the wire carries a reply as a  *)
(* break followed by a frame.  Time is in ticks, 0 being the end of the    *)
(* GREAD.  Every interrupt -- a deadline, a break wake, a frame end -- is  *)
(* served within Latency ticks, in any order with the others that are due. *)
(***************************************************************************)
EXTENDS Integers, Sequences, FiniteSets

CONSTANTS
    N,              \* servos in the list; the slot of a servo is its index
    ReplyGap,       \* REPLY_GAP_US
    Reclaim,        \* RESPONSE_DEADLINE
    Allowance,      \* frame_allowance: the longest frame, and slack
    BreakLen,       \* from the trigger to the end of the break
    FrameLen,       \* from the end of the break to the end of the frame
    Latency         \* the longest an interrupt is delayed

Slots == 0 .. N - 1

ASSUME SlotsAssumption == N \in Nat \ {0}
ASSUME TicksAssumption == {ReplyGap, Reclaim, Allowance, BreakLen, FrameLen, Latency} \subseteq Nat

(* The windows cover what they are there to cover: a break lead, with the  *)
(* skew that every reclaimed slot in a row adds, and a whole frame.  A     *)
(* break outlasts that skew, so a window that ran out is served before the *)
(* break of the servo that took the slot is over.                          *)
ASSUME LeadAssumption  == BreakLen + N * Latency < Reclaim
ASSUME SkewAssumption  == (N - 1) * Latency < BreakLen
ASSUME FrameAssumption == FrameLen + Latency < Allowance

VARIABLES
    now,
    health,         \* health[k]: live, dead, or wedged once its break is out
    chain,          \* chain[k]: Chain.state and the tick chain_at
    wire,           \* wire[k]: what servo k drives onto the wire
    heard,          \* heard[k]: wire events servo k has still to serve
    sent            \* sent[k]: none, clean, or flagged predecessor-silent

vars == <<now, health, chain, wire, heard, sent>>

Quiet == [st |-> "off", until |-> 0]
Idle  == [st |-> "idle", remaining |-> 0, silent |-> FALSE, at |-> 0]

(* Chain::on_reply_staged, for an instruction that ended at tick 0.        *)
OnReplyStaged(k) ==
    IF k = 0
    THEN [st |-> "pending", remaining |-> 0, silent |-> FALSE, at |-> ReplyGap]
    ELSE [st |-> "waiting", remaining |-> k, silent |-> FALSE,
          at |-> ReplyGap + Reclaim]

Init ==
    /\ now = 0
    /\ health \in [Slots -> {"live", "dead", "wedged"}]
    /\ chain = [k \in Slots |-> IF health[k] = "dead" THEN Idle ELSE OnReplyStaged(k)]
    /\ wire = [k \in Slots |-> Quiet]
    /\ heard = [k \in Slots |-> <<>>]
    /\ sent = [k \in Slots |-> "none"]

(* What the others hear of servo k; its own transmission never rings.      *)
Tell(k, what) ==
    heard' = [o \in Slots |-> IF o = k THEN heard[o]
                              ELSE Append(heard[o], [ev |-> what, at |-> now])]

-----------------------------------------------------------------------------
(* Chain::on_deadline.                                                     *)

Due(k) == chain[k].st # "idle" /\ now >= chain[k].at

(* The reply goes out: a pending one as it stands, a waiting one because   *)
(* its last predecessor stayed silent.                                     *)
Trigger(k) ==
    /\ Due(k)
    /\ chain[k].st = "pending" \/ chain[k].remaining = 1
    /\ chain' = [chain EXCEPT ![k] = Idle]
    /\ wire' = [wire EXCEPT ![k] = [st |-> "break", until |-> now + BreakLen]]
    /\ sent' = [sent EXCEPT ![k] =
                   IF chain[k].silent \/ chain[k].st = "waiting" THEN "flagged" ELSE "clean"]
    /\ UNCHANGED <<now, health, heard>>

(* Variants of ReclaimOne: the window runs out for all predecessors at     *)
(* once; a silent predecessor ends the chain.                              *)
ReclaimAll(k) ==
    /\ Due(k)
    /\ chain[k].st = "waiting"
    /\ chain[k].remaining > 1
    /\ chain' = [chain EXCEPT ![k].remaining = 1, ![k].silent = TRUE]
    /\ UNCHANGED <<now, health, wire, heard, sent>>

ReclaimGivesUp(k) ==
    /\ Due(k)
    /\ chain[k].st = "waiting"
    /\ chain[k].remaining > 1
    /\ chain' = [chain EXCEPT ![k] = Idle]
    /\ UNCHANGED <<now, health, wire, heard, sent>>

(* A reclaim window expired with more predecessors to go: the next window  *)
(* runs from now.                                                          *)
ReclaimOne(k) ==
    /\ Due(k)
    /\ chain[k].st = "waiting"
    /\ chain[k].remaining > 1
    /\ chain' = [chain EXCEPT ![k] =
                     [chain[k] EXCEPT !.remaining = @ - 1, !.silent = TRUE,
                                      !.at = now + Reclaim]]
    /\ UNCHANGED <<now, health, wire, heard, sent>>

-----------------------------------------------------------------------------
(* The wire.                                                               *)

BreakEnds(k) ==
    /\ wire[k].st = "break"
    /\ now = wire[k].until
    /\ wire' = [wire EXCEPT ![k] = IF health[k] = "wedged" THEN Quiet
                                   ELSE [st |-> "frame", until |-> now + FrameLen]]
    /\ Tell(k, "break")
    /\ UNCHANGED <<now, health, chain, sent>>

FrameEnds(k) ==
    /\ wire[k].st = "frame"
    /\ now = wire[k].until
    /\ wire' = [wire EXCEPT ![k] = Quiet]
    /\ Tell(k, "end")
    /\ UNCHANGED <<now, health, chain, sent>>

Heard(k, what) ==
    /\ heard[k] # <<>>
    /\ Head(heard[k]).ev = what
    /\ heard' = [heard EXCEPT ![k] = Tail(@)]

(* Variant of OnBreakObserved that does not suspend the window.            *)
BreakIgnored(k) ==
    /\ Heard(k, "break")
    /\ UNCHANGED <<now, health, chain, wire, sent>>

(* Chain::on_break_observed: the window of a predecessor that is talking   *)
(* is suspended for one frame.                                             *)
OnBreakObserved(k) ==
    /\ Heard(k, "break")
    /\ chain' = IF chain[k].st = "waiting"
                THEN [chain EXCEPT ![k].at = now + Allowance]
                ELSE chain
    /\ UNCHANGED <<now, health, wire, sent>>

(* Variant of OnStatusEnd: an expired window is forgotten.                 *)
StatusEndForgets(k) ==
    /\ Heard(k, "end")
    /\ chain' = IF chain[k].st # "waiting" THEN chain
                ELSE [chain EXCEPT ![k] =
                         IF @.remaining = 1
                         THEN [@ EXCEPT !.st = "pending", !.remaining = 0,
                                        !.silent = FALSE, !.at = now + ReplyGap]
                         ELSE [@ EXCEPT !.remaining = @ - 1, !.silent = FALSE,
                                        !.at = now + ReplyGap + Reclaim]]
    /\ UNCHANGED <<now, health, wire, sent>>

(* Chain::on_status_end: one predecessor less, timed from the wake that    *)
(* finds the frame complete (Framer's fast path: packet_end is now).       *)
OnStatusEnd(k) ==
    /\ Heard(k, "end")
    /\ chain' = IF chain[k].st # "waiting" THEN chain
                ELSE [chain EXCEPT ![k] =
                         IF chain[k].remaining = 1
                         THEN [chain[k] EXCEPT !.st = "pending", !.remaining = 0,
                                               !.at = now + ReplyGap]
                         ELSE [chain[k] EXCEPT !.remaining = @ - 1,
                                               !.at = now + ReplyGap + Reclaim]]
    /\ UNCHANGED <<now, health, wire, sent>>

-----------------------------------------------------------------------------
(* Time passes as long as something is under way and nothing is overdue.   *)

Busy == \E k \in Slots : \/ chain[k].st # "idle"
                         \/ wire[k].st # "off"
                         \/ heard[k] # <<>>

Tick ==
    /\ Busy
    /\ \A k \in Slots :
          /\ chain[k].st # "idle" => now < chain[k].at + Latency
          /\ wire[k].st # "off" => now < wire[k].until
          /\ heard[k] # <<>> => now < Head(heard[k]).at + Latency
    /\ now' = now + 1
    /\ UNCHANGED <<health, chain, wire, heard, sent>>

Step(k) == \/ Trigger(k) \/ ReclaimOne(k) \/ BreakEnds(k) \/ FrameEnds(k)
           \/ OnBreakObserved(k) \/ OnStatusEnd(k)

Next == Tick \/ \E k \in Slots : Step(k)

(* Interrupts are served and time goes on.                                 *)
Spec == Init /\ [][Next]_vars /\ WF_vars(Next)

-----------------------------------------------------------------------------
TypeOK ==
    /\ now \in Nat
    /\ health \in [Slots -> {"live", "dead", "wedged"}]
    /\ chain \in [Slots -> [st : {"idle", "pending", "waiting"},
                            remaining : Slots, silent : BOOLEAN, at : Nat]]
    /\ \A k \in Slots : chain[k].st = "waiting" => chain[k].remaining > 0
    /\ wire \in [Slots -> [st : {"off", "break", "frame"}, until : Nat]]
    /\ heard \in [Slots -> Seq([ev : {"break", "end"}, at : Nat])]
    /\ sent \in [Slots -> {"none", "clean", "flagged"}]

(* No two servos ever drive the wire at the same time, whichever of them   *)
(* are dead or stop after their break: a slot is reclaimed only from one   *)
(* that will not speak (osc-native sec 6).                                 *)
OneTalker == \A j, k \in Slots :
    wire[j].st # "off" /\ wire[k].st # "off" => j = k

(* The error field tells the truth: a reply is flagged predecessor-silent  *)
(* exactly if some predecessor did not deliver its frame.                  *)
FlagIsTrue == \A k \in Slots :
    /\ sent[k] = "flagged" => \E j \in Slots : j < k /\ health[j] # "live"
    /\ sent[k] = "clean" => \A j \in Slots : j < k => health[j] = "live"

(* Replies leave in list order: a reclaimed slot never overtakes one that  *)
(* answers.                                                                *)
ListOrder == \A j, k \in Slots :
    j < k /\ health[j] # "dead" /\ sent[k] # "none" => sent[j] # "none"
=============================================================================
