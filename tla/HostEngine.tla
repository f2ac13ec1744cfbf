----------------------------- MODULE HostEngine -----------------------------
(* The host engine of the adapter, HostBus: one outstanding command, whose  *)
(* protocol deadlines all execute here.  The main loop submits and polls    *)
(* under a critical section and the USART and SysTick vectors share one     *)
(* preemption class, so every handler below is atomic; what interleaves is  *)
(* the order in which they run, the clock, and the bytes the servos send.   *)
(*                                                                          *)
(* A frame is a plan (its Shape).  The receive ring is the sequence of what *)
(* the framer will make of its unconsumed bytes: a CRC-clean status, junk   *)
(* (garble or a rogue instruction), or, last only, the start of a frame     *)
(* whose end has not arrived.  A tick value at is kept as the distance      *)
(* at - now, modulo the width of the counter: the code only ever looks at   *)
(* differences.                                                             *)
EXTENDS Integers, Sequences

CONSTANTS
    TickMod,     \* modulus of the tick counter
    ByteTicks,   \* ticks per character, for each rate
    RescueRate,  \* the rescue rate, a member of DOMAIN ByteTicks
    Horizon,     \* STARVE_HORIZON_BYTE_TIMES
    Margin,      \* WINDOW_MARGIN_BYTES
    EnumSlots,   \* ENUM_REPLY_SLOTS
    SlowExtra,   \* SLOW_OP_EXTRA_US in ticks
    RescueHold,  \* RESCUE_HOLD_US in ticks
    Plans,       \* the shapes an exchange may have
    Deadlines,   \* values of RESPONSE_DEADLINE, in ticks
    Pulses,      \* widths of instrument pulses, in ticks
    Trains,      \* instrument trains: records breaks, gap
    Bursts,      \* numbers of frames in an instrument burst
    WireRates,   \* rates an instrument rate change may ask for
    Latency,     \* ticks by which an interrupt may be late
    PollLag,     \* ticks by which the main loop may be late
    FleetRD,     \* the servos' RESPONSE_DEADLINE: a dead slot is reclaimed then
    Lead,        \* ticks within which a live servo starts its reply
    MaxDeadRun,  \* consecutive dead slots of a chain
    MaxNoise     \* bound on corrupted replies and stray bytes

Rates == DOMAIN ByteTicks
None == -1
NoPlan == [replies |-> "None", n |-> 0, bytes |-> 0, train |-> 0, gap |-> 0, slow |-> FALSE]
NoDone == [outcome |-> "none", got |-> 0, junk |-> FALSE]
NoJob == [frames |-> 0, breaks |-> 0, gap |-> 0]

ASSUME EngineAssumption ==
    /\ TickMod \in Nat \ {0} /\ RescueRate \in Rates
    /\ \A r \in Rates : ByteTicks[r] \in Nat \ {0} /\ ByteTicks[r] <= ByteTicks[RescueRate]
    /\ \A p \in Plans : p.replies \in {"None", "Single", "Chain", "Collect"}

(* How far ahead a deadline may lie before the half-range compare takes it  *)
(* for a past one.                                                          *)
Reach == TickMod - (TickMod - 1) \div 2

(* window_for at deadline rd and rate r, for plan p. *)
Window(p, rd, r) ==
    rd + (p.bytes + Margin) * ByteTicks[r]
      + (IF p.replies = "Collect" THEN EnumSlots * ByteTicks[r] ELSE 0)
      + (IF p.slow THEN SlowExtra ELSE 0)

(* The timing the board and the fleet are set up for: every span the engine *)
(* arms is within reach of the compare, a late handler stays within it, and *)
(* the window outlives the longest run of dead slots and the next servo's   *)
(* lead.                                                                    *)
ASSUME TimingAssumption ==
    /\ TickMod > 2 /\ {Horizon, EnumSlots, FleetRD, Lead, Latency, PollLag} \subseteq Nat
    /\ {Margin, SlowExtra, MaxDeadRun} \subseteq Nat \ {0}
    /\ Latency < (TickMod - 1) \div 2 /\ PollLag < (TickMod - 1) \div 2
    /\ RescueHold \in 0 .. TickMod /\ Pulses \subseteq 0 .. TickMod /\ Deadlines \subseteq Nat
    /\ MaxNoise \in Nat /\ WireRates \subseteq Rates
    /\ \A r \in Rates : Horizon * ByteTicks[r] \in 1 .. Reach
    /\ \A t \in Trains : t.breaks \in Nat /\ t.gap \in 1 .. Reach
    /\ \A p \in Plans :
          /\ p.n \in Nat /\ p.bytes \in Nat /\ p.train \in Nat /\ p.slow \in BOOLEAN
          /\ p.train # 0 => p.gap \in 1 .. Reach
          /\ p.replies # "None" => \A rd \in Deadlines, r \in Rates :
                /\ Window(p, rd, r) <= Reach
                /\ MaxDeadRun * FleetRD + Lead < rd + (p.bytes + Margin) * ByteTicks[r]

VARIABLES
    state, left, gap,   \* State, and the fields of its train variants
    deadline_at,        \* the current state's deadline
    plan, rate, response_deadline,
    pace_until,         \* end of the enforced silence, or None
    got, junk,          \* evidence: statuses delivered, garble seen
    fresh,              \* ring.cursor() # last_cursor
    pending_done, pending_wire_done,
    job,                \* WireJob: frames still to send, staged train
    claimed,            \* TxWire: the host drives the line
    txArmed,            \* a span is on the wire, its TC will come
    ring, talk, quiet, sending, noise,  \* the wire and the servos
    calm, ideal, spoke                  \* what the properties speak of

trainVars == <<left, gap, ideal>>
settings == <<rate, response_deadline>>
evidence == <<got, junk, fresh>>
paceVars == <<pace_until, calm>>
terminals == <<pending_done, pending_wire_done>>
drive == <<claimed, txArmed>>
servos == <<talk, quiet, sending, noise>>
vars == <<state, trainVars, deadline_at, plan, settings, paceVars, evidence, terminals,
          job, drive, ring, servos, spoke>>

-----------------------------------------------------------------------------
(* tick_reached(now, at) of the distance d = at - now. *)
tick_reached(d) == (-d) % TickMod < (TickMod - 1) \div 2
Due == tick_reached(deadline_at)
Lateness == (-deadline_at) % TickMod

byte_ticks == ByteTicks[rate]
MaxCalm == Horizon * ByteTicks[RescueRate]

(* Variant of window_for without the margin and the ENUM slots.             *)
window_for_sans_margin ==
    response_deadline + plan.bytes * byte_ticks
      + (IF plan.slow THEN SlowExtra ELSE 0)

window_for == Window(plan, response_deadline, rate)

Init ==
    /\ state = "Idle" /\ left = 0 /\ gap = 0 /\ deadline_at = 0
    /\ plan = NoPlan /\ rate \in Rates \ {RescueRate} /\ response_deadline \in Deadlines
    /\ pace_until = None /\ got = 0 /\ junk = FALSE /\ fresh = FALSE
    /\ pending_done = NoDone /\ pending_wire_done = FALSE
    /\ job = NoJob /\ claimed = FALSE /\ txArmed = FALSE
    /\ ring = <<>> /\ talk = <<>> /\ quiet = 0 /\ sending = FALSE /\ noise = 0
    /\ calm = MaxCalm /\ ideal = 0 /\ spoke = FALSE

(* One starve horizon of enforced silence at rate r. *)
pace(r) == pace_until' = Horizon * ByteTicks[r] /\ calm' = 0

arm(d) == deadline_at' = d

(* The terminal is queued with its evidence; garble arms the pacing gap. *)
finish(outcome, n, garble) ==
    /\ pending_done' = [outcome |-> outcome, got |-> n, junk |-> garble]
    /\ state' = "Idle" /\ deadline_at' = 0 /\ plan' = NoPlan
    /\ got' = 0 /\ junk' = FALSE /\ fresh' = FALSE
    /\ IF garble THEN pace(rate) ELSE UNCHANGED paceVars

start_tx == claimed' = TRUE /\ txArmed' = TRUE /\ state' = "Transmitting" /\ arm(0)

-----------------------------------------------------------------------------
(* Commands and instrument operations; each is refused unless the engine is *)
(* idle with no terminal unconsumed.                                        *)
Ready == state = "Idle" /\ pending_done = NoDone /\ ~pending_wire_done

SubmitExchange(p) ==
    /\ Ready
    /\ plan' = p /\ ring' = <<>> /\ spoke' = FALSE /\ pace_until' = None
    /\ IF pace_until # None /\ ~tick_reached(pace_until)
         THEN state' = "Pacing" /\ arm(pace_until) /\ UNCHANGED drive
         ELSE start_tx
    /\ UNCHANGED <<calm, trainVars, settings, evidence, terminals, job, servos>>

SubmitDeadline(us) ==
    /\ Ready
    /\ response_deadline' = us /\ finish("Complete", 0, FALSE)
    /\ UNCHANGED <<trainVars, rate, pending_wire_done, job, drive, ring, servos, spoke>>

SubmitBaud(r) ==
    /\ Ready
    /\ rate' = r /\ pace(r)
    /\ pending_done' = [NoDone EXCEPT !.outcome = "Complete"]
    /\ UNCHANGED <<state, trainVars, deadline_at, plan, response_deadline, evidence,
                   pending_wire_done, job, drive, ring, servos, spoke>>

(* hold_low: the line stays dominant until poll finds the pulse over. *)
Hold(s, us) ==
    /\ Ready
    /\ claimed' = TRUE /\ state' = s /\ arm(us)
    /\ UNCHANGED <<trainVars, plan, settings, paceVars, evidence, terminals, job, txArmed,
                   ring, servos, spoke>>

SubmitRescue == Hold("RescueHold", RescueHold)
wire_pulse_low(us) == Hold("WirePulse", us)

(* wire_send, wire_burst and wire_train: j is what they stage. *)
WireStart(j) ==
    /\ Ready
    /\ job' = j /\ claimed' = TRUE /\ txArmed' = TRUE /\ state' = "WireTx"
    /\ UNCHANGED <<trainVars, deadline_at, plan, settings, paceVars, evidence, terminals,
                   ring, servos, spoke>>

wire_send == WireStart(NoJob)
wire_burst(n) == WireStart([NoJob EXCEPT !.frames = n - 1])
wire_train(t) == WireStart([NoJob EXCEPT !.breaks = t.breaks, !.gap = t.gap])

wire_baud(r) ==
    /\ Ready
    /\ rate' = r /\ pace(r) /\ pending_wire_done' = TRUE
    /\ UNCHANGED <<state, trainVars, deadline_at, plan, response_deadline, evidence,
                   pending_done, job, drive, ring, servos, spoke>>

wire_finish ==
    /\ claimed' = FALSE /\ state' = "Idle" /\ deadline_at' = 0 /\ pending_wire_done' = TRUE

-----------------------------------------------------------------------------
(* The servos' side of an exchange: the slots that owe a reply, live or     *)
(* dead, with no run of dead ones longer than the model allows.             *)
Answers ==
    CASE plan.replies = "Single"  -> {<<TRUE>>, <<FALSE>>}
      [] plan.replies = "Collect" -> {<<>>, <<TRUE>>, <<TRUE, TRUE>>}
      [] plan.replies = "Chain"   ->
           {s \in [1 .. plan.n -> BOOLEAN] :
              \A i \in 1 .. plan.n - MaxDeadRun : \E k \in i .. i + MaxDeadRun : s[k]}

(* Chip TC interrupt: the span drained.  A train keeps the wire; a reply    *)
(* window opens with the receiver.                                          *)
TxTrain ==
    /\ plan.train # 0
    /\ state' = "Training" /\ left' = plan.train + 1 /\ gap' = plan.gap
    /\ arm(plan.gap) /\ ideal' = plan.gap /\ txArmed' = FALSE
    /\ UNCHANGED <<plan, paceVars, evidence, terminals, job, claimed, servos>>

TxSilent ==
    /\ plan.train = 0 /\ plan.replies = "None"
    /\ claimed' = FALSE /\ txArmed' = FALSE /\ finish("Sent", 0, FALSE)
    /\ UNCHANGED <<trainVars, pending_wire_done, job, servos>>

TxAwait ==
    /\ plan.train = 0 /\ plan.replies # "None"
    /\ claimed' = FALSE /\ txArmed' = FALSE /\ state' = "Awaiting" /\ arm(window_for)
    /\ got' = 0 /\ fresh' = FALSE
    /\ \E s \in Answers :
          talk' = [i \in 1 .. Len(s) |-> [slot |-> i - 1, live |-> s[i]]]
    /\ quiet' = 0
    /\ UNCHANGED <<trainVars, plan, paceVars, junk, terminals, job, sending, noise>>

wire_advance ==
    /\ \/ /\ job.breaks # 0
          /\ state' = "WireTrain" /\ left' = job.breaks /\ gap' = job.gap
          /\ job' = NoJob /\ arm(job.gap) /\ ideal' = job.gap /\ txArmed' = FALSE
          /\ UNCHANGED <<claimed, pending_wire_done>>
       \/ /\ job.breaks = 0 /\ job.frames > 0
          /\ job' = [job EXCEPT !.frames = @ - 1]
          /\ UNCHANGED <<state, trainVars, deadline_at, drive, pending_wire_done>>
       \/ /\ job.breaks = 0 /\ job.frames = 0
          /\ wire_finish /\ txArmed' = FALSE
          /\ UNCHANGED <<trainVars, job>>
    /\ UNCHANGED <<plan, paceVars, evidence, pending_done, servos>>

on_tx_complete ==
    /\ txArmed
    /\ \/ state = "WireTx" /\ wire_advance
       \/ state = "Transmitting" /\ (TxTrain \/ TxSilent \/ TxAwait)
    /\ UNCHANGED <<settings, ring, spoke>>

(* The next slot is one gap from the previous target, not from now. *)
NextSlot == deadline_at + gap

(* Chip compare interrupt.  Only the trains act: one break, and either the  *)
(* next slot or the end.  In every other state it is a wake for poll.       *)
on_deadline ==
    /\ state \in {"Training", "WireTrain"} /\ Due
    /\ IF left > 1
         THEN /\ left' = left - 1 /\ arm(NextSlot) /\ ideal' = ideal + gap
              /\ UNCHANGED <<state, gap, plan, paceVars, evidence, terminals, claimed>>
         ELSE /\ left' = 0 /\ gap' = 0 /\ ideal' = 0
              /\ \/ /\ state = "Training"
                    /\ claimed' = FALSE /\ finish("Sent", 0, junk)
                    /\ UNCHANGED pending_wire_done
                 \/ /\ state = "WireTrain" /\ wire_finish
                    /\ UNCHANGED <<plan, paceVars, evidence, pending_done>>
    /\ UNCHANGED <<settings, job, txArmed, ring, servos, spoke>>

-----------------------------------------------------------------------------
(* poll: at most one event a call. *)
PollDone ==
    /\ pending_done # NoDone
    /\ pending_done' = NoDone /\ spoke' = FALSE
    /\ UNCHANGED <<state, trainVars, deadline_at, plan, settings, paceVars, evidence,
                   pending_wire_done, job, drive, ring, servos>>

PollWireDone ==
    /\ pending_done = NoDone /\ pending_wire_done
    /\ pending_wire_done' = FALSE
    /\ UNCHANGED <<state, trainVars, deadline_at, plan, settings, paceVars, evidence,
                   pending_done, job, drive, ring, servos, spoke>>

Polling(s) == pending_done = NoDone /\ ~pending_wire_done /\ state = s

PollPacing ==
    /\ Polling("Pacing") /\ Due
    /\ start_tx
    /\ UNCHANGED <<trainVars, plan, settings, paceVars, evidence, terminals, job, ring,
                   servos, spoke>>

(* The pulse is over: the host follows the servos to the rescue rate.  The  *)
(* same call of poll yields the terminal.                                   *)
PollRescue ==
    /\ Polling("RescueHold") /\ Due
    /\ claimed' = FALSE /\ rate' = RescueRate /\ pace(RescueRate)
    /\ state' = "Idle" /\ arm(0)
    /\ UNCHANGED <<trainVars, plan, response_deadline, evidence, terminals, job, txArmed,
                   ring, servos, spoke>>

PollPulse ==
    /\ Polling("WirePulse") /\ Due
    /\ claimed' = FALSE /\ state' = "Idle" /\ arm(0)
    /\ UNCHANGED <<trainVars, plan, settings, paceVars, evidence, terminals, job, txArmed,
                   ring, servos, spoke>>

(* The framer's walk: junk up to the first status, then the status. *)
Statuses == {i \in 1 .. Len(ring) : ring[i].kind = "status"}
FirstStatus == CHOOSE i \in Statuses : \A j \in Statuses : i <= j
AfterStatus == SubSeq(ring, FirstStatus + 1, Len(ring))
Last ==
    \/ plan.replies = "Single" /\ got = 0
    \/ plan.replies = "Chain" /\ got + 1 = plan.n

PollStatus ==
    /\ Polling("Awaiting") /\ Statuses # {}
    /\ ring' = AfterStatus
    /\ IF Last
         THEN finish("Complete", got + 1, junk \/ FirstStatus > 1 \/ AfterStatus # <<>>)
         ELSE /\ got' = got + 1 /\ junk' = (junk \/ FirstStatus > 1) /\ fresh' = FALSE
              /\ arm(window_for)
              /\ UNCHANGED <<state, plan, paceVars, pending_done>>
    /\ UNCHANGED <<trainVars, settings, pending_wire_done, job, drive, servos, spoke>>

(* No status: junk is walked off up to the first frame prefix, which holds  *)
(* the cursor; any walk and any byte since the last poll pushes the window  *)
(* out.                                                                     *)
Parts == {i \in 1 .. Len(ring) : ring[i].kind = "part"}
Parked == IF Parts = {} THEN <<>>
          ELSE SubSeq(ring, CHOOSE i \in Parts : \A j \in Parts : i <= j, Len(ring))
Walked == Len(ring) > Len(Parked)

PollProgress ==
    /\ Polling("Awaiting") /\ Statuses = {} /\ (Walked \/ fresh)
    /\ ring' = Parked /\ junk' = (junk \/ Walked) /\ fresh' = FALSE
    /\ arm(window_for)
    /\ UNCHANGED <<state, trainVars, plan, settings, paceVars, got, terminals, job, drive,
                   servos, spoke>>

(* The window is over; what no verdict consumed is evidence, not silence. *)
Unresolved == ring # <<>>

PollTimeout ==
    /\ Polling("Awaiting") /\ Statuses = {} /\ ~Walked /\ ~fresh /\ Due
    /\ finish(IF plan.replies = "Collect" THEN "Complete" ELSE "Timeout", got,
              junk \/ Unresolved)
    /\ UNCHANGED <<trainVars, settings, pending_wire_done, job, drive, ring, servos, spoke>>

poll == \/ PollDone \/ PollWireDone \/ PollPacing \/ PollRescue \/ PollPulse
        \/ PollStatus \/ PollProgress \/ PollTimeout

-----------------------------------------------------------------------------
(* The wire.  Bytes reach the ring only while the host has released it      *)
(* (claim turns the receiver off).                                          *)
Own == state = "Awaiting"
Arrive(r) == ring' = r /\ fresh' = (fresh \/ Own) /\ spoke' = (spoke \/ Own)

TalkStart ==
    /\ talk # <<>> /\ Head(talk).live /\ ~sending /\ ~claimed
    /\ sending' = TRUE /\ quiet' = 0
    /\ Arrive(Append(ring, [kind |-> "part", slot |-> Head(talk).slot, own |-> Own]))
    /\ UNCHANGED <<talk, noise>>

(* The reply ends: clean, corrupted, or cut off for good.                   *)
TalkEnd ==
    /\ sending /\ ~claimed
    /\ sending' = FALSE /\ quiet' = 0
    /\ \E kind \in {"status", "junk", "part"} :
          /\ kind # "status" => noise < MaxNoise
          /\ noise' = noise + (IF kind = "status" THEN 0 ELSE 1)
          /\ Arrive(IF ring # <<>> /\ ring[Len(ring)].kind = "part"
                      THEN [ring EXCEPT ![Len(ring)].kind = kind]
                      ELSE Append(ring, [kind |-> "junk", slot |-> 0, own |-> Own]))
    /\ talk' = Tail(talk)

TalkSkip ==
    /\ talk # <<>> /\ ~Head(talk).live /\ quiet = FleetRD
    /\ talk' = Tail(talk) /\ quiet' = 0
    /\ UNCHANGED <<sending, noise, ring, fresh, spoke>>

Noise ==
    /\ noise < MaxNoise /\ ~claimed /\ ~sending
    /\ noise' = noise + 1
    /\ Arrive(Append(ring, [kind |-> "junk", slot |-> 0, own |-> Own]))
    /\ UNCHANGED <<talk, quiet, sending>>

Wire(A) ==
    /\ A
    /\ UNCHANGED <<state, trainVars, deadline_at, plan, settings, paceVars, got, junk,
                   terminals, job, drive>>
Servos == Wire(TalkStart \/ TalkEnd \/ TalkSkip)

(* Time.  A train interrupt is at most Latency late, the main loop at most  *)
(* PollLag, a live servo starts within its lead, a frame ends in its time.  *)
LeadOf == Lead + (IF plan.slow THEN SlowExtra - 1 ELSE 0)
Overdue ==
    \/ state \in {"Training", "WireTrain"} /\ Due /\ Lateness >= Latency
    \/ /\ state \in {"Pacing", "RescueHold", "WirePulse", "Awaiting"}
       /\ Due /\ Lateness >= PollLag
    \/ /\ talk # <<>> /\ ~sending /\ ~claimed
       /\ quiet >= (IF Head(talk).live THEN LeadOf ELSE FleetRD)
    \/ sending /\ quiet >= plan.bytes * byte_ticks

Timed == state \notin {"Idle", "Transmitting", "WireTx"}
Before(d) == (d - 1) % TickMod

Tick ==
    /\ ~Overdue
    /\ deadline_at' = IF Timed THEN Before(deadline_at) ELSE deadline_at
    /\ pace_until' = IF pace_until = None THEN None ELSE Before(pace_until)
    /\ quiet' = IF talk = <<>> THEN 0 ELSE quiet + 1
    /\ calm' = IF calm < MaxCalm THEN calm + 1 ELSE calm
    /\ ideal' = IF gap = 0 THEN 0 ELSE ideal - 1
    /\ UNCHANGED <<state, left, gap, plan, settings, evidence, terminals, job, drive, ring,
                   talk, sending, noise, spoke>>

Submit ==
    \/ \E p \in Plans : SubmitExchange(p)
    \/ \E us \in Deadlines : SubmitDeadline(us)
    \/ \E r \in Rates : SubmitBaud(r)
    \/ SubmitRescue
    \/ wire_send
    \/ \E n \in Bursts : wire_burst(n)
    \/ \E t \in Trains : wire_train(t)
    \/ \E r \in WireRates : wire_baud(r)
    \/ \E us \in Pulses : wire_pulse_low(us)

Next == Submit \/ on_tx_complete \/ on_deadline \/ poll \/ Servos \/ Wire(Noise) \/ Tick

(* The main loop polls for ever, an armed interrupt comes, servos and the   *)
(* clock go on; nothing forces a submission or noise.                       *)
Spec == Init /\ [][Next]_vars
             /\ WF_vars(poll) /\ WF_vars(on_tx_complete) /\ WF_vars(on_deadline)
             /\ WF_vars(Servos) /\ WF_vars(Tick)

-----------------------------------------------------------------------------
(* Properties *)

(* The engine's variables have their types. *)
TypeOK ==
    /\ deadline_at \in 0 .. 2 * TickMod /\ pace_until \in -1 .. TickMod - 1
    /\ state \in {"Idle", "Pacing", "Transmitting", "Training", "RescueHold",
                  "Awaiting", "WireTx", "WirePulse", "WireTrain"}
    /\ rate \in Rates /\ plan \in Plans \cup {NoPlan}
    /\ {claimed, txArmed, fresh, pending_wire_done, spoke, sending, junk} \subseteq BOOLEAN
    /\ noise \in 0 .. MaxNoise /\ got \in Nat

Driving == {"Transmitting", "Training", "RescueHold", "WireTx", "WirePulse", "WireTrain"}

(* The host drives the line exactly while an operation that drives it runs, *)
(* and never while a servo still owes an answer: no exchange is closed      *)
(* before its chain is over (engine/mod.rs window_for).                     *)
NoTalkOver ==
    /\ claimed <=> state \in Driving
    /\ claimed => talk = <<>>

(* No exchange is sent within a starve horizon of a garbled one or of a     *)
(* rate change (engine/mod.rs pace, submit).                                *)
QuietStep ==
    state # "Transmitting" /\ state' = "Transmitting"
      => calm >= Horizon * ByteTicks[rate]
(* The k-th break of a train falls k gaps after the announce, late by no    *)
(* more than one interrupt entry however long the train is (on_deadline).   *)
OnGrid == state \in {"Training", "WireTrain"} => ideal \in -Latency .. gap

(* An exchange that reports neither a status nor garble heard nothing: a    *)
(* collision cannot read as an empty bus (poll_await, the horizon fold).    *)
SilenceIsTrue ==
    pending_done.outcome \in {"Timeout", "Complete"} /\ pending_done.got = 0
      /\ ~pending_done.junk => ~spoke

(* The bus master never drives the line while a servo owes an answer, keeps *)
(* its break grid and the enforced silences, and reports a silent bus only  *)
(* when nothing spoke (host engine/mod.rs).                                 *)
EngineSound ==
    /\ [](TypeOK /\ NoTalkOver /\ OnGrid /\ SilenceIsTrue)
    /\ [][QuietStep]_vars

=============================================================================
