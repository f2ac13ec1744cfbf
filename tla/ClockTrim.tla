------------------------------ MODULE ClockTrim ------------------------------
(* Clock discipline of a servo: a MGMT CAL announce followed by a train of  *)
(* breaks measures the local clock against the host's, pairs of breaks      *)
(* around silent instructions track its drift, and the main loop turns a    *)
(* completed measurement into steps of the oscillator trim.                 *)
(*                                                                          *)
(* Errors are in ppm.  A gap of a train is one unit of span, and so is a    *)
(* pair, so that the ppm of a measurement is its mean error.  The watchdog  *)
(* of a train is the framer's deadline slot; it may expire at any moment    *)
(* after it was armed.                                                      *)
EXTENDS Integers, FiniteSets

CONSTANTS
    Gaps,                     \* announced gaps of a train
    BasePairs, WinPairs,      \* DRIFT_BASELINE_PAIRS, DRIFT_WINDOW_PAIRS
    Sanity,                   \* DRIFT_SANITY_PPM
    Gate,                     \* TRIM_GATE_SHIFT of a gap, in ppm
    StepMin, StepMax,         \* STEP_PPM_MIN, STEP_PPM_MAX
    StepsMax, TotalMax,       \* STEPS_MAX, TOTAL_MAX
    Nominal,                  \* the chip's nominal ppm per step
    Chips,                    \* pairs <<offset, ppm per step>> of a chip
    Warmth, Seams,            \* thermal shifts, queuing seams of the host
    Calibrates, Tracks,       \* whether trains and paired frames occur
    MaxWarm                   \* bound on the thermal steps

ClockAssumption ==
    /\ {BasePairs, WinPairs, StepsMax, TotalMax, Nominal, StepMin} \subseteq Nat \ {0}
    /\ Gaps \subseteq Nat /\ StepMax \in Nat /\ Nominal \in StepMin .. StepMax
    /\ Chips \subseteq Int \X Int /\ Warmth \cup Seams \subseteq Int /\ Gate \in Nat

VARIABLES
    pending_cal,              \* announced gaps, or Absent
    cal,                      \* the live train
    cal_ready,
    drift,                    \* the drift tracker
    cadence,                  \* the measurement handed to the main loop
    trim,                     \* TrimLoop
    framer_at,                \* the deadline slot is armed
    low,                      \* a rescue pulse holds the line
    chip, warm, nwarm, seam,  \* the oscillator, its warmth, the host's seam
    seenAt, late,             \* trims a measurement saw; a train began before
                              \* the last was polled
    spoilt, settled           \* a measurement was disturbed; trains since

tracker == <<pending_cal, cal, cal_ready, drift, cadence>>
world == <<chip, warm, nwarm, seam>>
clockVars == <<tracker, trim, framer_at, low, world, seenAt, late, spoilt, settled>>

Absent == -1
NoCal == [left |-> Absent]

(* ppm: the quotient truncated toward zero. *)
Trunc(a, b) == IF a < 0 THEN -((-a) \div b) ELSE a \div b
Mag(x) == IF x < 0 THEN -x ELSE x
Clip(x, m) == IF x < -m THEN -m ELSE IF x > m THEN m ELSE x

(* Positive when the local clock is fast; a positive trim slows it. *)
Skew == chip[1] + warm - trim.total * chip[2]

Restarted ==
    [prev |-> FALSE, seen |-> "None", base |-> Absent, based |-> FALSE, berr |-> 0, bn |-> 0,
     werr |-> 0, wn |-> 0, ready |-> FALSE]

ClockInit ==
    /\ pending_cal = Absent /\ cal = NoCal /\ cal_ready = FALSE
    /\ drift = Restarted /\ cadence = [err |-> 0, span |-> 0]
    /\ trim = [total |-> 0, step_ppm |-> Nominal, last_ppm |-> 0, last_steps |-> 0]
    /\ framer_at = FALSE /\ low = FALSE
    /\ chip \in Chips /\ warm = 0 /\ nwarm = 0 /\ seam \in Seams
    /\ seenAt = {} /\ late = FALSE /\ spoilt = FALSE /\ settled = 0

cal_active == cal # NoCal \/ pending_cal # Absent

-----------------------------------------------------------------------------
(* The CAL train *)

(* MGMT CAL dispatched: the announce waits for the first break. *)
Announce(n) ==
    /\ Calibrates /\ ~cal_active /\ ~low
    /\ pending_cal' = n
    /\ UNCHANGED <<cal, cal_ready, drift, cadence, trim, framer_at, low, world, seenAt, late, spoilt, settled>>

(* The first break opens gap 1 and arms the watchdog. *)
TrainStart ==
    /\ pending_cal # Absent
    /\ cal' = [left |-> pending_cal, total |-> pending_cal, valid |-> 0, err |-> 0]
    /\ pending_cal' = Absent /\ drift' = Restarted /\ framer_at' = TRUE
    /\ seenAt' = {trim.total} /\ late' = cal_ready /\ spoilt' = (spoilt \/ cal_ready)
    /\ UNCHANGED <<cal_ready, cadence>>

(* A ruler mark: the gap counts when it is within the gate; at the end the  *)
(* train decides when half its gaps did.  Either way the slot is re-armed,  *)
(* as the watchdog or as the pend-on-past hunt.                             *)
Mark(err) ==
    LET ok == Mag(err) <= Gate
        c == [cal EXCEPT !.valid = @ + (IF ok THEN 1 ELSE 0),
                         !.err = @ + (IF ok THEN err ELSE 0),
                         !.left = IF @ = 0 THEN 0 ELSE @ - 1]
        half == 2 * c.valid >= c.total
    IN /\ cal' = IF c.left = 0 THEN NoCal ELSE c
       /\ cal_ready' = (cal_ready \/ (c.left = 0 /\ half))
       /\ cadence' = IF c.left = 0 /\ half THEN [err |-> c.err, span |-> c.valid] ELSE cadence
       /\ framer_at' = TRUE
       /\ UNCHANGED <<pending_cal, drift, seenAt, late, spoilt>>

(* A latched flag fires again: no byte ringed since the last mark. *)
Refire == UNCHANGED <<tracker, framer_at, low, seenAt, late, spoilt>>

(* on_break while a train is announced or live.  A missed or stray break    *)
(* puts the gap far outside the gate.                                       *)
on_cal_break ==
    /\ cal_active
    /\ \/ TrainStart /\ low' = FALSE
       \/ pending_cal = Absent /\ (Mark(Skew) \/ Mark(16 * Gate)) /\ low' = FALSE
       \/ pending_cal = Absent /\ Refire
    /\ UNCHANGED <<trim, world, settled>>

(* Variant of on_deadline that grants the train another silence.            *)
on_deadline_waits ==
    /\ framer_at /\ framer_at' = TRUE
    /\ UNCHANGED <<tracker, trim, low, world, seenAt, late, spoilt, settled>>

(* The slot expires: the train or the announce dies and the framer hunts.   *)
on_deadline ==
    /\ framer_at /\ framer_at' = FALSE
    /\ cal' = NoCal /\ pending_cal' = Absent
    /\ UNCHANGED <<cal_ready, drift, cadence, trim, low, world, seenAt, late, spoilt, settled>>

(* The line sampler finds a rescue pulse: both deadline slots are dropped,  *)
(* the train is not.  The end of the pulse is a break.                      *)
on_rescue_break ==
    /\ Calibrates /\ ~low /\ cal_active
    /\ low' = TRUE /\ framer_at' = FALSE /\ drift' = Restarted
    /\ UNCHANGED <<pending_cal, cal, cal_ready, cadence, trim, world, seenAt, late, spoilt, settled>>

-----------------------------------------------------------------------------
(* The drift tracker *)

note_verified(silent) ==
    /\ Tracks /\ ~cal_active
    /\ drift.prev /\ drift.seen # "Many"
    /\ drift' = [drift EXCEPT !.seen = IF @ # "None" THEN "Many"
                                       ELSE IF silent THEN "Silent" ELSE "Solicited"]
    /\ UNCHANGED <<pending_cal, cal, cal_ready, cadence, trim, framer_at, low, world, seenAt,
                   late, spoilt, settled>>

(* An accepted pair goes to the baseline, then to the window.  A full       *)
(* window is handed over unless a measurement still waits.                  *)
Paired(D, err) ==
    IF ~D.based
      THEN LET B == [D EXCEPT !.berr = @ + err, !.bn = @ + 1]
           IN IF B.bn >= BasePairs
                THEN [B EXCEPT !.based = TRUE, !.base = Trunc(B.berr, BasePairs)] ELSE B
      ELSE [D EXCEPT !.werr = @ + (err - D.base), !.wn = @ + 1]

Handed(W) ==
    /\ drift' = [W EXCEPT !.werr = 0, !.wn = 0, !.ready = @ \/ ~cal_ready]
    /\ cadence' = IF cal_ready \/ W.ready THEN cadence ELSE [err |-> W.werr, span |-> W.wn]

on_drift_break(exact, err) ==
    /\ Tracks /\ ~cal_active
    /\ LET D == [drift EXCEPT !.prev = TRUE, !.seen = "None"]
           pair == drift.prev /\ drift.seen = "Silent" /\ exact /\ Mag(err) <= Gate
           W == IF pair THEN Paired(D, err) ELSE D
       IN /\ IF W.wn >= WinPairs THEN Handed(W) ELSE drift' = W /\ UNCHANGED cadence
          /\ seenAt' = IF pair THEN seenAt \cup {trim.total} ELSE seenAt
    /\ UNCHANGED <<pending_cal, cal, cal_ready, trim, framer_at, low, world, late, spoilt, settled>>

-----------------------------------------------------------------------------
(* The trim loop *)

(* The step effect measured by the correction of the window before. *)
StepEffect(t, ppm) ==
    LET o == Trunc((t.last_ppm - ppm) * (IF t.last_steps < 0 THEN -1 ELSE 1),
                   Mag(t.last_steps))
    IN IF t.last_steps # 0 /\ o \in StepMin .. StepMax THEN o ELSE t.step_ppm

(* round(ppm / step) by threshold compares, at most StepsMax. *)
Steps(ppm, d) ==
    LET m == Cardinality({k \in 0 .. StepsMax - 1 : 2 * Mag(ppm) >= (2 * k + 1) * d})
    IN IF ppm < 0 THEN -m ELSE m

(* TrimLoop::on_window; last_steps records what was applied. *)
on_window(t, err, span) ==
    IF span = 0 THEN t
    ELSE LET p == Trunc(err, span)
             d == StepEffect(t, p)
             total == Clip(t.total + Steps(p, d), TotalMax)
         IN [total |-> total, step_ppm |-> d, last_ppm |-> p, last_steps |-> total - t.total]

(* A train's verdict is absolute; the baseline is taken anew after it. *)
PollCal ==
    /\ cal_ready
    /\ cal_ready' = FALSE /\ cadence' = [err |-> 0, span |-> 0] /\ drift' = Restarted
    /\ trim' = on_window(trim, cadence.err, cadence.span)
    /\ settled' = IF late THEN 0 ELSE IF settled < 4 THEN settled + 1 ELSE settled
    /\ seenAt' = IF cal # NoCal THEN seenAt \cup {trim'.total} ELSE {}

(* Variant of PollDrift whose baseline outlives a correction.               *)
PollDriftKeeps ==
    /\ ~cal_ready /\ drift.ready
    /\ cadence' = [err |-> 0, span |-> 0]
    /\ trim' = IF cadence.span = 0 \/ Mag(cadence.err) >= (Sanity + 1) * cadence.span
                 THEN trim ELSE on_window(trim, cadence.err, cadence.span)
    /\ drift' = [drift EXCEPT !.ready = FALSE]
    /\ UNCHANGED <<cal_ready, settled, seenAt>>

(* A window's verdict is relative to the baseline, which a correction drops. *)
PollDrift ==
    /\ ~cal_ready /\ drift.ready
    /\ cadence' = [err |-> 0, span |-> 0]
    /\ trim' = IF cadence.span = 0 \/ Mag(cadence.err) >= (Sanity + 1) * cadence.span
                 THEN trim ELSE on_window(trim, cadence.err, cadence.span)
    /\ drift' = IF trim'.total # trim.total THEN Restarted ELSE [drift EXCEPT !.ready = FALSE]
    /\ seenAt' = IF trim'.total # trim.total THEN {} ELSE seenAt
    /\ UNCHANGED <<cal_ready, settled>>

(* The main loop polls, and applies the new total to the oscillator.        *)
poll ==
    /\ PollCal \/ PollDrift
    /\ UNCHANGED <<pending_cal, cal, framer_at, low, world, late, spoilt>>

-----------------------------------------------------------------------------
(* The oscillator warms or cools between measurements. *)
Warm(w) ==
    /\ nwarm < MaxWarm /\ ~cal_active /\ ~cal_ready
    /\ w # warm /\ warm' = w /\ nwarm' = nwarm + 1 /\ settled' = 0 /\ spoilt' = TRUE
    /\ UNCHANGED <<tracker, trim, framer_at, low, chip, seam, seenAt, late>>

Pair(exact, paused) == on_drift_break(exact, IF paused THEN 16 * Gate ELSE Skew + seam)

ClockNext ==
    \/ \E n \in Gaps : Announce(n)
    \/ on_cal_break \/ on_deadline \/ on_rescue_break
    \/ \E s \in BOOLEAN : note_verified(s)
    \/ \E exact, paused \in BOOLEAN : Pair(exact, paused)
    \/ poll
    \/ \E w \in Warmth : Warm(w)

(* An armed compare fires, and a held line is released, which is a break. *)
Fairness == WF_clockVars(on_deadline) /\ WF_clockVars(low /\ on_cal_break)
ClockSpec == ClockInit /\ [][ClockNext]_clockVars /\ Fairness

-----------------------------------------------------------------------------
(* Properties *)

(* The tracker and the trim loop have their types. *)
ClockTypeOK ==
    /\ pending_cal \in Gaps \cup {Absent}
    /\ cal = NoCal \/ (cal.left \in 0 .. cal.total /\ cal.valid \in 0 .. cal.total)
    /\ drift.bn \in 0 .. BasePairs /\ drift.wn \in 0 .. WinPairs - 1
    /\ trim.total \in -TotalMax .. TotalMax /\ trim.step_ppm \in StepMin .. StepMax
    /\ trim.last_steps \in -StepsMax .. StepsMax

(* While a train keeps the resolver suspended the shared deadline slot is   *)
(* armed, through missed marks, latched re-fires and a rescue pulse, whose  *)
(* end re-arms it (clock.rs: "a suspended resolver needs a deadline         *)
(* backstop").                                                              *)
WatchdogCovers == cal # NoCal => framer_at \/ low

(* A measurement handed to the trim loop was taken under one trim, if the   *)
(* main loop polled the one before it first (clock.rs restart: "the         *)
(* baseline's residual-skew term is stale").                                *)
OneClock == (cal_ready \/ drift.ready) /\ cal = NoCal /\ ~late => Cardinality(seenAt) <= 1

(* Trains with missed, stray and re-fired marks, rescue pulses and late     *)
(* polls: the shared deadline slot backs every suspended resolver, and no   *)
(* measurement mixes two trims (clock.rs).                                  *)
ClockSound == WatchdogCovers /\ OneClock

(* Three trains after boot bring every chip within half of its own trim     *)
(* step; three trains after a disturbance (a thermal shift, a train polled  *)
(* late), which may spoil the step effect, within half of the largest one   *)
(* (osc-native-protocol.md: "two suffice in practice, a third confirms").   *)
Converged == settled >= 3 => 2 * Mag(Skew) <= IF spoilt THEN StepMax ELSE chip[2]

=============================================================================
