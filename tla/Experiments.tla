----------------------------- MODULE Experiments -----------------------------
(***************************************************************************)
(* The sans-io bench experiments of the identification library             *)
(* (src/ident/src/exp).  An experiment is a state machine: each step eats  *)
(* at most one observation and emits the next command.  This module is the *)
(* engine only - operators over the experiment's state record x - and      *)
(* RigPump gives it a driver, a servo and a plant.                         *)
(*                                                                         *)
(* A duty, a current goal or a speed is a signed level: the sign is the    *)
(* direction and the magnitude the rung.  The pot is 0..MaxPos and the     *)
(* still-detect band is zero counts wide.  A vector of samples is          *)
(* represented by its newest member, x.got: an invariant of the newest     *)
(* sample is an invariant of every sample, each having been the newest.    *)
(***************************************************************************)
EXTENDS Integers, Sequences

CONSTANTS
    MaxPos,        \* the pot reads 0..MaxPos; both ends are mechanical rails
    GuardLo,       \* pos_guard: the soft travel band is GuardLo..GuardHi
    GuardHi,
    Margin,        \* stop_margin, seek_margin, coast_margin, margin
    StallPolls,    \* still reads that declare a rail
    Settle,        \* settle_windows
    Polls,         \* BiasCfg.polls, dwell_polls
    Levels,        \* rungs of a duty ladder / steps of a capture
    RampCap,       \* BreakawayCfg.cap_q15 as a level
    MoveCounts,    \* BreakawayCfg.move_counts
    SeekCap,       \* seek_cap_polls
    LegCap,        \* leg_cap_polls
    CaptureMax,    \* capture_max_ms in capture polls
    StallArm       \* stall_arm_ms in capture polls

None == [pos |-> -1]

WriteTo(reg, val) == [op |-> "Write", reg |-> reg, val |-> val]
Read == [op |-> "Read", reg |-> "", val |-> 0]
Pause == [op |-> "Pause", reg |-> "", val |-> 0]
Done == [op |-> "Done", reg |-> "", val |-> 0]

\* One step's outcome: the successor state and the command.
To(x, phase, cmd) == [x |-> [x EXCEPT !.phase = phase], cmd |-> cmd]

\* An experiment's state as its constructor leaves it.
FreshAt(phase) ==
    [phase |-> phase, n |-> 0, k |-> 0, polls |-> 0, still |-> 0,
     last |-> -1, settle |-> 0, got |-> -1,
     ref |-> -1, start |-> -1, lvl |-> 0, first |-> 1, bk |-> <<0, 0>>,
     crept |-> FALSE, t |-> 0, capturing |-> FALSE, kept |-> {},
     rail |-> <<-1, -1>>]

BiasNew == FreshAt("TorqueOff")
EndstopNew == FreshAt("ModeWrite")
SweepNew == FreshAt("MaskOn")
ResistanceNew == FreshAt("ModeWrite")
BreakawayNew == FreshAt("ModeWrite")
LadderNew == FreshAt("ModeWrite")
InertiaNew == FreshAt("ModeWrite")
CurrentNew == FreshAt("ModeWrite")
VelocityNew == FreshAt("ModeWrite")

Fresh(e) ==
    CASE e = "bias" -> BiasNew
      [] e = "endstop" -> EndstopNew
      [] e = "sweep" -> SweepNew
      [] e = "resistance" -> ResistanceNew
      [] e = "breakaway" -> BreakawayNew
      [] e = "ladder" -> LadderNew
      [] e = "inertia" -> InertiaNew
      [] e = "current" -> CurrentNew
      [] e = "velocity" -> VelocityNew

-----------------------------------------------------------------------------
(* Shared parts: the window stream, the still detector, the directions.     *)

MarkTransition(x) == [x EXCEPT !.settle = Settle]

(* Variant of Push that keeps every fresh window. *)
PushUnsettled(x, o) == IF ~o.fresh THEN x ELSE [x EXCEPT !.got = o.age]

\* WindowStream::push: a window counts once, and the first settle_windows
\* after a transition are dropped.
Push(x, o) ==
    IF ~o.fresh THEN x
    ELSE IF x.settle > 0 THEN [x EXCEPT !.settle = @ - 1]
    ELSE [x EXCEPT !.got = o.age]

TrackStill(x, o) ==
    [x EXCEPT !.still = IF x.last = o.pos THEN @ + 1 ELSE 0, !.last = o.pos]

ResetMotionTrack(x) == [x EXCEPT !.last = -1, !.still = 0, !.polls = 0]

Dir(x) == IF x.n % 2 = 0 THEN 1 ELSE -1

-----------------------------------------------------------------------------
(* E0 bias: torque off, poll the raw sensors.                               *)

BiasStep(x, o) ==
    CASE x.phase = "TorqueOff" -> To(x, "DutyOff", WriteTo("torque", 0))
      [] x.phase = "DutyOff" -> To(x, "Poll", WriteTo("duty", 0))
      [] x.phase = "Poll" -> To(x, "Collect", Read)
      [] x.phase = "Collect" ->
            LET y == [x EXCEPT !.polls = @ + 1]
            IN  IF y.polls >= Polls THEN To(y, "Finished", Done)
                ELSE To(y, "Poll", Pause)
      [] x.phase = "Finished" -> To(x, "Finished", Done)

(* The end-stop finder: seek each rail until the pot stands still.          *)
EndstopStep(x, o) ==
    CASE x.phase = "ModeWrite" -> To(x, "TorqueOn", WriteTo("mode", 0))
      [] x.phase = "TorqueOn" -> To(x, "SeekSet", WriteTo("torque", 1))
      [] x.phase = "SeekSet" ->
            To(ResetMotionTrack(x), "SeekRead", WriteTo("duty", Dir(x)))
      [] x.phase = "SeekRead" -> To(x, "SeekEval", Read)
      [] x.phase = "SeekEval" ->
            LET y == TrackStill(x, o)
            IN  IF y.still >= StallPolls
                THEN To([y EXCEPT !.rail[x.n + 1] = o.pos], "RestOff", Pause)
                ELSE To(y, "SeekRead", Pause)
      [] x.phase = "RestOff" -> To(x, "RestPause", WriteTo("duty", 0))
      [] x.phase = "RestPause" ->
            IF x.n = 0 THEN To([x EXCEPT !.n = 1], "SeekSet", Pause)
            ELSE To(x, "FinishDuty", Pause)
      [] x.phase = "FinishDuty" -> To(x, "FinishTorque", WriteTo("duty", 0))
      [] x.phase = "FinishTorque" -> To(x, "Finished", WriteTo("torque", 0))
      [] x.phase = "Finished" -> To(x, "Finished", Done)

(* The ripple capture: one constant duty in the direction x.first, no       *)
(* reads.  TelWrap brackets it with the TEL enable and mask writes.         *)
SweepStep(x, o) ==
    CASE x.phase = "MaskOn" -> To(x, "EnaOn", WriteTo("telmask", 1))
      [] x.phase = "EnaOn" -> To(x, "ModeWrite", WriteTo("tel", 1))
      [] x.phase = "ModeWrite" -> To(x, "TorqueOn", WriteTo("mode", 0))
      [] x.phase = "TorqueOn" -> To(x, "CaptureDuty", WriteTo("torque", 1))
      [] x.phase = "CaptureDuty" -> To(x, "CapturePause", WriteTo("duty", x.first))
      [] x.phase = "CapturePause" -> To(x, "ZeroDuty", Pause)
      [] x.phase = "ZeroDuty" -> To(x, "TorqueOff", WriteTo("duty", 0))
      [] x.phase = "TorqueOff" -> To(x, "EnaOff", WriteTo("torque", 0))
      [] x.phase = "EnaOff" -> To(x, "MaskOff", WriteTo("tel", 0))
      [] x.phase = "MaskOff" -> To(x, "Finished", WriteTo("telmask", 0))
      [] x.phase = "Finished" -> To(x, "Finished", Done)

-----------------------------------------------------------------------------
(* E2 winding resistance: stall at each end, dwell at every ladder duty.    *)

ResistanceSeekEval(x, o) ==
    LET y == TrackStill(x, o)
    IN  IF y.still >= StallPolls
        THEN To([y EXCEPT !.k = 0], "DwellSet", Pause)
        ELSE To(y, "SeekRead", Pause)

ResistanceDwellEval(x, o) ==
    LET y == [Push(x, o) EXCEPT !.polls = @ - 1]
    IN  IF y.polls = 0 THEN To(y, "RestOff", Pause)
        ELSE To(y, "DwellRead", Pause)

ResistanceRestPause(x) ==
    LET y == [x EXCEPT !.k = @ + 1]
    IN  CASE y.k < Levels -> To(y, "DwellSet", Pause)
          [] y.k >= Levels /\ y.n = 0 -> To([y EXCEPT !.n = 1], "SeekSet", Pause)
          [] y.k >= Levels /\ y.n = 1 -> To(y, "FinishDuty", Pause)

ResistanceStep(x, o) ==
    CASE x.phase = "ModeWrite" -> To(x, "TorqueOn", WriteTo("mode", 0))
      [] x.phase = "TorqueOn" -> To(x, "SeekSet", WriteTo("torque", 1))
      [] x.phase = "SeekSet" ->
            To(MarkTransition(ResetMotionTrack(x)), "SeekRead", WriteTo("duty", Dir(x)))
      [] x.phase = "SeekRead" -> To(x, "SeekEval", Read)
      [] x.phase = "SeekEval" -> ResistanceSeekEval(x, o)
      [] x.phase = "DwellSet" ->
            To(MarkTransition([x EXCEPT !.polls = Polls]), "DwellRead",
               WriteTo("duty", Dir(x) * (x.k + 1)))
      [] x.phase = "DwellRead" -> To(x, "DwellEval", Read)
      [] x.phase = "DwellEval" -> ResistanceDwellEval(x, o)
      [] x.phase = "RestOff" -> To(MarkTransition(x), "RestPause", WriteTo("duty", 0))
      [] x.phase = "RestPause" -> ResistanceRestPause(x)
      [] x.phase = "FinishDuty" -> To(x, "FinishTorque", WriteTo("duty", 0))
      [] x.phase = "FinishTorque" -> To(x, "Finished", WriteTo("torque", 0))
      [] x.phase = "Finished" -> To(x, "Finished", Done)

-----------------------------------------------------------------------------
(* E1 breakaway: ramp the duty from rest until the pot moves, both ways.    *)

BreakDir(x) == IF x.n = 0 THEN x.first ELSE -x.first

BreakawayDirStart(x, o) ==
    LET y == IF x.n = 0
             THEN [x EXCEPT !.first = IF o.pos < (MaxPos + 1) \div 2 THEN 1 ELSE -1]
             ELSE x
    IN  To([y EXCEPT !.lvl = 1, !.ref = o.pos, !.start = o.pos], "DutySet", Pause)

Distance(a, b) == IF a < b THEN b - a ELSE a - b

\* start and crept are history: the pot as last read before this dwell's
\* duty, and whether motion was declared although this dwell alone moved the
\* pot no further than the threshold.
BreakawayDwellEval(x, o) ==
    LET y == [x EXCEPT !.polls = @ - 1]
    IN  CASE Distance(o.pos, x.ref) > MoveCounts ->
                To([x EXCEPT !.bk[x.n + 1] = x.lvl,
                             !.crept = @ \/ Distance(o.pos, x.start) <= MoveCounts],
                   "DirDone", Pause)
          [] Distance(o.pos, x.ref) <= MoveCounts /\ y.polls > 0 ->
                To(y, "DwellRead", Pause)
          [] Distance(o.pos, x.ref) <= MoveCounts /\ y.polls = 0 ->
                To([y EXCEPT !.lvl = @ + 1, !.start = o.pos],
                   IF x.lvl + 1 > RampCap THEN "DirDone" ELSE "DutySet", Pause)

BreakawayStep(x, o) ==
    CASE x.phase = "ModeWrite" -> To(x, "TorqueOn", WriteTo("mode", 0))
      [] x.phase = "TorqueOn" -> To(x, "FirstRead", WriteTo("torque", 1))
      [] x.phase = "FirstRead" -> To(x, "DirStart", Read)
      [] x.phase = "DirStart" -> BreakawayDirStart(x, o)
      [] x.phase = "DutySet" ->
            To([x EXCEPT !.polls = Polls], "DwellRead",
               WriteTo("duty", BreakDir(x) * x.lvl))
      [] x.phase = "DwellRead" -> To(x, "DwellEval", Read)
      [] x.phase = "DwellEval" -> BreakawayDwellEval(x, o)
      [] x.phase = "DirDone" ->
            To(x, IF x.n = 0 THEN "DirRest" ELSE "FinishTorque", WriteTo("duty", 0))
      [] x.phase = "DirRest" -> To([x EXCEPT !.n = 1], "FirstRead", Pause)
      [] x.phase = "FinishTorque" -> To(x, "Finished", WriteTo("torque", 0))
      [] x.phase = "Finished" -> To(x, "Finished", Done)

-----------------------------------------------------------------------------
(* E3 ladder: constant-duty sweeps across the band, + then - per rung.      *)

RungDuty(x) == Dir(x) * ((x.n \div 2) + 1)

AtStart(x, p) == IF Dir(x) > 0 THEN p <= GuardLo + Margin ELSE p >= GuardHi - Margin
AtStop(x, p) == IF Dir(x) > 0 THEN p >= GuardHi - Margin ELSE p <= GuardLo + Margin

\* A seek ends at the start margin, at a rail, or at the poll cap.
SeekEval(x, o) ==
    LET y == [TrackStill(x, o) EXCEPT !.polls = @ + 1]
    IN  IF AtStart(x, o.pos) \/ y.still >= StallPolls \/ y.polls >= SeekCap
        THEN To(y, "SeekOff", Pause)
        ELSE To(y, "SeekRead", Pause)

LadderRungEval(x, o) ==
    LET y == TrackStill(Push(x, o), o)
    IN  IF y.still >= StallPolls \/ AtStop(x, o.pos)
        THEN To(y, "RungOff", Pause)
        ELSE To(y, "RungRead", Pause)

\* RungOff closes the rung: the sweep's samples are reduced and cleared.
CloseRung(x) == [x EXCEPT !.got = -1]

LadderStep(x, o) ==
    CASE x.phase = "ModeWrite" -> To(x, "TorqueOn", WriteTo("mode", 0))
      [] x.phase = "TorqueOn" -> To(x, "SeekSet", WriteTo("torque", 1))
      [] x.phase = "SeekSet" ->
            To(MarkTransition(ResetMotionTrack(x)), "SeekRead", WriteTo("duty", -Dir(x)))
      [] x.phase = "SeekRead" -> To(x, "SeekEval", Read)
      [] x.phase = "SeekEval" -> SeekEval(x, o)
      [] x.phase = "SeekOff" -> To(MarkTransition(x), "SeekRest", WriteTo("duty", 0))
      [] x.phase = "SeekRest" -> To(x, "RungSet", Pause)
      [] x.phase = "RungSet" ->
            To(MarkTransition(ResetMotionTrack(x)), "RungRead", WriteTo("duty", RungDuty(x)))
      [] x.phase = "RungRead" -> To(x, "RungEval", Read)
      [] x.phase = "RungEval" -> LadderRungEval(x, o)
      [] x.phase = "RungOff" ->
            To(MarkTransition(CloseRung(x)), "RungRest", WriteTo("duty", 0))
      [] x.phase = "RungRest" ->
            To([x EXCEPT !.n = @ + 1],
               IF x.n + 1 < 2 * Levels THEN "SeekSet" ELSE "FinishTorque", Pause)
      [] x.phase = "FinishTorque" -> To(x, "Finished", WriteTo("torque", 0))
      [] x.phase = "Finished" -> To(x, "Finished", Done)

-----------------------------------------------------------------------------
(* E4 inertia: duty steps from rest, with the TEL side channel armed.       *)

\* push_tel: only frames handed in during a capture are kept.
PushTel(x, frames) == IF x.capturing THEN [x EXCEPT !.kept = @ \cup frames] ELSE x

InertiaStepEval(x, o) ==
    LET p == Push(x, o)
        y == IF x.t >= StallArm THEN TrackStill(p, o) ELSE p
    IN  IF y.still >= StallPolls \/ AtStop(x, o.pos) \/ x.t >= CaptureMax
        THEN To(y, "StepOff", Pause)
        ELSE To([y EXCEPT !.t = @ + 1], "StepRead", Pause)

CloseStep(x) ==
    [x EXCEPT !.capturing = FALSE, !.kept = {}, !.got = -1]

InertiaStep(x, o) ==
    CASE x.phase = "ModeWrite" -> To(x, "TorqueOn", WriteTo("mode", 0))
      [] x.phase = "TorqueOn" -> To(x, "TelMask", WriteTo("torque", 1))
      [] x.phase = "TelMask" -> To(x, "TelOn", WriteTo("telmask", 1))
      [] x.phase = "TelOn" -> To(x, "SeekSet", WriteTo("tel", 1))
      [] x.phase = "SeekSet" ->
            To(MarkTransition(ResetMotionTrack(x)), "SeekRead", WriteTo("duty", -Dir(x)))
      [] x.phase = "SeekRead" -> To(x, "SeekEval", Read)
      [] x.phase = "SeekEval" -> SeekEval(x, o)
      [] x.phase = "SeekOff" -> To(MarkTransition(x), "SeekRest", WriteTo("duty", 0))
      [] x.phase = "SeekRest" -> To(x, "StepSet", Pause)
      [] x.phase = "StepSet" ->
            To([MarkTransition(ResetMotionTrack(x)) EXCEPT !.capturing = TRUE, !.t = 0],
               "StepRead", WriteTo("duty", RungDuty(x)))
      [] x.phase = "StepRead" -> To(x, "StepEval", Read)
      [] x.phase = "StepEval" -> InertiaStepEval(x, o)
      [] x.phase = "StepOff" ->
            To(MarkTransition(CloseStep(x)), "StepRest", WriteTo("duty", 0))
      [] x.phase = "StepRest" ->
            To([x EXCEPT !.n = @ + 1],
               IF x.n + 1 < 2 * Levels THEN "SeekSet" ELSE "TelOff", Pause)
      [] x.phase = "TelOff" -> To(x, "TelMaskOff", WriteTo("tel", 0))
      [] x.phase = "TelMaskOff" -> To(x, "FinishTorque", WriteTo("telmask", 0))
      [] x.phase = "FinishTorque" -> To(x, "Finished", WriteTo("torque", 0))
      [] x.phase = "Finished" -> To(x, "Finished", Done)

-----------------------------------------------------------------------------
(* E5 current steps into a stall: mode changes ride a torque-off gap.       *)

\* The capture keeps every window (settle_windows = 0) and the mean skips
\* the first settle_windows of them: a window reaches the mean by count.
CurrentStepEval(x, o) ==
    LET y == [Push(x, o) EXCEPT !.polls = @ - 1]
    IN  IF y.polls = 0 THEN To(y, "StepOff", Pause) ELSE To(y, "StepRead", Pause)

CurrentStepRest(x) ==
    LET y == [x EXCEPT !.k = @ + 1]
    IN  CASE y.k < Levels -> To(y, "StepSet", Pause)
          [] y.k >= Levels /\ y.n = 0 -> To([y EXCEPT !.n = 1], "DirTorqueOff", Pause)
          [] y.k >= Levels /\ y.n = 1 -> To(y, "FinishGoal", Pause)

CurrentSeek(x, o) ==
    CASE x.phase = "ModeWrite" -> To(x, "TorqueOn", WriteTo("mode", 0))
      [] x.phase = "TorqueOn" -> To(x, "SeekSet", WriteTo("torque", 1))
      [] x.phase = "SeekSet" ->
            To(ResetMotionTrack(x), "SeekRead", WriteTo("duty", Dir(x)))
      [] x.phase = "SeekRead" -> To(x, "SeekEval", Read)
      [] x.phase = "SeekEval" ->
            LET y == TrackStill(x, o)
            IN  To(y, IF y.still >= StallPolls THEN "SeekOff" ELSE "SeekRead", Pause)
      [] x.phase = "SeekOff" -> To(x, "SwitchTorqueOff", WriteTo("duty", 0))

CurrentSwitch(x, o) ==
    CASE x.phase = "SwitchTorqueOff" -> To(x, "SwitchMode", WriteTo("torque", 0))
      [] x.phase = "SwitchMode" -> To(x, "SwitchTorqueOn", WriteTo("mode", 1))
      [] x.phase = "SwitchTorqueOn" -> To([x EXCEPT !.k = 0], "StepSet", WriteTo("torque", 1))
      [] x.phase = "DirTorqueOff" -> To(x, "DirModeOpen", WriteTo("torque", 0))
      [] x.phase = "DirModeOpen" -> To(x, "TorqueOn", WriteTo("mode", 0))

CurrentSteps(x, o) ==
    CASE x.phase = "StepSet" ->
            To(MarkTransition([x EXCEPT !.polls = Polls]), "StepRead",
               WriteTo("cur", Dir(x) * (x.k + 1)))
      [] x.phase = "StepRead" -> To(x, "StepEval", Read)
      [] x.phase = "StepEval" -> CurrentStepEval(x, o)
      [] x.phase = "StepOff" -> To(CloseRung(x), "StepRest", WriteTo("cur", 0))
      [] x.phase = "StepRest" -> CurrentStepRest(x)
      [] x.phase = "FinishGoal" -> To(x, "FinishTorque", WriteTo("cur", 0))
      [] x.phase = "FinishTorque" -> To(x, "Finished", WriteTo("torque", 0))
      [] x.phase = "Finished" -> To(x, "Finished", Done)

CurrentStep(x, o) ==
    CASE x.phase \in {"ModeWrite", "TorqueOn", "SeekSet", "SeekRead", "SeekEval",
                      "SeekOff"} -> CurrentSeek(x, o)
      [] x.phase \in {"SwitchTorqueOff", "SwitchMode", "SwitchTorqueOn",
                      "DirTorqueOff", "DirModeOpen"} -> CurrentSwitch(x, o)
      [] OTHER -> CurrentSteps(x, o)

-----------------------------------------------------------------------------
(* E6 velocity legs: travel the band back and forth under the loop.         *)

LegDone(x, p) == IF Dir(x) > 0 THEN p >= GuardHi - Margin ELSE p <= GuardLo + Margin

VelocitySeek(x, o) ==
    CASE x.phase = "ModeWrite" -> To(x, "TorqueOn", WriteTo("mode", 0))
      [] x.phase = "TorqueOn" -> To(x, "SeekSet", WriteTo("torque", 1))
      [] x.phase = "SeekSet" -> To(ResetMotionTrack(x), "SeekRead", WriteTo("duty", -1))
      [] x.phase = "SeekRead" -> To(x, "SeekEval", Read)
      [] x.phase = "SeekEval" ->
            LET y == TrackStill(x, o)
            IN  To(y, IF o.pos <= GuardLo + Margin \/ y.still >= StallPolls
                      THEN "SeekOff" ELSE "SeekRead", Pause)
      [] x.phase = "SeekOff" -> To(x, "SwitchTorqueOff", WriteTo("duty", 0))
      [] x.phase = "SwitchTorqueOff" -> To(x, "SwitchMode", WriteTo("torque", 0))
      [] x.phase = "SwitchMode" -> To(x, "SwitchTorqueOn", WriteTo("mode", 2))
      [] x.phase = "SwitchTorqueOn" -> To(x, "LegSet", WriteTo("torque", 1))

VelocityLegs(x, o) ==
    CASE x.phase = "LegSet" ->
            To([x EXCEPT !.polls = 0], "LegRead", WriteTo("vel", RungDuty(x)))
      [] x.phase = "LegRead" -> To(x, "LegEval", Read)
      [] x.phase = "LegEval" ->
            LET y == [x EXCEPT !.polls = @ + 1]
            IN  To(y, IF LegDone(x, o.pos) \/ y.polls >= LegCap
                      THEN "LegOff" ELSE "LegRead", Pause)
      [] x.phase = "LegOff" -> To(x, "LegRest", WriteTo("vel", 0))
      [] x.phase = "LegRest" ->
            To([x EXCEPT !.n = @ + 1],
               IF x.n + 1 < 2 * Levels THEN "LegSet" ELSE "FinishGoal", Pause)
      [] x.phase = "FinishGoal" -> To(x, "FinishTorque", WriteTo("vel", 0))
      [] x.phase = "FinishTorque" -> To(x, "Finished", WriteTo("torque", 0))
      [] x.phase = "Finished" -> To(x, "Finished", Done)

VelocityStep(x, o) ==
    IF x.phase \in {"ModeWrite", "TorqueOn", "SeekSet", "SeekRead", "SeekEval", "SeekOff",
                    "SwitchTorqueOff", "SwitchMode", "SwitchTorqueOn"}
    THEN VelocitySeek(x, o) ELSE VelocityLegs(x, o)

-----------------------------------------------------------------------------

\* Experiment::step by experiment.
ExperimentStep(e, x, o) ==
    CASE e = "bias" -> BiasStep(x, o)
      [] e = "resistance" -> ResistanceStep(x, o)
      [] e = "breakaway" -> BreakawayStep(x, o)
      [] e = "ladder" -> LadderStep(x, o)
      [] e = "inertia" -> InertiaStep(x, o)
      [] e = "current" -> CurrentStep(x, o)
      [] e = "velocity" -> VelocityStep(x, o)
      [] e = "endstop" -> EndstopStep(x, o)
      [] e = "sweep" -> SweepStep(x, o)

\* Guarded::violation.  The pos guard is off for the end-stop experiments.
Violation(e, o) ==
    \/ o.bad
    \/ e \notin {"resistance", "current", "endstop"} /\ o.pos \notin GuardLo .. GuardHi

\* Guarded::step.  The ripple sweep runs unguarded.
GuardedStep(e, g, x, o) ==
    LET trip == g = "Run" /\ o # None /\ e # "sweep" /\ Violation(e, o)
        s == ExperimentStep(e, x, o)
    IN  CASE trip \/ g = "DutyOff" ->
                [g |-> "TorqueOff", x |-> x, cmd |-> WriteTo("duty", 0)]
          [] g = "TorqueOff" -> [g |-> "Finished", x |-> x, cmd |-> WriteTo("torque", 0)]
          [] g = "Finished" -> [g |-> "Finished", x |-> x, cmd |-> Done]
          [] g = "Run" /\ ~trip -> [g |-> "Run", x |-> s.x, cmd |-> s.cmd]

\* The envelope has tripped: abort() is Some.
Aborted(g) == g # "Run"
=============================================================================
