------------------------------ MODULE MCMotion ------------------------------
(* Model checking of what moves the shaft: the control kernel (Kernel, under *)
(* stalls and walls, under faults, and over a sagging rail), and the bench   *)
(* programs that drive it from outside: identification (RigPump),            *)
(* calibration (Calibrate), the gain writer (GainWriter) and the telemetry   *)
(* stream they read (TelStream).                                             *)
EXTENDS Kernel, Calibrate, GainWriter

VARIABLES
    unit,   \* the part of the system this behaviour is about
    tick, seq, pot, drops, faults, rx, buf, locked, lastSeq, stats, out, busy

\* velocity errors of either sign
BothSigns == {-1, 1}

\* the experiments of `ident run` and of `ident verify`; inertia is on its own,
\* with a TEL port
Subcommands == {<<"bias", "resistance">>, <<"breakaway">>, <<"ladder">>, <<"current", "velocity">>}

Args(y, t, g, v) == [yes |-> y, tel |-> t, gear |-> g, travel |-> v]
CommandLines == {Args(FALSE, FALSE, FALSE, FALSE), Args(TRUE, TRUE, TRUE, FALSE),
                 Args(TRUE, TRUE, FALSE, TRUE)}

\* calibration starts with the end-stop finder; three of the gain fields
Endstops == {<<"endstop">>}
GainNames == <<"r_q12", "i_kp_q88", "v_kp_q88">>

Load == INSTANCE Kernel WITH
    DecimMed <- 2, DecimSlow <- 2, OcTicks <- 2, BadCount <- 2,
    PosErrTicks <- 2, StallTicks <- 2, CurrentLimit <- 2, StallYield <- 1,
    DutyMax <- 2, Floor <- 2, Modes <- {"Position", "Current"}, Goals <- {2},
    Responses <- {"Yield", "Fault"}, Polarity <- TRUE, Overs <- {FALSE},
    Jumps <- {FALSE}, Errs <- {FALSE}, Taus <- {"low", "mid", "trip"},
    Slows <- BOOLEAN, VelErrs <- {-1, 1}, Holds <- BOOLEAN,
    Walls <- {"none", "max"}, Amps <- {1}, Rails <- {3}, Heats <- {0}

Faults == INSTANCE Kernel WITH
    DecimMed <- 2, DecimSlow <- 2, OcTicks <- 2, BadCount <- 2,
    PosErrTicks <- 2, StallTicks <- 2, CurrentLimit <- 2, StallYield <- 1,
    DutyMax <- 2, Floor <- 2, Modes <- {"Velocity", "OpenLoop"}, Goals <- {2},
    Responses <- {"Fault"}, Polarity <- TRUE, Overs <- BOOLEAN,
    Jumps <- BOOLEAN, Errs <- BOOLEAN, Taus <- {"low"}, Slows <- {TRUE},
    VelErrs <- {1}, Holds <- {FALSE}, Walls <- {"none"}, Amps <- {1},
    Rails <- {0}, Heats <- {0, 2}

Sag == INSTANCE Kernel WITH
    DecimMed <- 2, DecimSlow <- 2, OcTicks <- 2, BadCount <- 2,
    PosErrTicks <- 2, StallTicks <- 2, CurrentLimit <- 2, StallYield <- 1,
    DutyMax <- 2, Floor <- 2, Modes <- {"Current"}, Goals <- {1, 2},
    Responses <- {"Yield"}, Polarity <- TRUE, Overs <- {FALSE},
    Jumps <- {FALSE}, Errs <- {FALSE}, Taus <- {"low"}, Slows <- {FALSE},
    VelErrs <- {1}, Holds <- {FALSE}, Walls <- {"none", "max", "min"},
    Amps <- {1}, Rails <- {0, 3}, Heats <- {0}

Rig == INSTANCE RigPump WITH
    MaxPos <- 4, GuardLo <- 1, GuardHi <- 4, Margin <- 1, StallPolls <- 1,
    Settle <- 2, Polls <- 3, Levels <- 1, RampCap <- 2, MoveCounts <- 1,
    SeekCap <- 4, LegCap <- 3, CaptureMax <- 2, StallArm <- 1,
    Programs <- Subcommands, MaxLost <- 1, RecenterCap <- 2, TelPort <- FALSE

Capture == INSTANCE RigPump WITH
    MaxPos <- 3, GuardLo <- 1, GuardHi <- 3, Margin <- 1, StallPolls <- 1,
    Settle <- 2, Polls <- 3, Levels <- 1, RampCap <- 2, MoveCounts <- 1,
    SeekCap <- 4, LegCap <- 3, CaptureMax <- 2, StallArm <- 1,
    Programs <- {<<"inertia">>}, MaxLost <- 1, RecenterCap <- 2,
    TelPort <- TRUE

Tel == INSTANCE TelStream WITH
    SyncByte <- 3, SeqMod <- 8, LockFrames <- 3, MaxPlausible <- 6,
    MinChunk <- 2, MinSpan <- 1, EdgeDwell <- 1, Speeds <- {0, 1},
    MaxTicks <- 5, MaxDrops <- 1, MaxFaults <- 1

\* long enough to lose the lock, take it again and decode behind it
Gaps == INSTANCE TelStream WITH
    SyncByte <- 3, SeqMod <- 10, LockFrames <- 3, MaxPlausible <- 8,
    MinChunk <- 2, MinSpan <- 1, EdgeDwell <- 1, Speeds <- {1}, MaxTicks <- 8,
    MaxDrops <- 2, MaxFaults <- 1

-----------------------------------------------------------------------------
\* A part that is not under way stands still.
telVars == <<tick, seq, pot, drops, faults, rx, buf, locked, lastSeq, stats,
             out, busy>>

Off == "off"
TelOff ==
    /\ tick = Off /\ seq = Off /\ pot = Off /\ drops = Off
    /\ faults = Off /\ rx = Off /\ buf = Off /\ locked = Off
    /\ lastSeq = Off /\ stats = Off /\ out = Off /\ busy = Off

KernelStands == Sag!Init /\ rail = 3 /\ goal = 2
RigStands == CalInit /\ pos = 0 /\ wired = 1 /\ ~args.yes
CalStands ==
    /\ args = Args(FALSE, FALSE, FALSE, FALSE) /\ wired = 1 /\ plan = <<>> /\ planned = <<>>
    /\ cal = [lo |-> 0, hi |-> 0, pol |-> 1, duty |-> 0, iter |-> 0]
    /\ table = [r \in Regs |-> -1] /\ nv = table

SuiteInit ==
    \/ unit = "load" /\ Load!Init /\ RigStands /\ GainInit /\ TelOff
    \/ unit = "faults" /\ Faults!Init /\ RigStands /\ GainInit /\ TelOff
    \/ unit = "sag" /\ Sag!Init /\ RigStands /\ GainInit /\ TelOff
    \/ unit = "rig" /\ Rig!RigInit /\ KernelStands /\ CalStands /\ GainInit /\ TelOff
    \/ unit = "capture" /\ Capture!RigInit /\ KernelStands /\ CalStands /\ GainInit /\ TelOff
    \/ unit = "cal" /\ CalInit /\ KernelStands /\ GainInit /\ TelOff
    \/ unit = "gain" /\ GainInit /\ KernelStands /\ RigStands /\ TelOff
    \/ unit = "tel" /\ Tel!TelInit /\ KernelStands /\ RigStands /\ GainInit
    \/ unit = "gaps" /\ Gaps!TelInit /\ KernelStands /\ RigStands /\ GainInit

OnlyLoad(A) == unit = "load" /\ A /\ UNCHANGED <<unit, rigVars, calVars, gainVars, telVars>>
OnlyFaults(A) == unit = "faults" /\ A /\ UNCHANGED <<unit, rigVars, calVars, gainVars, telVars>>
OnlySag(A) == unit = "sag" /\ A /\ UNCHANGED <<unit, rigVars, calVars, gainVars, telVars>>
OnlyRig(A) == unit = "rig" /\ A /\ UNCHANGED <<unit, vars, calVars, gainVars, telVars>>
OnlyCapture(A) == unit = "capture" /\ A /\ UNCHANGED <<unit, vars, calVars, gainVars, telVars>>
OnlyCal(A) == unit = "cal" /\ A /\ UNCHANGED <<unit, vars, gainVars, telVars>>
OnlyGain(A) == unit = "gain" /\ A /\ UNCHANGED <<unit, vars, rigVars, calVars, telVars>>
OnlyTel(A) == unit = "tel" /\ A /\ UNCHANGED <<unit, vars, rigVars, calVars, gainVars>>
OnlyGaps(A) == unit = "gaps" /\ A /\ UNCHANGED <<unit, vars, rigVars, calVars, gainVars>>

SuiteNext ==
    \/ OnlyLoad(Load!Next)
    \/ OnlyFaults(Faults!Next)
    \/ OnlySag(Sag!Next)
    \/ OnlyRig(Rig!RigNext)
    \/ OnlyCapture(Capture!RigNext)
    \/ OnlyCal(CalNext)
    \/ OnlyGain(GainNext)
    \/ OnlyTel(Tel!TelNext)
    \/ OnlyGaps(Gaps!TelNext)

suiteVars == <<unit, vars, rigVars, calVars, gainVars, telVars>>

\* Only safety is checked here: no fairness is assumed.
SuiteSpec ==
    /\ SuiteInit /\ [][SuiteNext]_suiteVars

-----------------------------------------------------------------------------
(* Every window that is kept was measured wholly after the last goal        *)
(* change; the mode changes only with torque off; and after a trip or a     *)
(* failure torque never comes back on (ident/mod.rs, pump.rs, exp/).  The   *)
(* bench tools' registers and cursors keep their types.                     *)
RigSafe ==
    /\ [](unit \in {"rig", "capture"} => Rig!RigTypeOK /\ SettledOnly)
    /\ []((unit = "cal" => CalTypeOK) /\ GainTypeOK)
    /\ [][(unit \in {"rig", "capture"}) => ModeStep /\ AbortStep]_suiteVars

(* A dropped tick is counted as a gap and never compresses the timebase of  *)
(* a sweep, and a wire fault passes two frames at most (drivers tel.rs,     *)
(* frame.rs, cal/mod.rs build_sweep).                                       *)
StreamTrue ==
    /\ unit = "tel" =>
           Tel!TelTypeOK /\ Tel!DropsCounted /\ Tel!FaultBounded /\ Tel!SpacingUniform
    /\ unit = "gaps" =>
           Gaps!TelTypeOK /\ Gaps!DropsCounted /\ Gaps!FaultBounded /\ Gaps!SpacingUniform
=============================================================================
