------------------------------ MODULE Calibrate ------------------------------
(***************************************************************************)
(* `osc cal` (src/tools/osc/src/cal/mod.rs): find both rails and the drive *)
(* polarity, capture the ripple sweep, recenter, resolve the angle anchor, *)
(* then write the calibration and SAVE it.                                 *)
(*                                                                         *)
(* It shares the pump, the bus and the servo of RigPump, on a plant whose  *)
(* motor may be wired either way round.  Unlike the ident runners it has   *)
(* no with_guard: the two pumped experiments are parked whatever happens,  *)
(* the hand-written drive loops between them park on ctrl-c and on their   *)
(* normal ends, and an error (`?`) returns at once, the motor as it was.   *)
(***************************************************************************)
EXTENDS RigPump

CONSTANTS
    CalArgs,      \* the command lines: [yes, tel, gear, travel]
    Travel,       \* DEFAULT_TRAVEL_DEG, or the travel the gear implies
    SoftTravel    \* DEFAULT_SOFT_TRAVEL_DEG

VARIABLES
    args,      \* the command line of this run
    wired,     \* 1 when positive duty raises the pot, else -1
    cal,       \* measured rails and polarity; the loop's duty and iteration
    plan,      \* register writes still to do
    table,     \* the calibration registers in RAM
    nv,        \* the calibration registers as last saved
    planned    \* what this run decided to write

calVars == <<args, wired, cal, plan, table, nv, planned>>
allVars == <<rigVars, calVars>>

Regs == {"pmin", "pmax", "smin", "smax", "pol", "amin", "amax", "gear",
         "lutmin", "lutmax", "lutcorr"}

CalInit ==
    /\ RigInit /\ prog = <<"endstop">> /\ servo = ServoRest
    /\ args \in CalArgs
    /\ wired \in {1, -1}
    /\ cal = [lo |-> 0, hi |-> 0, pol |-> 1, duty |-> 0, iter |-> 0]
    /\ plan = <<>>
    /\ table = [r \in Regs |-> -1]
    /\ nv = table
    /\ planned = <<>>

CalMove ==
    /\ MotorDrive(servo) # 0
    /\ pos + wired * Sign(MotorDrive(servo)) \in 0 .. MaxPos
    /\ pos' = pos + wired * Sign(MotorDrive(servo))
    /\ UNCHANGED <<servo, win, frames, prog, pc, x, guard, pending, count, after,
                   missed, stop, lost, failed, calVars>>

-----------------------------------------------------------------------------

\* `?`: the error leaves the tool as it is.
Bail == pc' = "exit" /\ failed' = TRUE

\* park(): two writes, errors ignored; then on to `where`.
Park(where, err) == Leave(where, err)

StartPumped(e, first) ==
    /\ prog' = <<e>>
    /\ x' = [Fresh(e) EXCEPT !.first = first]
    /\ guard' = "Run"
    /\ pc' = "pump"

\* read_sense, then the safety gate before any motion.
Sense ==
    /\ pc = "start"
    /\ \/ LoseRead /\ Bail /\ UNCHANGED <<prog, x, guard>>
       \/ ~args.yes /\ pc' = "exit" /\ UNCHANGED <<prog, x, guard, lost, failed>>
       \/ StartPumped("endstop", 1) /\ UNCHANGED <<lost, failed>>
    /\ UNCHANGED <<servo, pos, win, frames, pending, count, after, missed, stop, calVars>>

CalPump ==
    /\ PumpInterrupted \/ PumpWrite \/ PumpRead \/ PumpPause \/ PumpDone
    /\ UNCHANGED calVars

ParkWrites == <<WriteTo("duty", 0), WriteTo("torque", 0)>>

CalPark ==
    /\ pc = "guard"
    /\ \E ok, applied \in BOOLEAN :
          /\ WriteReg(ParkWrites[count], ok, applied)
          /\ missed' = IF applied THEN missed ELSE missed + 1
    /\ IF count = Len(ParkWrites) THEN pc' = after /\ count' = 0
       ELSE pc' = pc /\ count' = count + 1
    /\ UNCHANGED <<pos, frames, prog, x, guard, pending, after, stop, failed, calVars>>

-----------------------------------------------------------------------------
(* run_endstop's and run_sweep's results.                                    *)

Result(rail) ==
    LET up == rail[1] > rail[2]
    IN  [lo |-> IF up THEN rail[2] ELSE rail[1], hi |-> IF up THEN rail[1] ELSE rail[2],
         pol |-> IF up THEN 1 ELSE -1, duty |-> 0, iter |-> 0]

EndstopDone ==
    /\ pc = "check" /\ prog = <<"endstop">>
    /\ IF Aborted(guard) THEN Bail /\ UNCHANGED cal
       ELSE /\ cal' = Result(x.rail)
            /\ pc' = IF args.tel THEN "here" ELSE "reMode"
            /\ failed' = failed
    /\ UNCHANGED <<servo, pos, win, frames, prog, x, guard, pending, count, after,
                   missed, stop, lost, args, wired, plan, table, nv, planned>>

SweepDone ==
    /\ pc = "check" /\ prog = <<"sweep">>
    /\ pc' = "reMode"
    /\ UNCHANGED <<servo, pos, win, frames, prog, x, guard, pending, count, after,
                   missed, stop, lost, failed, calVars>>

-----------------------------------------------------------------------------
(* The hand-written drive loops: probe_speed, drive_to, recenter.  At each   *)
(* place there is a write, a read or a look at the ctrl-c flag.              *)

Mid == (cal.lo + cal.hi) \div 2
SweepStart == IF cal.hi - cal.lo > 2 * Margin THEN cal.lo + Margin ELSE cal.lo

\* The duty that moves the pot towards target, by the measured polarity.
DutyToward(target) == IF (pos < target) = (cal.pol = 1) THEN 1 ELSE -1

LoopPut(place, reg, val, next) == [at |-> place, cmd |-> WriteTo(reg, val), next |-> next]

LoopWrites ==
    {LoopPut("probeMode", "mode", 0, "probeTorque"),
     LoopPut("probeTorque", "torque", 1, "probeRead"),
     LoopPut("probeDrive", "duty", cal.duty, "probeWait"),
     LoopPut("probeOff", "duty", 0, "toMode"),
     LoopPut("toMode", "mode", 0, "toTorque"),
     LoopPut("toTorque", "torque", 1, "toLoop"),
     LoopPut("toDuty", "duty", cal.duty, "toLoop"),
     LoopPut("toOff", "duty", 0, "sweep"),
     LoopPut("reMode", "mode", 0, "reTorque"),
     LoopPut("reTorque", "torque", 1, "reLoop"),
     LoopPut("reDuty", "duty", cal.duty, "reLoop")}

LoopWrite ==
    /\ \E w \in LoopWrites, ok, applied \in BOOLEAN :
          /\ pc = w.at
          /\ WriteReg(w.cmd, ok, applied)
          /\ IF ok THEN pc' = w.next /\ failed' = failed ELSE Bail
    /\ cal' = IF pc \in {"toTorque", "reTorque"} THEN [cal EXCEPT !.iter = 0] ELSE cal
    /\ UNCHANGED <<pos, frames, prog, x, guard, pending, count, after, missed, stop,
                   args, wired, plan, table, nv, planned>>

\* probe_speed drives away from the nearer rail; its two reads only feed the
\* capture time.
LoopRead ==
    /\ pc \in {"here", "probeRead", "probeRead1"}
    /\ \/ LoseRead /\ Bail /\ cal' = cal
       \/ /\ pc' = CASE pc = "here" -> "probeStop" [] pc = "probeRead" -> "probeDrive"
                     [] pc = "probeRead1" -> "probeOff"
          /\ cal' = IF pc = "here"
                    THEN [cal EXCEPT !.duty = IF pos < Mid THEN cal.pol ELSE -cal.pol]
                    ELSE cal
          /\ UNCHANGED <<lost, failed>>
    /\ UNCHANGED <<servo, pos, win, frames, prog, x, guard, pending, count, after,
                   missed, stop, args, wired, plan, table, nv, planned>>

(* Variant of StopCheck that bails out before it has parked. *)
StopCheckBails ==
    /\ pc \in {"probeStop", "probeWait"}
    /\ IF stop THEN Bail
       ELSE pc' = (IF pc = "probeStop" THEN "probeMode" ELSE "probeRead1") /\ failed' = failed
    /\ UNCHANGED <<servo, pos, win, frames, prog, x, guard, pending, count, after, missed,
                   stop, lost, calVars>>

StopCheck ==
    /\ pc \in {"probeStop", "probeWait"}
    /\ IF stop THEN Park("exit", TRUE)
       ELSE /\ pc' = IF pc = "probeStop" THEN "probeMode" ELSE "probeRead1"
            /\ UNCHANGED <<count, missed, after, failed>>
    /\ UNCHANGED <<servo, pos, win, frames, prog, x, guard, pending, stop, lost, calVars>>

\* drive_to: at most RecenterCap polls towards the capture start, then the
\* capture starts from wherever the pot is.
DriveTo ==
    /\ pc = "toLoop"
    /\ \/ stop /\ cal.iter < RecenterCap /\ Park("exit", TRUE) /\ UNCHANGED <<cal, lost>>
       \/ /\ cal.iter = RecenterCap /\ pc' = "toOff"
          /\ UNCHANGED <<cal, count, missed, after, failed, lost>>
       \/ /\ ~stop /\ cal.iter < RecenterCap
          /\ \/ LoseRead /\ Bail /\ cal' = cal
             \/ /\ pos = SweepStart /\ pc' = "toOff" /\ UNCHANGED <<cal, failed, lost>>
             \/ /\ pos # SweepStart /\ pc' = "toDuty"
                /\ cal' = [cal EXCEPT !.duty = DutyToward(SweepStart), !.iter = @ + 1]
                /\ UNCHANGED <<failed, lost>>
          /\ UNCHANGED <<count, missed, after>>
    /\ UNCHANGED <<servo, pos, win, frames, prog, x, guard, pending, stop, args, wired,
                   plan, table, nv, planned>>

StartSweep ==
    /\ pc = "sweep"
    /\ StartPumped("sweep", cal.pol)
    /\ UNCHANGED <<servo, pos, win, frames, pending, count, after, missed, stop, lost,
                   failed, calVars>>

\* recenter: best effort; arrival, the poll cap and ctrl-c all park.
Recenter ==
    /\ pc = "reLoop"
    /\ \/ stop /\ cal.iter < RecenterCap /\ Park("exit", TRUE) /\ UNCHANGED <<cal, lost>>
       \/ cal.iter = RecenterCap /\ Park("anchor", FALSE) /\ UNCHANGED <<cal, lost>>
       \/ /\ ~stop /\ cal.iter < RecenterCap
          /\ \/ /\ LoseRead /\ Bail /\ cal' = cal
                /\ UNCHANGED <<count, missed, after>>
             \/ pos = Mid /\ Park("anchor", FALSE) /\ UNCHANGED <<cal, lost>>
             \/ /\ pos # Mid /\ pc' = "reDuty"
                /\ cal' = [cal EXCEPT !.duty = DutyToward(Mid), !.iter = @ + 1]
                /\ UNCHANGED <<count, missed, after, failed, lost>>
    /\ UNCHANGED <<servo, pos, win, frames, prog, x, guard, pending, stop, args, wired,
                   plan, table, nv, planned>>

-----------------------------------------------------------------------------
(* The anchor, the soft window and the writes.                               *)

\* resolve_anchor under --yes; interactively the prompts default to a full
\* travel.  revs: the sweep's ripple gave the motor revolutions.
Anchor(revs) ==
    IF args.yes /\ ~(args.gear /\ revs) /\ ~args.travel
    THEN [lo |-> 0, hi |-> 0, gear |-> 0]
    ELSE [lo |-> 0, hi |-> Travel, gear |-> IF args.gear \/ revs THEN 1 ELSE 0]

\* soft_angles: a SoftTravel window centred in the physical range.
SoftAngles(a) ==
    LET span == IF a.hi - a.lo < SoftTravel THEN a.hi - a.lo ELSE SoftTravel
    IN  [lo |-> (a.lo + a.hi - span) \div 2, hi |-> (a.lo + a.hi + span) \div 2]

\* soft_to_count: the linear map, rounded, clamped to the rails.
SoftToCount(angle, a) ==
    LET count0 == IF a.hi = a.lo THEN cal.lo
                  ELSE cal.lo + ((2 * (angle - a.lo) * (cal.hi - cal.lo) + (a.hi - a.lo))
                                 \div (2 * (a.hi - a.lo)))
    IN  IF count0 < cal.lo THEN cal.lo ELSE IF count0 > cal.hi THEN cal.hi ELSE count0

\* write_pot_lut: the range of the pot map, then its knots as one blob.
PotLut == << <<"lutmin", cal.lo>>, <<"lutmax", cal.hi>>, <<"lutcorr", 1>> >>

\* The writes in their order.
Plan(a, lut) ==
    LET s == SoftAngles(a)
        measured == << <<"pmin", cal.lo>>, <<"pmax", cal.hi>>,
                       <<"smin", SoftToCount(s.lo, a)>>, <<"smax", SoftToCount(s.hi, a)>>,
                       <<"pol", IF cal.pol = 1 THEN 1 ELSE 0>>,
                       <<"amin", a.lo>>, <<"amax", a.hi>>, <<"gear", a.gear>> >>
    IN  IF lut THEN measured \o PotLut ELSE measured

\* The operator may decline before anything is written.
ResolveAnchor ==
    /\ pc = "anchor"
    /\ \/ ~args.yes /\ pc' = "exit" /\ UNCHANGED <<plan, planned>>
       \/ \E revs, lut \in IF args.tel THEN BOOLEAN ELSE {FALSE} :
             /\ plan' = Plan(Anchor(revs), lut)
             /\ planned' = plan'
             /\ pc' = "snapshot"
    /\ UNCHANGED <<servo, pos, win, frames, prog, x, guard, pending, count, after,
                   missed, stop, lost, failed, args, wired, cal, table, nv>>

TakeSnapshot ==
    /\ pc = "snapshot"
    /\ \/ LoseRead /\ Bail
       \/ pc' = "write" /\ UNCHANGED <<lost, failed>>
    /\ UNCHANGED <<servo, pos, win, frames, prog, x, guard, pending, count, after,
                   missed, stop, calVars>>

WriteTable ==
    /\ pc = "write" /\ plan # <<>>
    /\ \E ok, applied \in BOOLEAN :
          /\ ok => applied
          /\ IF ok THEN lost' = lost ELSE lost < MaxLost /\ lost' = lost + 1
          /\ table' = IF applied THEN [table EXCEPT ![Head(plan)[1]] = Head(plan)[2]]
                      ELSE table
          /\ IF ok THEN plan' = Tail(plan) /\ UNCHANGED <<pc, failed>>
             ELSE Bail /\ plan' = plan
    /\ UNCHANGED <<servo, pos, win, frames, prog, x, guard, pending, count, after,
                   missed, stop, args, wired, cal, nv, planned>>

TorqueOffForSave ==
    /\ pc = "write" /\ plan = <<>>
    /\ \E ok, applied \in BOOLEAN :
          /\ WriteReg(WriteTo("torque", 0), ok, applied)
          /\ IF ok THEN pc' = "save" /\ failed' = failed ELSE Bail
    /\ UNCHANGED <<pos, frames, prog, x, guard, pending, count, after, missed, stop,
                   calVars>>

\* MGMT SAVE: done and acknowledged, lost, or done with the answer lost.
Save ==
    /\ pc = "save"
    /\ \/ nv' = table /\ pc' = "exit" /\ UNCHANGED <<lost, failed>>
       \/ LoseRead /\ Bail /\ nv' \in {nv, table}
    /\ UNCHANGED <<servo, pos, win, frames, prog, x, guard, pending, count, after,
                   missed, stop, args, wired, cal, plan, table, planned>>

CalTool ==
    \/ Sense \/ CalPump \/ CalPark \/ EndstopDone \/ SweepDone
    \/ LoopWrite \/ LoopRead \/ StopCheck \/ DriveTo \/ StartSweep \/ Recenter
    \/ ResolveAnchor \/ TakeSnapshot \/ WriteTable \/ TorqueOffForSave \/ Save

CalCtrlC == CtrlC /\ UNCHANGED calVars

CalNext == CalTool \/ CalMove \/ CalCtrlC

CalSpec == CalInit /\ [][CalNext]_allVars /\ WF_allVars(CalTool) /\ WF_allVars(CalMove)

-----------------------------------------------------------------------------

(* The calibration state has its types. *)
CalTypeOK ==
    /\ RigTypeOK
    /\ cal.lo \in 0 .. MaxPos /\ cal.hi \in 0 .. MaxPos /\ cal.pol \in {1, -1}
    /\ table \in [Regs -> -1 .. 9]

\* Where probe_speed, drive_to and recenter talk to the servo: the only places
\* from which an error is not followed by park.
DriveLoops ==
    {w.at : w \in LoopWrites} \cup {"probeRead", "probeRead1", "toLoop", "reLoop"}

(* When the tool ends with the motor driven, it ended in this very step on a *)
(* transaction lost in one of the drive loops, whose `?` skips park          *)
(* (cal/mod.rs:691, 703, 733, 764, 776), or the last park lost both of its   *)
(* writes.  Ctrl-c, a tripped envelope, a lost transaction anywhere else and *)
(* every normal end leave it at rest.                                        *)
DrivenEnd ==
    pc # "exit" /\ pc' = "exit" /\ MotorDrive(servo') # 0 =>
        (pc \in DriveLoops /\ lost' > lost) \/ missed' >= 2

(* The saved calibration is the old one or the whole new one: a lost write   *)
(* ends the run before SAVE.                                                 *)
SaveIsWhole ==
    \/ \A r \in Regs : nv[r] = -1
    \/ \A i \in DOMAIN planned : nv[planned[i][1]] = planned[i][2]

(* `osc cal` leaves the motor driven only when a transaction of one of its   *)
(* own drive loops is lost (or both writes of park are), never on ctrl-c;    *)
(* and what is saved is the old calibration or the whole of the new          *)
(* (cal/mod.rs).                                                             *)
CalSafe == []SaveIsWhole /\ [][DrivenEnd]_allVars

=============================================================================
