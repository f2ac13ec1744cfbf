------------------------------- MODULE RigPump -------------------------------
(***************************************************************************)
(* The driver of the bench experiments: the command pump                   *)
(* (src/tools/osc/src/rig/pump.rs) and the `osc ident` runners             *)
(* (src/tools/osc/src/ident/mod.rs) around the engine of Experiments, the  *)
(* servo's control registers, the plant, a link that may lose a            *)
(* transaction, and ctrl-c.                                                *)
(*                                                                         *)
(* The program is a sequence of experiments.  Each is entered through      *)
(* recenter (unless it stalls at the ends on purpose) and runs inside      *)
(* with_guard, which forces the servo safe on every way out.               *)
(***************************************************************************)
EXTENDS Experiments

CONSTANTS
    Programs,      \* the subcommands: each a sequence of experiments
    MaxLost,       \* transactions the link loses in one run (bound)
    RecenterCap,   \* recenter's 200 iterations
    TelPort        \* TRUE when a TEL serial port is wired

VARIABLES
    servo,    \* control registers: mode, torque, duty, cur, vel, tel, telmask
    pos,      \* the pot
    win,      \* the published ident window: fresh to the stream, age, moved
    frames,   \* TEL frames buffered by the reader thread: "in"/"out" of a step
    prog,     \* experiments left, the running one first
    pc,       \* where the tool is
    x,        \* the experiment's state
    guard,    \* Guarded's state
    pending,  \* the observation for the next step
    count,    \* recenter iterations / with_guard's next write
    after,    \* where with_guard returns to
    missed,   \* writes of the last with_guard that the servo never saw
    stop,     \* ctrl-c was pressed
    lost,     \* transactions lost so far
    failed    \* the tool is on its way out with an error

rigVars == <<servo, pos, win, frames, prog, pc, x, guard, pending, count,
             after, missed, stop, lost, failed>>

AgeCap == 2

ServoRest == [mode |-> 0, torque |-> 0, duty |-> 0, cur |-> 0, vel |-> 0, tel |-> 0,
              telmask |-> 0]

RigInit ==
    /\ servo \in {[ServoRest EXCEPT !.mode = m] : m \in {0, 2}}
    /\ pos \in {0, (MaxPos + 1) \div 2}
    /\ win = [fresh |-> TRUE, moved |-> FALSE, age |-> 0]
    /\ frames = {}
    /\ prog \in Programs
    /\ pc = "start"
    /\ x = Fresh(Head(prog))
    /\ guard = "Run"
    /\ pending = None
    /\ count = 0
    /\ after = "exit"
    /\ missed = 0
    /\ stop = FALSE
    /\ lost = 0
    /\ failed = FALSE

-----------------------------------------------------------------------------
(* The servo and the plant (external: the firmware is modelled elsewhere).   *)

MotorDrive(s) ==
    IF s.torque = 0 THEN 0
    ELSE CASE s.mode = 0 -> s.duty [] s.mode = 1 -> s.cur [] OTHER -> s.vel

Put(s, cmd) == [s EXCEPT ![cmd.reg] = cmd.val]

\* A goal change restarts the age of the published window: 0 completed
\* before it, 1 straddles it, 2 and more lie wholly after it.
Aged(w, s, t) == IF MotorDrive(s) = MotorDrive(t) THEN w ELSE [w EXCEPT !.age = 0]

Sign(v) == CASE v > 0 -> 1 [] v = 0 -> 0 [] v < 0 -> -1

Move ==
    /\ MotorDrive(servo) # 0
    /\ pos + Sign(MotorDrive(servo)) \in 0 .. MaxPos
    /\ pos' = pos + Sign(MotorDrive(servo))
    /\ UNCHANGED <<servo, win, frames, prog, pc, x, guard, pending, count, after,
                   missed, stop, lost, failed>>

\* Sixteen fast ticks: the kernel publishes one ident window.
Window ==
    /\ win' = [fresh |-> TRUE, moved |-> pending # None,
               age |-> IF win.age < AgeCap THEN win.age + 1 ELSE win.age]
    /\ UNCHANGED <<servo, pos, frames, prog, pc, x, guard, pending, count, after,
                   missed, stop, lost, failed>>

\* One TEL frame leaves the servo; it belongs to a capture once the step's
\* duty is on the motor.
TelFrame ==
    /\ TelPort /\ servo.tel = 1 /\ pc = "pump"
    /\ frames' = frames \cup
                 {IF x.phase \in {"StepRead", "StepEval", "StepOff"} THEN "in" ELSE "out"}
    /\ UNCHANGED <<servo, pos, win, prog, pc, x, guard, pending, count, after,
                   missed, stop, lost, failed>>

CtrlC ==
    /\ pc # "exit" /\ ~stop
    /\ stop' = TRUE
    /\ UNCHANGED <<servo, pos, win, frames, prog, pc, x, guard, pending, count,
                   after, missed, lost, failed>>

-----------------------------------------------------------------------------
(* The bus, as the tools use it.                                             *)

\* write_reg: applied and acknowledged; or lost on the way out; or applied
\* with its acknowledge lost.
WriteReg(cmd, ok, applied) ==
    /\ ok => applied
    /\ IF ok THEN lost' = lost ELSE lost < MaxLost /\ lost' = lost + 1
    /\ servo' = IF applied THEN Put(servo, cmd) ELSE servo
    /\ win' = IF applied THEN Aged(win, servo, Put(servo, cmd)) ELSE win

\* read_snapshot: three tries for an untorn ident block; the last is returned
\* torn or not, and nothing here tells them apart.
Snapshot(bad) == [pos |-> pos, bad |-> bad, fresh |-> win.fresh, age |-> win.age]

LoseRead == lost < MaxLost /\ lost' = lost + 1

-----------------------------------------------------------------------------
(* Pump::run.                                                                *)

Leave(where, err) ==
    /\ pc' = "guard" /\ count' = 1 /\ missed' = 0
    /\ after' = where
    /\ failed' = (failed \/ err)

\* The TEL frames drained after a step go to the experiment's new state.
Drained(y) == IF x.phase \in {"ModeWrite", "TorqueOn", "TelMask"} THEN y
              ELSE PushTel(y, frames)

\* Taking an observation into the window stream uses the window up.
Taken(w, o, y) ==
    IF o # None /\ o.fresh /\ (y.got # x.got \/ y.settle # x.settle)
    THEN [w EXCEPT !.fresh = w.moved, !.moved = FALSE] ELSE [w EXCEPT !.moved = FALSE]

PumpInterrupted ==
    /\ pc = "pump" /\ stop
    /\ Leave("exit", TRUE)
    /\ x' = Fresh(Head(prog))
    /\ pending' = None /\ frames' = {}
    /\ UNCHANGED <<servo, pos, win, prog, guard, stop, lost>>

PumpWrite ==
    /\ pc = "pump" /\ ~stop
    /\ LET s == GuardedStep(Head(prog), guard, x, pending)
       IN  /\ s.cmd.op = "Write"
           /\ guard' = s.g
           /\ frames' = {}
           /\ \E ok, applied \in BOOLEAN :
                 /\ ok => applied
                 /\ IF ok THEN lost' = lost ELSE lost < MaxLost /\ lost' = lost + 1
                 /\ servo' = IF applied THEN Put(servo, s.cmd) ELSE servo
                 /\ win' = Taken(IF applied THEN Aged(win, servo, Put(servo, s.cmd))
                                 ELSE win, pending, s.x)
                 /\ IF ok THEN x' = Drained(s.x) /\ UNCHANGED <<pc, count, missed, after, failed>>
                    ELSE x' = Fresh(Head(prog)) /\ Leave("exit", TRUE)
    /\ pending' = None
    /\ UNCHANGED <<pos, prog, stop>>

PumpRead ==
    /\ pc = "pump" /\ ~stop
    /\ LET s == GuardedStep(Head(prog), guard, x, pending)
       IN  /\ s.cmd.op = "Read"
           /\ guard' = s.g
           /\ frames' = {}
           /\ \/ /\ \E bad \in BOOLEAN : pending' = Snapshot(bad)
                 /\ x' = Drained(s.x)
                 /\ win' = Taken(win, pending, s.x)
                 /\ UNCHANGED <<pc, count, missed, after, failed, lost>>
              \/ /\ LoseRead /\ Leave("exit", TRUE)
                 /\ x' = Fresh(Head(prog))
                 /\ pending' = None
                 /\ win' = Taken(win, pending, s.x)
    /\ UNCHANGED <<servo, pos, prog, stop>>

PumpPause ==
    /\ pc = "pump" /\ ~stop
    /\ LET s == GuardedStep(Head(prog), guard, x, pending)
       IN  /\ s.cmd.op = "Pause"
           /\ guard' = s.g
           /\ x' = Drained(s.x)
           /\ win' = Taken(win, pending, s.x)
    /\ pending' = None /\ frames' = {}
    /\ UNCHANGED <<servo, pos, prog, pc, count, after, missed, stop, lost, failed>>

PumpDone ==
    /\ pc = "pump" /\ ~stop
    /\ LET s == GuardedStep(Head(prog), guard, x, pending)
       IN  s.cmd.op = "Done" /\ guard' = s.g /\ x' = s.x
    /\ Leave("check", FALSE)
    /\ pending' = None /\ frames' = {}
    /\ UNCHANGED <<servo, pos, win, prog, stop, lost>>

-----------------------------------------------------------------------------
(* with_guard: every drive path funnels through these writes; errors are     *)
(* ignored.                                                                  *)

(* Variant of SafeWrites without the torque write. *)
SafeWritesGoals ==
    <<WriteTo("duty", 0), WriteTo("cur", 0), WriteTo("vel", 0), WriteTo("tel", 0),
      WriteTo("telmask", 0)>>

SafeWrites ==
    <<WriteTo("duty", 0), WriteTo("cur", 0), WriteTo("vel", 0), WriteTo("torque", 0),
      WriteTo("tel", 0), WriteTo("telmask", 0)>>

WithGuard ==
    /\ pc = "guard"
    /\ \E ok, applied \in BOOLEAN :
          /\ WriteReg(SafeWrites[count], ok, applied)
          /\ missed' = IF applied THEN missed ELSE missed + 1
    /\ IF count = Len(SafeWrites) THEN pc' = after /\ count' = 0
       ELSE pc' = pc /\ count' = count + 1
    /\ UNCHANGED <<pos, frames, prog, x, guard, pending, after, stop, failed>>

-----------------------------------------------------------------------------
(* The runners of ident/mod.rs.                                              *)

Centred(p) == p = (MaxPos + 1) \div 2

StartPump ==
    /\ pc' = "pump"
    /\ x' = Fresh(Head(prog))
    /\ guard' = "Run"

\* run_resistance goes straight to the pump; every in-band experiment
\* recenters first, and the first read of recenter is outside with_guard.
StartExperiment ==
    /\ pc = "start"
    /\ \/ Head(prog) = "resistance" /\ StartPump
          /\ UNCHANGED <<count, missed, after, failed, lost>>
       \/ /\ Head(prog) # "resistance" /\ Centred(pos)
          /\ StartPump
          /\ UNCHANGED <<count, missed, after, failed, lost>>
       \/ /\ Head(prog) # "resistance" /\ ~Centred(pos)
          /\ pc' = "recenterMode" /\ count' = 0
          /\ UNCHANGED <<x, guard, missed, after, failed, lost>>
       \/ /\ Head(prog) # "resistance" /\ LoseRead
          /\ pc' = "exit" /\ failed' = TRUE
          /\ UNCHANGED <<x, guard, count, missed, after>>
    /\ UNCHANGED <<servo, pos, win, frames, prog, pending, stop>>

\* A write of recenter's closure; an error leaves through with_guard.
RecenterWrite(cmd, next) ==
    \E ok, applied \in BOOLEAN :
        /\ WriteReg(cmd, ok, applied)
        /\ IF ok THEN pc' = next /\ UNCHANGED <<missed, after, failed>>
           ELSE /\ pc' = "guard" /\ missed' = 0
                /\ after' = "exit" /\ failed' = TRUE

RecenterMode ==
    /\ pc = "recenterMode"
    /\ RecenterWrite(WriteTo("mode", 0), "recenterTorque")
    /\ count' = IF pc' = "guard" THEN 1 ELSE count
    /\ UNCHANGED <<pos, frames, prog, x, guard, pending, stop>>

RecenterTorque ==
    /\ pc = "recenterTorque"
    /\ RecenterWrite(WriteTo("torque", 1), "recenterRead")
    /\ count' = IF pc' = "guard" THEN 1 ELSE count
    /\ UNCHANGED <<pos, frames, prog, x, guard, pending, stop>>

RecenterRead ==
    /\ pc = "recenterRead"
    /\ \/ /\ count = RecenterCap \/ LoseRead
          /\ Leave("exit", TRUE)
          /\ count = RecenterCap => lost' = lost
       \/ /\ count < RecenterCap /\ Centred(pos)
          /\ Leave("run", FALSE)
          /\ lost' = lost
       \/ /\ count < RecenterCap /\ ~Centred(pos)
          /\ pc' = IF pos < (MaxPos + 1) \div 2 THEN "recenterUp" ELSE "recenterDown"
          /\ count' = count + 1
          /\ UNCHANGED <<missed, after, failed, lost>>
    /\ UNCHANGED <<servo, pos, win, frames, prog, x, guard, pending, stop>>

RecenterDuty ==
    /\ pc \in {"recenterUp", "recenterDown"}
    /\ RecenterWrite(WriteTo("duty", IF pc = "recenterUp" THEN 1 ELSE -1), "recenterRead")
    /\ count' = IF pc' = "guard" THEN 1 ELSE count
    /\ UNCHANGED <<pos, frames, prog, x, guard, pending, stop>>

\* recenter returned Ok: the experiment proper starts.
RunExperiment ==
    /\ pc = "run"
    /\ StartPump
    /\ UNCHANGED <<servo, pos, win, frames, prog, pending, count, after, missed,
                   stop, lost, failed>>

\* check_abort, then the fit of what was recorded, which may be degenerate.
CheckAbort ==
    /\ pc = "check"
    /\ \/ /\ ~Aborted(guard)
          /\ prog' = Tail(prog)
          /\ pc' = IF Tail(prog) = <<>> THEN "exit" ELSE "start"
          /\ failed' = failed
       \/ /\ pc' = "exit" /\ failed' = TRUE /\ prog' = prog
    /\ UNCHANGED <<servo, pos, win, frames, x, guard, pending, count, after, missed,
                   stop, lost>>

Tool ==
    \/ PumpInterrupted \/ PumpWrite \/ PumpRead \/ PumpPause \/ PumpDone
    \/ WithGuard
    \/ StartExperiment \/ RecenterMode \/ RecenterTorque \/ RecenterRead \/ RecenterDuty
    \/ RunExperiment \/ CheckAbort

RigNext == Tool \/ Move \/ Window \/ TelFrame \/ CtrlC

\* The tool's thread is scheduled, and a driven motor moves until it meets
\* a rail: the still detector has nothing else to end a seek with.
RigSpec == RigInit /\ [][RigNext]_rigVars /\ WF_rigVars(Tool) /\ WF_rigVars(Move)

-----------------------------------------------------------------------------

(* The registers and the tool's state have their types. *)
RigTypeOK ==
    /\ servo \in [mode : 0 .. 2, torque : 0 .. 1, duty : -9 .. 9, cur : -9 .. 9,
                  vel : -9 .. 9, tel : 0 .. 1, telmask : 0 .. 1]
    /\ pos \in 0 .. MaxPos
    /\ guard \in {"Run", "DutyOff", "TorqueOff", "Finished"}
    /\ missed \in 0 .. 6
    /\ lost \in 0 .. MaxLost

(* Whichever way a drive path ends - done, tripped envelope, lost            *)
(* transaction, ctrl-c - the motor is not driven once with_guard returned,   *)
(* unless two of its own writes never reached the servo: torque and goals    *)
(* back each other up ("force the servo safe", ident/mod.rs with_guard).     *)
(* The two programs of `osc cal` run without with_guard.                     *)
SafeExit ==
    /\ pc \in {"start", "run", "check", "exit"} /\ missed < 2
    /\ prog \notin {<<"endstop">>, <<"sweep">>}
    => MotorDrive(servo) = 0

(* Every window an experiment keeps was measured wholly after the last goal  *)
(* change: repeated reads do not use up the settling windows                 *)
(* (exp/mod.rs WindowStream).                                                *)
SettledOnly == x.got = -1 \/ x.got >= 2

(* The mode register only changes while torque is off, lost transactions     *)
(* included: the enable edge reseeds the loops (exp/verify.rs).              *)
ModeStep == servo'.mode # servo.mode => servo.torque = 0
(* Once the envelope tripped or anything failed, torque never comes back on  *)
(* in this process.                                                          *)
AbortStep == failed \/ (Aborted(guard) /\ pc # "start") => servo'.torque <= servo.torque
=============================================================================
