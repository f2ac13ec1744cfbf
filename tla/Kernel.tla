------------------------------- MODULE Kernel -------------------------------
(* The servo's control kernel: one on_tick per PWM period carries the FAST  *)
(* chain, every DecimMed ticks the MEDIUM one and every DecimSlow of those  *)
(* the SLOW one.  The transport preempts the tick to write the lifecycle    *)
(* block field by field; a torn read of the block is a tick between two     *)
(* such writes.                                                             *)
(*                                                                          *)
(* The chains keep their order, their state and their saturations; the      *)
(* quantities are scaled down to a few levels: currents and duties are      *)
(* small integers, a measured window is valid from Floor up, the supply and *)
(* winding estimates have a few levels.                                     *)
EXTENDS Integers, FiniteSetsExt

CONSTANTS
    DecimMed, DecimSlow,          \* DECIM_MED, DECIM_SLOW
    OcTicks, BadCount, PosErrTicks, StallTicks,   \* detector persistences
    CurrentLimit, StallYield, DutyMax, Floor,
    Modes, Goals, Responses,      \* what the host writes
    Polarity,                     \* drive_polarity
    Overs, Jumps, Errs, Taus, Slows, VelErrs, Holds, Walls, Amps,
                                  \* what a frame may show
    Rails, Heats                  \* levels of the supply and the winding

ASSUME KernelAssumption ==
    /\ {DecimMed, DecimSlow, CurrentLimit, DutyMax, Floor} \subseteq Nat \ {0}
    /\ DecimMed > 1 /\ Floor <= DutyMax /\ StallYield \in 0 .. CurrentLimit
    /\ Modes \subseteq {"OpenLoop", "Current", "Velocity", "Position"} /\ Goals \subseteq Int
    /\ VelErrs \subseteq -1 .. 1 /\ Amps \subseteq Nat
    /\ Rails \subseteq 0 .. 3 /\ Heats \subseteq 0 .. 2

VARIABLES
    torque_enable, mode, goal,    \* the lifecycle block
    stall_response,
    k,                            \* the kernel's own state
    cmd,                          \* the MotorCmd of the last tick
    rail, heat,                   \* the plant: supply, winding
    acked, parked, retries  \* what the properties speak of

lifecycle == <<torque_enable, mode, goal, stall_response>>
plant == <<rail, heat>>
vars == <<lifecycle, k, cmd, plant, acked, parked, retries>>

RailTop == 3   \* a healthy supply; undervolt is below RailTop - 1
Never == 1000   \* u32::MAX: no detector fires before the first SLOW pass

Kernel_new ==
    [med |-> DecimMed - 1, slow |-> DecimSlow - 1, te_prev |-> FALSE, run_prev |-> FALSE,
     mode_prev |-> "OpenLoop", mask |-> {}, code |-> "NONE",
     oc |-> 0, bad |-> 0, seen |-> FALSE, perr |-> 0,
     stall |-> 0, stalled |-> FALSE, pend |-> FALSE, derate |-> CurrentLimit, i_lim |-> 0,
     lo |-> 0, hi |-> 0, i_ref |-> 0, hold |-> FALSE, vel |-> 0, cur |-> 0, duty |-> 0,
     vbus |-> -1, fresh |-> FALSE, r |-> 0, stallT |-> Never, perrT |-> Never]

Init ==
    /\ torque_enable = FALSE /\ mode \in Modes /\ goal \in Goals
    /\ stall_response \in Responses
    /\ k = Kernel_new /\ cmd = "Disabled"
    /\ rail \in Rails /\ heat \in Heats
    /\ acked = TRUE /\ parked = FALSE /\ retries = 0

-----------------------------------------------------------------------------
(* Helpers of the chains. *)
Clamp(x, lo, hi) == IF x < lo THEN lo ELSE IF x > hi THEN hi ELSE x
Abs(x) == IF x < 0 THEN -x ELSE x
Toward(x, y) == IF x < y THEN x + 1 ELSE IF x > y THEN x - 1 ELSE x

(* FaultLatch::raise: the code names the latest newly latched kind. *)
raise(K, bit) ==
    IF bit \in K.mask THEN K ELSE [K EXCEPT !.mask = @ \cup {bit}, !.code = bit]

(* window::select of the previous tick's command. *)
i_valid(K) == Abs(K.duty) >= Floor

(* Detectors: consecutive samples.  An invalid window holds the count. *)
oc_sample(K, over) ==
    IF ~i_valid(K) THEN K
    ELSE IF ~over THEN [K EXCEPT !.oc = 0]
    ELSE LET n == Min({K.oc + 1, OcTicks})
             C == [K EXCEPT !.oc = n]
         IN IF n >= OcTicks THEN raise(C, "OC") ELSE C

sensor_sample(K, moved) ==
    LET jump == K.seen /\ moved
        n == IF jump THEN Min({K.bad + 1, BadCount}) ELSE 0
        C == [K EXCEPT !.seen = TRUE, !.bad = n]
    IN IF jump /\ n >= BadCount THEN raise(C, "SENSOR") ELSE C

pos_err_sample(K, over) ==
    LET n == IF over THEN Min({K.perr + 1, PosErrTicks}) ELSE 0
        C == [K EXCEPT !.perr = n]
    IN IF over /\ n >= K.perrT THEN raise(C, "POS_ERROR") ELSE C

(* torque_enable 0 -> 1: latch, detectors and the limits' pend all clear.   *)
ack(K) ==
    [K EXCEPT !.mask = {}, !.code = "NONE", !.oc = 0, !.perr = 0, !.bad = 0, !.seen = FALSE,
              !.pend = FALSE, !.stalled = FALSE, !.stall = 0]

(* LimitState::fold: release, triggers, the composed limit and the walls.   *)
fold(K, in) ==
    LET relax == K.stalled /\ in.tau = "low"
        pinned == K.i_lim # 0 /\ Abs(K.i_ref) >= K.i_lim
        n == IF pinned /\ in.slow THEN Min({(IF relax THEN 0 ELSE K.stall) + 1, StallTicks})
                                  ELSE 0
        trip == in.tau = "trip" \/ (n > 0 /\ n >= K.stallT)
        stalled == (K.stalled /\ ~relax) \/ (trip /\ stall_response = "Yield")
        lim == Min({CurrentLimit, K.derate, IF stalled THEN StallYield ELSE CurrentLimit})
        up == IF Polarity THEN "max" ELSE "min"
    IN [K EXCEPT !.stall = n, !.stalled = stalled,
                 !.pend = @ \/ (trip /\ stall_response = "Fault"),
                 !.i_lim = lim,
                 !.hi = IF in.wall = up THEN 0 ELSE lim,
                 !.lo = IF in.wall \notin {"none", up} THEN 0 ELSE -lim]

(* Thermal foldback: full when cool, none at the cutoff. *)
update_derate(K) ==
    [K EXCEPT !.derate = IF K.r >= 2 THEN 0 ELSE IF K.r = 0 THEN CurrentLimit
                                              ELSE CurrentLimit \div 2]

(* Variant of vel_step whose integrator ignores the band.                   *)
vel_step_unclamped(K, e) ==
    [K EXCEPT !.i_ref = K.vel + e, !.vel = Clamp(K.vel + e, -CurrentLimit, CurrentLimit)]

(* VelocityLoop::step: the clip of the band works back into the integrator, *)
(* which never holds more than the band's widest side.                      *)
vel_step(K, e) ==
    LET raw == K.vel + e
        i == Clamp(raw, K.lo, K.hi)
        side == Max({Abs(K.lo), Abs(K.hi)})
    IN [K EXCEPT !.i_ref = i, !.vel = Clamp(K.vel + e + (i - raw), -side, side)]

(* CurrentLoop::step on a measurement, or on an honest zero below Floor.    *)
cur_step(K, i) ==
    LET e == Clamp(K.i_ref - i, -1, 1)
        u == K.cur + e
        u_cl == Clamp(u, -DutyMax, DutyMax)
    IN [K EXCEPT !.duty = u_cl, !.cur = Clamp(K.cur + e + (u_cl - u), -DutyMax, DutyMax)]

-----------------------------------------------------------------------------
(* on_tick, in the order of the code.                                       *)
Ack(K) ==
    [(IF torque_enable /\ ~K.te_prev THEN ack(K) ELSE K) EXCEPT !.te_prev = torque_enable]

Run(K) == torque_enable /\ K.mask = {}

(* Both edges of run zero the loop chain; a change of mode lets go of the   *)
(* hold (and, see Trajectory, puts the reference on the estimate).          *)
RunEdge(K, run) ==
    LET E == IF run = K.run_prev THEN K
             ELSE [K EXCEPT !.cur = 0, !.vel = 0, !.i_ref = 0, !.hold = FALSE,
                            !.run_prev = run]
        C == IF run /\ mode # E.mode_prev THEN [E EXCEPT !.hold = FALSE] ELSE E
    IN [C EXCEPT !.mode_prev = mode]

(* The position loop parks or not; every other mode lets go. *)
Profile(K, run, in) ==
    IF run THEN [K EXCEPT !.hold = mode = "Position" /\ in.hold] ELSE K

Stall(K, run) == IF run /\ K.pend THEN raise(K, "STALL") ELSE K

(* Variant of Command that leaves a parked loop its last reference.         *)
CommandParksHot(K, run, in) ==
    IF ~run THEN K
    ELSE IF mode \in {"Velocity", "Position"} THEN vel_step(K, in.velErr)
    ELSE IF mode = "OpenLoop" THEN [K EXCEPT !.i_ref = 0] ELSE K

Command(K, run, in) ==
    IF ~run THEN K
    ELSE CASE mode = "Position" /\ K.hold -> [K EXCEPT !.i_ref = 0, !.vel = 0]
           [] mode \in {"Velocity", "Position"} /\ ~K.hold -> vel_step(K, in.velErr)
           [] mode = "Current" -> K
           [] mode = "OpenLoop" -> [K EXCEPT !.i_ref = 0]

(* VbusEst::step: the first valid window seeds the estimate, the next ones  *)
(* move it; an invalid window holds it.                                     *)
Supply(K) ==
    IF i_valid(K)
      THEN [K EXCEPT !.vbus = IF @ = -1 THEN rail ELSE Toward(@, rail), !.fresh = TRUE]
      ELSE K

(* WindingTherm::step: the resistance follows the winding while a measured  *)
(* current flows at low speed, and is held otherwise.                       *)
Thermometer(K, in) ==
    IF i_valid(K) /\ in.slow THEN [K EXCEPT !.r = Toward(@, heat)] ELSE K

(* The SLOW chain: conversions, thermometer, derate, the two slow faults.   *)
Slow(K, in) ==
    LET R == Thermometer(K, in)
        D == update_derate([R EXCEPT !.stallT = StallTicks, !.perrT = PosErrTicks])
        T == IF D.r >= 2 THEN raise(D, "OVER_TEMP") ELSE D
        V == IF T.fresh /\ T.vbus < RailTop - 1 THEN raise(T, "UNDER_VOLT") ELSE T
    IN [V EXCEPT !.fresh = FALSE]

Medium(K, run, in) ==
    LET F == fold(Profile(K, run, in), in)
        C == Supply(Command(Stall(F, run), run, in))
        S == sensor_sample(C, in.jump)
        P == pos_err_sample(S, run /\ mode = "Position" /\ in.err)
    IN IF P.slow + 1 >= DecimSlow THEN [Slow(P, in) EXCEPT !.slow = 0]
                                  ELSE [P EXCEPT !.slow = @ + 1]

(* The measured current has the sign of the duty that drove the window.     *)
Measured(K, in) == IF ~i_valid(K) THEN 0 ELSE IF K.duty > 0 THEN in.amp ELSE -in.amp

(* Variant of ClosedLoop without the collapsed-band exit.                   *)
ClosedLoopRides(K, in) ==
    LET C == IF mode = "Current" THEN [K EXCEPT !.i_ref = Clamp(goal, K.lo, K.hi)] ELSE K
    IN IF C.hold THEN [s |-> [C EXCEPT !.duty = 0], c |-> "Coast"]
       ELSE [s |-> cur_step(C, Measured(K, in)), c |-> "Drive"]

(* The drive of a closed mode: coast when parked; let go when the band has  *)
(* collapsed and nothing is measured; else the current loop.                *)
ClosedLoop(K, in) ==
    LET C == IF mode = "Current" THEN [K EXCEPT !.i_ref = Clamp(goal, K.lo, K.hi)] ELSE K
    IN IF C.hold THEN [s |-> [C EXCEPT !.duty = 0], c |-> "Coast"]
       ELSE IF C.i_ref = 0 /\ ~i_valid(K) /\ (C.hi = 0 \/ C.lo = 0)
              THEN [s |-> [C EXCEPT !.cur = 0, !.duty = 0], c |-> "Drive"]
       ELSE [s |-> cur_step(C, Measured(K, in)), c |-> "Drive"]

(* A fault raised in this tick's chain disables this tick's drive.          *)
Drive(K, run, in) ==
    IF ~(run /\ K.mask = {}) THEN [s |-> [K EXCEPT !.duty = 0], c |-> "Disabled"]
    ELSE IF mode = "OpenLoop"
           THEN [s |-> [K EXCEPT !.duty = Clamp(goal, -DutyMax, DutyMax)], c |-> "Drive"]
           ELSE ClosedLoop(K, in)

Step(in) ==
    LET A == oc_sample(Ack(k), in.over)
        run == Run(A)
        E == RunEdge(A, run)
        M == IF E.med + 1 >= DecimMed THEN [Medium(E, run, in) EXCEPT !.med = 0]
                                      ELSE [E EXCEPT !.med = @ + 1]
    IN Drive(M, run, in)

IsMedium == k.med + 1 >= DecimMed
Idle == [jump |-> FALSE, err |-> FALSE, tau |-> "low", slow |-> FALSE, velErr |-> 0,
         hold |-> FALSE, wall |-> "none"]
Frames ==
    IF IsMedium
      THEN [jump : Jumps, err : Errs, tau : Taus, slow : Slows, velErr : VelErrs,
            hold : Holds, wall : Walls]
      ELSE {Idle}

on_tick ==
    /\ \E over \in Overs, amp \in Amps, f \in Frames :
         LET in == [jump |-> f.jump, err |-> f.err, tau |-> f.tau, slow |-> f.slow,
                    velErr |-> f.velErr, hold |-> f.hold, wall |-> f.wall,
                    over |-> over, amp |-> amp]
             d == Step(in)
             edge == torque_enable /\ ~k.te_prev
         IN /\ k' = d.s /\ cmd' = d.c
            /\ acked' = ((acked \/ edge) /\ d.s.mask = {})
            /\ parked' = IF IsMedium THEN d.s.hold /\ Run(Ack(k)) /\ in.tau # "trip"
                                     ELSE parked /\ d.s.hold
            /\ retries' = IF rail = RailTop /\ "UNDER_VOLT" \in d.s.mask \ Ack(k).mask
                           THEN Min({retries + 1, RailTop}) ELSE retries
    /\ UNCHANGED <<lifecycle, plant>>

(* The transport writes one field of the lifecycle block. *)
WriteTorque(b) == torque_enable' = b /\ UNCHANGED <<mode, goal>>
WriteMode(m) == mode' = m /\ UNCHANGED <<torque_enable, goal>>
WriteGoal(g) == goal' = g /\ UNCHANGED <<torque_enable, mode>>
Write ==
    /\ \/ \E b \in BOOLEAN \ {torque_enable} : WriteTorque(b)
       \/ \E m \in Modes \ {mode} : WriteMode(m)
       \/ \E g \in Goals \ {goal} : WriteGoal(g)
    /\ UNCHANGED <<stall_response, k, cmd, plant, acked, parked, retries>>

(* The supply sags or recovers, the winding heats or cools. *)
Plant ==
    /\ \/ rail' \in Rails \ {rail} /\ retries' = 0 /\ UNCHANGED heat
       \/ heat' \in Heats \ {heat} /\ UNCHANGED <<rail, retries>>
    /\ UNCHANGED <<lifecycle, k, cmd, acked, parked>>

Next == on_tick \/ Write \/ Plant

(* The tick interrupt never stops.  on_tick is always enabled, and with     *)
(* DecimMed > 1 it is the one action that changes k, at every step of it:   *)
(* this is WF_vars(on_tick).                                                *)
Spec == Init /\ [][Next]_vars /\ []<><<TRUE>>_k

-----------------------------------------------------------------------------
(* Properties *)

(* The kernel's variables have their types. *)
TypeOK ==
    /\ k.mask \subseteq {"OC", "OVER_TEMP", "STALL", "POS_ERROR", "SENSOR", "UNDER_VOLT"}
    /\ k.lo \in -CurrentLimit .. 0 /\ k.hi \in 0 .. CurrentLimit
    /\ k.i_ref \in -CurrentLimit .. CurrentLimit
    /\ k.duty \in -DutyMax .. DutyMax /\ k.cur \in -DutyMax .. DutyMax
    /\ k.vel \in -CurrentLimit .. CurrentLimit
    /\ k.med \in 0 .. DecimMed - 1 /\ k.slow \in 0 .. DecimSlow - 1
    /\ k.vbus \in -1 .. RailTop /\ k.r \in 0 .. 2 /\ k.derate \in 0 .. CurrentLimit
    /\ cmd \in {"Disabled", "Coast", "Drive"}

(* The current command stays in the band of the last MEDIUM tick through    *)
(* every change of mode, goal, wall, derate and stall fold (kernel/mod.rs,  *)
(* kernel/limits.rs "every command clamps into").                           *)
InBand == cmd = "Drive" /\ k.mode_prev # "OpenLoop" => k.i_ref \in k.lo .. k.hi

(* Nothing drives between a fault and its acknowledgement by a              *)
(* torque_enable edge, and the code names a latched fault (faults.rs).      *)
AckedBeforeDrive ==
    /\ cmd # "Disabled" => acked
    /\ k.mask = {} <=> k.code = "NONE"
    /\ k.code # "NONE" => k.code \in k.mask

(* Re-raising a standing fault does not hide a later one: the code is the   *)
(* last kind to latch (faults.rs FaultLatch).                               *)
CodeIsLatest ==
    [][k.mask \subseteq k'.mask /\ k'.mask # k.mask /\ (k.te_prev \/ ~torque_enable)
         => k'.code \in k'.mask \ k.mask]_vars

(* A drive that starts does so from zeroed loops, however it was stopped    *)
(* (current.rs "a stale integrator never kicks a fresh enable").            *)
BumplessEnable ==
    [][cmd = "Disabled" /\ cmd' = "Drive" /\ mode' # "OpenLoop"
         => Abs(k'.duty) <= 1 /\ Abs(k'.vel) <= 1]_vars

(* A stall that pended while the torque was off never trips the drive that  *)
(* follows: STALL latches only on a trip seen since the enable.             *)
NoStaleStall == k.pend => (k.run_prev => "STALL" \in k.mask)

(* A servo parked for two MEDIUM passes never trips the stall timer, at     *)
(* whatever current it arrived (kernel/mod.rs: "false-trips the stall       *)
(* detector").                                                              *)
HoldNeverStalls == [][parked /\ parked' => "STALL" \notin k'.mask \ k.mask]_vars

(* With the supply back, an acknowledged undervolt comes back at most while *)
(* the estimate climbs: every new latch has seen a fresh sample (vbus.rs    *)
(* take_fresh: a held estimate "re-latches forever").                       *)
UndervoltEnds == retries <= RailTop - 1

(* The current loop leaves zero duty for a reachable goal: it never waits   *)
(* for a window that only its own duty would open (kernel/mod.rs i_loop).   *)
Asked == torque_enable /\ mode = "Current" /\ goal = CurrentLimit /\ k.mask = {}
Reachable == Asked /\ k.run_prev /\ k.hi = CurrentLimit
(* Pushed against a wall the drive lets go instead of grinding on at a duty *)
(* too small to measure (kernel/mod.rs, the collapsed band).                *)
Blocked == Asked /\ k.hi = 0
(* What holds of every state of the kernel, and of every tick.              *)
KernelSafe == TypeOK /\ InBand /\ NoStaleStall /\ AckedBeforeDrive /\ UndervoltEnds
KernelSteps == CodeIsLatest /\ BumplessEnable /\ HoldNeverStalls

=============================================================================
