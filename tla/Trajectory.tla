----------------------------- MODULE Trajectory -----------------------------
(* The profile generator of the position and velocity modes, and the        *)
(* position loop behind it.  Every MEDIUM tick moves the reference towards  *)
(* the goal under a velocity and an acceleration limit; the host may move   *)
(* the goal or change the mode between any two ticks.                       *)
(*                                                                          *)
(* Fixed point is kept, with One units to a count in place of 2^16 and one  *)
(* tick in 1/Rate of a second.                                              *)
EXTENDS Integers

CONSTANTS
    One, Rate,             \* units per count, MEDIUM ticks per second
    Accels, VelLimits,     \* accel_limit per tick, velocity_limit, in units
    Lo, Hi,                \* soft limits, counts
    Goals, VGoals,         \* goals the host writes: counts, counts per second
    Modes,
    ThetaLim,              \* THETA_LIM, units
    RampShift,             \* WALL_RAMP_SHIFT, as a factor
    Deadband,              \* pos_deadband_counts
    MaxWrites              \* bound on the host's writes

TrajectoryAssumption ==
    /\ {One, Rate} \subseteq Nat \ {0} /\ Lo < Hi
    /\ Accels \subseteq Nat \ {0} /\ VelLimits \subseteq Nat \ {0}
    /\ \A a \in Accels : a < One * Rate   \* an accel step travels under a count

VARIABLES
    mode, goal, vgoal,     \* what the host asked for
    a, v_lim,              \* the profile limits
    theta, omega, alpha,   \* theta_ref, omega_ref and the applied delta
    hold,                  \* the anti-hunt flag of the position loop
    steady,                \* the goal stands since the profile was at rest
    writes

cfg == <<a, v_lim>>
vars == <<mode, goal, vgoal, cfg, theta, omega, alpha, hold, steady, writes>>

Mag(x) == IF x < 0 THEN -x ELSE x
Least(x, y) == IF x < y THEN x ELSE y
Most(x, y) == IF x > y THEN x ELSE y
Within(x, l, h) == Most(l, Least(x, h))

Init ==
    /\ mode \in Modes /\ goal = 0 /\ vgoal = 0
    /\ a \in Accels /\ v_lim \in VelLimits
    /\ theta = 0 /\ omega = 0 /\ alpha = 0 /\ hold = FALSE
    /\ steady = TRUE /\ writes = 0

(* The goal clamped to the soft limits, in units. *)
Target == Within(goal, Lo, Hi) * One

(* Per-tick travel: the floored product with dt. *)
Travel(v) == IF v >= 0 THEN v \div Rate ELSE -((-v) \div Rate)

(* The reference after a tick at speed v, guarded by THETA_LIM. *)
Moved(v) == Within(theta + Travel(v), -ThetaLim, ThetaLim)

(* wide_ge: one more tick at v_up and the stop would not fit in d. *)
Decelerate(v_up, d) == (v_up + a) * Travel(v_up) >= 2 * a * d

(* The speed along the goal direction after this tick. *)
NextSpeed(v, d) ==
    LET v_up == v + Within(v_lim - v, -a, a)
    IN IF v < 0 THEN Least(v + a, v_lim)
       ELSE IF Decelerate(v_up, d) THEN Most(v - a, 0) ELSE v_up

(* Variant of Lands without the snap.                                       *)
LandsSansSnap(w, d) ==
    (w = 0 \/ (w > 0) = (d > 0) \/ d = 0) /\ Mag(Travel(w)) >= Mag(d) /\ w # 0

(* Landing: the step reaches the goal, or it is slow and within a count. *)
Lands(w, d) ==
    LET toward == (w > 0 => d >= 0) /\ (w < 0 => d <= 0)
    IN (toward /\ Mag(Travel(w)) >= Mag(d)) \/ (Mag(w) <= a /\ Mag(d) < One)

(* position::step: the parked flag; the gain and the clamp of omega_ref are *)
(* the velocity loop's business.  The estimate is within the deadband of    *)
(* the reference or not.                                                    *)
Parks(near, w) == Deadband # 0 /\ near /\ w = 0

step_position(near) ==
    LET d == Target - theta
        v == IF d >= 0 THEN omega ELSE -omega
        vn == NextSpeed(v, Mag(d))
        w == IF d >= 0 THEN vn ELSE -vn
    IN /\ mode = "Position"
       /\ IF Lands(w, d) THEN theta' = Target /\ omega' = 0 /\ alpha' = -omega
                         ELSE theta' = Moved(w) /\ omega' = w /\ alpha' = w - omega
       /\ hold' = Parks(near, omega')
       /\ steady' = (steady \/ omega' = 0)
       /\ UNCHANGED <<mode, goal, vgoal, cfg, writes>>

(* The inward speed allowed at a distance from a wall. *)
Allowed(g) ==
    LET th == theta \div One
        up == Most(Hi - th, 0) * RampShift
        dn == Most(th - Lo, 0) * RampShift
    IN Within(Within(g, -(v_lim \div One), v_lim \div One), -dn, up)

(* The estimate is taken to follow the reference. *)
step_velocity ==
    LET w == omega + Within(Allowed(vgoal) * One - omega, -a, a)
    IN /\ mode = "Velocity"
       /\ theta' = Moved(w) /\ omega' = w /\ alpha' = w - omega
       /\ hold' = FALSE /\ steady' = FALSE
       /\ UNCHANGED <<mode, goal, vgoal, cfg, writes>>

tick == (\E near \in BOOLEAN : step_position(near)) \/ step_velocity

(* A change of mode puts the reference on the estimate, at rest (reseed).   *)
WriteMode(m) ==
    /\ m # mode /\ mode' = m /\ omega' = 0 /\ alpha' = 0 /\ hold' = FALSE
    /\ \E e \in -1 .. 1 : theta' = theta + e
    /\ steady' = TRUE
    /\ UNCHANGED <<goal, vgoal>>

WriteGoal(g) ==
    /\ g # goal /\ goal' = g /\ steady' = (omega = 0)
    /\ UNCHANGED <<mode, vgoal, theta, omega, alpha, hold>>

WriteVGoal(g) ==
    /\ g # vgoal /\ vgoal' = g /\ mode = "Velocity"
    /\ UNCHANGED <<mode, goal, theta, omega, alpha, hold, steady>>

Write ==
    /\ writes < MaxWrites /\ writes' = writes + 1
    /\ \/ \E m \in Modes : WriteMode(m)
       \/ \E g \in Goals : WriteGoal(g)
       \/ \E g \in VGoals : WriteVGoal(g)
    /\ UNCHANGED cfg

Next == tick \/ Write

(* The tick interrupt never stops. *)
Spec == Init /\ [][Next]_vars /\ WF_vars(tick)

-----------------------------------------------------------------------------
(* Properties *)

(* The profile stays within the velocity limit, a reversal included.        *)
TypeOK ==
    /\ Mag(omega) <= v_lim /\ Mag(alpha) <= v_lim /\ {hold, steady} \subseteq BOOLEAN
    /\ writes \in 0 .. MaxWrites

(* A move to a standing goal lands without overshoot and brakes within      *)
(* twice the acceleration limit: no decision of the decel test leaves more  *)
(* speed than the rest of the way can take (trajectory.rs "inductively      *)
(* overshoot-free").                                                        *)
LandingStep == mode = "Position" /\ steady /\ tick => Mag(alpha') <= 2 * a
(* In velocity mode the reference gains no speed towards a wall it has      *)
(* reached, and it comes to rest there or leaves (trajectory.rs, the wall   *)
(* ramp).                                                                   *)
AtWall == mode = "Velocity" /\ ((theta >= Hi * One /\ omega > 0) \/ (theta <= Lo * One /\ omega < 0))
=============================================================================
