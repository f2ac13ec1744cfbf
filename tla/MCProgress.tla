----------------------------- MODULE MCProgress -----------------------------
(* Model checking of what must happen at last on the host's side and in the  *)
(* drive: the answer to every record (LinkServer), the return of every call  *)
(* (Client), the lift-off and the letting go of the current loop (Kernel),   *)
(* the end of every move (Trajectory).                                       *)
EXTENDS Integers

VARIABLES
    unit,   \* the part of the system this behaviour is about
    state, left, gap, deadline_at, plan, rate, response_deadline, pace_until,
    got, junk, fresh, pending_done, pending_wire_done, job, claimed, txArmed,
    ring, talk, quiet, sending, noise, calm, ideal, spoke, chunk, serving,
    active, wire_active, rails, req, pins, booted, used, closed, streaming,
    call, next, rx, down, up, act, sent, bad, last,
    torque_enable, mode, goal, stall_response, k, cmd, rail, heat, acked,
    parked, retries,
    pmode, pgoal, vgoal, a, v_lim, theta, omega, alpha, hold, steady, writes

Shape(r, n, t, g) ==
    [replies |-> r, n |-> n, bytes |-> IF r = "None" THEN 0 ELSE 1, train |-> t, gap |-> g,
     slow |-> FALSE]
LinkPlans == {Shape("Single", 1, 0, 0), Shape("Chain", 2, 0, 0), Shape("None", 0, 0, 0),
              Shape("None", 0, 1, 1)}
LinkOps == {[verb |-> "exchange", arg |-> p] : p \in LinkPlans} \cup
           {[verb |-> "pulse", arg |-> 1], [verb |-> "malformed", arg |-> 0]}

Link == INSTANCE LinkServer WITH
    TickMod <- 8, ByteTicks <- [fast |-> 1, rescue |-> 1],
    RescueRate <- "rescue", Horizon <- 1, Margin <- 1, EnumSlots <- 1,
    SlowExtra <- 1, RescueHold <- 1, Plans <- LinkPlans, Deadlines <- {1},
    Pulses <- {1}, Trains <- {[breaks |-> 2, gap |-> 1]}, Bursts <- {2},
    WireRates <- {"fast"}, Latency <- 0, PollLag <- 1, FleetRD <- 1,
    Lead <- 0, MaxDeadRun <- 1, MaxNoise <- 0, NumSeqs <- 2, MaxChunk <- 2,
    Ops <- LinkOps, RailSets <- {[state |-> {}, mask |-> {}]}, Boots <- {}

Calls == INSTANCE Client WITH
    SeqSpace <- 2, MaxCalls <- 2, MaxStatuses <- 1,
    StatusKinds <- {[result |-> "ok", own |-> TRUE]}, Groups <- 2, Listed <- 1,
    Trains <- 1, Breach <- TRUE, Reopens <- TRUE, Kinds <- {"submit", "rails", "rescue_sweep"}

Drive == INSTANCE Kernel WITH
    DecimMed <- 2, DecimSlow <- 2, OcTicks <- 2, BadCount <- 2,
    PosErrTicks <- 2, StallTicks <- 2, CurrentLimit <- 2, StallYield <- 1,
    DutyMax <- 2, Floor <- 2, Modes <- {"Current"}, Goals <- {1, 2},
    Responses <- {"Yield"}, Polarity <- TRUE, Overs <- {FALSE},
    Jumps <- {FALSE}, Errs <- {FALSE}, Taus <- {"low"}, Slows <- {FALSE},
    VelErrs <- {1}, Holds <- {FALSE}, Walls <- {"none", "max"}, Amps <- {1},
    Rails <- {0, 3}, Heats <- {0}

Path == INSTANCE Trajectory WITH
    One <- 4, Rate <- 4, Accels <- {3, 4, 7}, VelLimits <- {8, 24}, Lo <- -3,
    Hi <- 3, Goals <- {-4, 0, 1, 3}, VGoals <- {-6, 0, 6},
    Modes <- {"Position", "Velocity"}, ThetaLim <- 32, RampShift <- 2,
    Deadband <- 1, MaxWrites <- 2, mode <- pmode, goal <- pgoal

-----------------------------------------------------------------------------
\* A part that is not under way stands still.
linkVars == <<state, left, gap, deadline_at, plan, rate, response_deadline,
              pace_until, got, junk, fresh, pending_done, pending_wire_done,
              job, claimed, txArmed, ring, talk, quiet, sending, noise, calm,
              ideal, spoke, chunk, serving, active, wire_active, rails, req,
              pins, booted, used, closed, streaming>>
clientVars == <<call, next, rx, down, up, act, sent, bad, last>>
kernelVars == <<torque_enable, mode, goal, stall_response, k, cmd, rail, heat,
                acked, parked, retries>>
profileVars == <<pmode, pgoal, vgoal, a, v_lim, theta, omega, alpha, hold,
                 steady, writes>>

Off == "off"
LinkOff ==
    /\ state = Off /\ left = Off /\ gap = Off /\ deadline_at = Off
    /\ plan = Off /\ rate = Off /\ response_deadline = Off
    /\ pace_until = Off /\ got = Off /\ junk = Off /\ fresh = Off
    /\ pending_done = Off /\ pending_wire_done = Off /\ job = Off
    /\ claimed = Off /\ txArmed = Off /\ ring = Off /\ talk = Off
    /\ quiet = Off /\ sending = Off /\ noise = Off /\ calm = Off
    /\ ideal = Off /\ spoke = Off /\ chunk = Off /\ serving = Off
    /\ active = Off /\ wire_active = Off /\ rails = Off /\ req = Off
    /\ pins = Off /\ booted = Off /\ used = Off /\ closed = Off
    /\ streaming = Off
ClientOff ==
    /\ call = Off /\ next = Off /\ rx = Off /\ down = Off /\ up = Off
    /\ act = Off /\ sent = Off /\ bad = Off /\ last = Off
KernelOff ==
    /\ torque_enable = Off /\ mode = Off /\ goal = Off
    /\ stall_response = Off /\ k = Off /\ cmd = Off /\ rail = Off
    /\ heat = Off /\ acked = Off /\ parked = Off /\ retries = Off
ProfileOff ==
    /\ pmode = Off /\ pgoal = Off /\ vgoal = Off /\ a = Off
    /\ v_lim = Off /\ theta = Off /\ omega = Off /\ alpha = Off
    /\ hold = Off /\ steady = Off /\ writes = Off

SuiteInit ==
    \/ unit = "link" /\ Link!ServerInit /\ ClientOff /\ KernelOff /\ ProfileOff
    \/ unit = "client" /\ Calls!Init /\ LinkOff /\ KernelOff /\ ProfileOff
    \/ unit = "kernel" /\ Drive!Init /\ LinkOff /\ ClientOff /\ ProfileOff
    \/ unit = "profile" /\ Path!Init /\ LinkOff /\ ClientOff /\ KernelOff

OnlyLink(A) == unit = "link" /\ A /\ UNCHANGED <<unit, clientVars, kernelVars, profileVars>>
OnlyClient(A) == unit = "client" /\ A /\ UNCHANGED <<unit, linkVars, kernelVars, profileVars>>
OnlyKernel(A) == unit = "kernel" /\ A /\ UNCHANGED <<unit, linkVars, clientVars, profileVars>>
OnlyProfile(A) == unit = "profile" /\ A /\ UNCHANGED <<unit, linkVars, clientVars, kernelVars>>

SuiteNext ==
    \/ OnlyLink(Link!ServerNext)
    \/ OnlyClient(Calls!Next)
    \/ OnlyKernel(Drive!Next)
    \/ OnlyProfile(Path!Next)

suiteVars == <<unit, linkVars, clientVars, kernelVars, profileVars>>

\* Each part with the fairness of its own specification.
SuiteSpec ==
    /\ SuiteInit /\ [][SuiteNext]_suiteVars
    /\ WF_suiteVars(OnlyLink(Link!Handle))
    /\ WF_suiteVars(OnlyLink(Link!on_pipe))
    /\ WF_suiteVars(OnlyLink(Link!take_adapter_request))
    /\ SF_suiteVars(OnlyLink(Link!Outside(Link!pump)))
    /\ SF_suiteVars(OnlyLink(Link!Engine(Link!on_tx_complete)))
    /\ SF_suiteVars(OnlyLink(Link!Engine(Link!on_deadline)))
    /\ SF_suiteVars(OnlyLink(Link!Engine(Link!Servos)))
    /\ SF_suiteVars(OnlyLink(Link!Engine(Link!Tick)))
    /\ WF_suiteVars(OnlyClient(Calls!Recv))
    /\ WF_suiteVars(OnlyClient(Calls!Take))
    /\ WF_suiteVars(OnlyClient(Calls!Lapse))
    /\ ([]<><<TRUE>>_k \/ []<>(unit # "kernel"))
    /\ WF_suiteVars(OnlyProfile(Path!tick))

-----------------------------------------------------------------------------
ASSUME Calls!ClientAssumption /\ Path!TrajectoryAssumption

(* Every record a client sends is answered whatever is pipelined behind it, *)
(* and every call of the client library returns whatever the adapter        *)
(* withholds (link/server.rs, client.rs).                                   *)
RequestsEnd ==
    /\ \A s \in 1 .. 2 : (unit = "link" /\ s \in Link!Open)
                             ~> (unit = "link" => s \in closed \/ booted)
    /\ (unit = "client") ~> (unit = "client" => call = Calls!Idle)

(* The current loop leaves zero duty for a reachable goal, and pushed       *)
(* against a wall the drive lets go instead of grinding on at a duty too    *)
(* small to measure (kernel/mod.rs i_loop, the collapsed band).             *)
KernelLive ==
    /\ (unit = "kernel" /\ Drive!Reachable)
         ~> (unit = "kernel" => Drive!i_valid(k) \/ ~Drive!Reachable)
    /\ (unit = "kernel" /\ Drive!Blocked)
         ~> (unit = "kernel" => k.duty = 0 \/ ~Drive!Blocked)

(* Whatever the host wrote, the profile keeps its velocity limit, brakes    *)
(* with at most twice its acceleration on a standing goal (the last tick    *)
(* rounds), stops at a wall, and reaches the goal written last and stays    *)
(* (trajectory.rs).                                                         *)
ProfileSound ==
    /\ [](unit = "profile" => Path!TypeOK)
    /\ [][unit = "profile" => Path!LandingStep]_suiteVars
    /\ (unit = "profile" /\ Path!AtWall) ~> (unit = "profile" => ~Path!AtWall)
    /\ <>[](unit = "profile" =>
             (pmode = "Position" => theta = Path!Target /\ omega = 0))
=============================================================================
