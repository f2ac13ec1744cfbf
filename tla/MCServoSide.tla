---------------------------- MODULE MCServoSide ----------------------------
(* Model checking of the servo's side of the bus: ServoBus as MCServoBus    *)
(* has it, the clock calibration it runs between the frames (ClockTrim,     *)
(* on trains alone, with a thermal shift, and with paired frames tracked),  *)
(* and the transmit engine under it.                                        *)
EXTENDS MCServoBus, ClockTrim

VARIABLES
    unit,   \* the part of the system this behaviour is about
    engine, buf, slot, miss, snap, ch7, ch3, acc, ch4, line, sent, rx, gen,
    budget, disturbed, shipped

\* chips of weak and strong trim steps: offset and ppm per step
TrainChips == {<<7000, 1400>>, <<1300, 3200>>}
TrainWarmth == {0, -2000}

\* one span of each parity, on both sides of SMALL_COPY_MAX, and two spans
SpanLayouts == {<<1>>, <<2>>, <<3>>, <<4, 2>>}

Heat == INSTANCE ClockTrim WITH
    Gaps <- {2}, BasePairs <- 2, WinPairs <- 2, Sanity <- 8000, Gate <- 60000,
    StepMin <- 800, StepMax <- 4000, StepsMax <- 4, TotalMax <- 7,
    Nominal <- 2500, Chips <- {<<7000, 1400>>}, Warmth <- {0, -2000},
    Seams <- {0}, Calibrates <- TRUE, Tracks <- FALSE, MaxWarm <- 1

Track == INSTANCE ClockTrim WITH
    Gaps <- {2}, BasePairs <- 1, WinPairs <- 2, Sanity <- 8000, Gate <- 60000,
    StepMin <- 800, StepMax <- 4000, StepsMax <- 2, TotalMax <- 2,
    Nominal <- 2500, Chips <- {<<0, 1400>>}, Warmth <- {0, 3000},
    Seams <- {600}, Calibrates <- TRUE, Tracks <- TRUE, MaxWarm <- 1

Tx == INSTANCE TxEngine WITH
    Layouts <- SpanLayouts, PayloadMax <- 5, SmallMax <- 2, MaxExchanges <- 2,
    MaxTicks <- 1, MaxSick <- 1, MaxBacklog <- 1, tx <- engine

-----------------------------------------------------------------------------
\* A part that is not under way stands still.
wireVars == <<engine, buf, slot, miss, snap, ch7, ch3, acc, ch4, line, sent,
              rx, gen, budget, disturbed, shipped>>

Off == "off"
ClockStands == ClockInit /\ chip = <<1300, 3200>>
WireOff ==
    /\ engine = Off /\ buf = Off /\ slot = Off /\ miss = Off
    /\ snap = Off /\ ch7 = Off /\ ch3 = Off /\ acc = Off /\ ch4 = Off
    /\ line = Off /\ sent = Off /\ rx = Off /\ gen = Off /\ budget = Off
    /\ disturbed = Off /\ shipped = Off

SuiteInit ==
    \/ unit = "bus" /\ Init /\ ClockStands /\ WireOff
    \/ unit = "train" /\ ClockInit /\ Init /\ WireOff
    \/ unit = "heat" /\ Heat!ClockInit /\ Init /\ WireOff
    \/ unit = "track" /\ Track!ClockInit /\ Init /\ WireOff
    \/ unit = "tx" /\ Tx!Init /\ Init /\ ClockStands

OnlyBus(A) == unit = "bus" /\ A /\ UNCHANGED <<unit, clockVars, wireVars>>
OnlyTrain(A) == unit = "train" /\ A /\ UNCHANGED <<unit, vars, wireVars>>
OnlyHeat(A) == unit = "heat" /\ A /\ UNCHANGED <<unit, vars, wireVars>>
OnlyTrack(A) == unit = "track" /\ A /\ UNCHANGED <<unit, vars, wireVars>>
OnlyTx(A) == unit = "tx" /\ A /\ UNCHANGED <<unit, vars, clockVars>>

SuiteNext ==
    \/ OnlyBus(Next)
    \/ OnlyTrain(ClockNext)
    \/ OnlyHeat(Heat!ClockNext)
    \/ OnlyTrack(Track!ClockNext)
    \/ OnlyTx(Tx!Next)

suiteVars == <<unit, vars, clockVars, wireVars>>

\* Each part with the fairness of its own specification.
SuiteSpec ==
    /\ SuiteInit /\ [][SuiteNext]_suiteVars
    /\ WF_suiteVars(OnlyTrain(on_deadline))
    /\ WF_suiteVars(OnlyTrain(low /\ on_cal_break))
    /\ WF_suiteVars(OnlyTx(Tx!CopyByte))
    /\ WF_suiteVars(OnlyTx(Tx!FeedHalfword))
    /\ WF_suiteVars(OnlyTx(Tx!WireByte))
    /\ WF_suiteVars(OnlyTx(Tx!ArmDrains))
    /\ WF_suiteVars(OnlyTx(Tx!ArmComplete))
    /\ WF_suiteVars(OnlyTx(Tx!Release))

-----------------------------------------------------------------------------
ASSUME ClockAssumption /\ Heat!ClockAssumption /\ Track!ClockAssumption

(* A reply that passes its checksum is its own exchange's, byte for byte,   *)
(* whatever the copy, the feed and the wire arms did in between (tx.rs,     *)
(* crc.rs).                                                                 *)
TxSound == unit = "tx" => Tx!TypeOK /\ Tx!ReplySound

(* The wire is handed back after every reply, a reply with a wrong checksum *)
(* has a cause, a CAL train that died gives the deadline slot back, and     *)
(* three trains bring every chip within half a trim step (tx.rs             *)
(* on_arm_complete, patch_crc; clock.rs on_deadline; trim.rs).              *)
ServoSettles ==
    /\ [](unit = "train" => ClockTypeOK /\ Converged)
    /\ [](unit = "heat" => Heat!ClockTypeOK /\ Heat!Converged)
    /\ [](unit = "track" => Track!ClockTypeOK)
    /\ [][unit = "tx" => Tx!CrcStep]_suiteVars
    /\ (unit = "tx" /\ engine.st = "streaming") ~> (unit = "tx" => engine.st = "idle")
    /\ (unit = "train" /\ cal # NoCal) ~> (unit = "train" => cal = NoCal)
=============================================================================
