----------------------------- MODULE MCHostSide -----------------------------
(* Model checking of the host's side of the bus: the adapter's link server   *)
(* over its bus master (LinkServer, over every verb), the bus master alone   *)
(* under late interrupts, dead slots and noise (HostEngine), the client      *)
(* library (Client), the capture chain (EdgeTimeline), the USB pipe (Usb),   *)
(* the walker of the receive ring (HostFramer) and the discovery of servos   *)
(* (Discovery).                                                              *)
EXTENDS LinkServer, Usb, HostFramer, FramerStreams

VARIABLES
    unit,   \* the part of the system this behaviour is about
    call, next, rx, down, up, act, sent, bad, last,
    time, edges, acc, drained, over, srv, edgeAnchor, out, base, sure, floor,
    task, fleet, ids, rates, hostRate, stack, stage, node, tries, found, prev,
    walks, at, roster, mishaps

Shape(r, n, b, t, g, s) ==
    [replies |-> r, n |-> n, bytes |-> b, train |-> t, gap |-> g, slow |-> s]

\* over the server: a plain request, a silent one, a calibration train; under
\* the engine alone two chains, an enumeration and a slow operation too
LinkPlans == {Shape("Single", 1, 1, 0, 0, FALSE), Shape("None", 0, 0, 0, 0, FALSE),
              Shape("None", 0, 0, 2, 3, FALSE)}
EnginePlans == LinkPlans \cup
    {Shape("Chain", 2, 1, 0, 0, FALSE), Shape("Chain", 3, 1, 0, 0, FALSE),
     Shape("Collect", 0, 1, 0, 0, FALSE), Shape("Single", 1, 1, 0, 0, TRUE)}
EngineTrain == [breaks |-> 3, gap |-> 3]
EngineTrains == {EngineTrain}
EngineRates == [fast |-> 1, rescue |-> 2]

Op(v, a) == [verb |-> v, arg |-> a]
LinkOps == {Op("exchange", p) : p \in LinkPlans} \cup
           {Op("deadline", 3), Op("hostbaud", "fast"), Op("rescue", 0), Op("send", 0),
            Op("burst", 2), Op("train", EngineTrain), Op("baud", "fast"), Op("pulse", 1),
            Op("malformed", 0)}
LinkRails == {[state |-> {"v5"}, mask |-> {"v3v3"}]}

\* what a servo may answer a typed call with
SomeStatuses == {[result |-> "ok", own |-> TRUE], [result |-> "refused", own |-> TRUE],
                 [result |-> "short", own |-> FALSE]}

Calls == INSTANCE Client WITH
    SeqSpace <- 2, MaxCalls <- 2, MaxStatuses <- 1, StatusKinds <- SomeStatuses,
    Groups <- 2, Listed <- 1, Trains <- 2,
    Breach <- TRUE, Reopens <- FALSE,
    Kinds <- {"submit", "ping", "read", "gread", "mgmt", "step", "rescue_sweep",
              "cal_verify", "wire", "rails", "drain", "reset", "boot"}

Edges == INSTANCE EdgeTimeline WITH
    Wrap <- 4, CapLen <- 2, DrainMax <- 2, Guard <- 2, Skew <- 1,
    Racing <- FALSE, MaxTime <- 9, MaxEdges <- 8, wire <- edges, anchor <- edgeAnchor

Disc == INSTANCE Discovery WITH
    Bits <- 3, EmptyRetries <- 2, LeafRetries <- 3, WalksCap <- 3,
    Rates <- <<1000, 500, 2000, 3000>>,
    Jobs <- {"walk", "bench", "assign", "findBaud", "setBaud"},
    MaxServos <- 2, MaxMutes <- 3, MaxGhosts <- 1, MaxGarbles <- 1,
    job <- task, pc <- stage, noise <- mishaps

-----------------------------------------------------------------------------
\* A part that is not under way stands still.
clientVars == <<call, next, rx, down, up, act, sent, bad, last>>
edgeVars == <<time, edges, acc, drained, over, srv, edgeAnchor, out, base, sure,
              floor>>
discVars == <<task, fleet, ids, rates, hostRate, stack, stage, node, tries,
              found, prev, walks, at, roster, mishaps>>

Off == "off"
ClientOff ==
    /\ call = Off /\ next = Off /\ rx = Off /\ down = Off /\ up = Off
    /\ act = Off /\ sent = Off /\ bad = Off /\ last = Off
EdgeOff ==
    /\ time = Off /\ edges = Off /\ acc = Off /\ drained = Off
    /\ over = Off /\ srv = Off /\ edgeAnchor = Off /\ out = Off /\ base = Off
    /\ sure = Off /\ floor = Off
DiscOff ==
    /\ task = Off /\ fleet = Off /\ ids = Off /\ rates = Off
    /\ hostRate = Off /\ stack = Off /\ stage = Off /\ node = Off
    /\ tries = Off /\ found = Off /\ prev = Off /\ walks = Off
    /\ at = Off /\ roster = Off /\ mishaps = Off

\* instructions and a status, as the host's ring sees them
BusFrames == SentFrames \cup StatusFrames
ShortJunk == {g \in Junk : Len(g) # 3}

Unwalked ==
    /\ stream = PingFrame \o PingFrame
    /\ cursor = 0
    /\ WalkInit

Quiescent == ServerInit /\ UsbInit /\ Unwalked

\* the engine without its server: as if the bootloader had taken over from it
EngineAlone == Init /\ ServerIdle /\ booted = TRUE /\ UsbInit /\ Unwalked

SuiteInit ==
    \/ unit \in {"link", "usb"} /\ Quiescent /\ ClientOff /\ EdgeOff /\ DiscOff
    \/ unit = "engine" /\ EngineAlone /\ ClientOff /\ EdgeOff /\ DiscOff
    \/ unit = "client" /\ Calls!Init /\ Quiescent /\ EdgeOff /\ DiscOff
    \/ unit = "edges" /\ Edges!Init /\ Quiescent /\ ClientOff /\ DiscOff
    \/ unit = "disc" /\ Disc!DiscInit /\ Quiescent /\ ClientOff /\ EdgeOff
    \/ unit = "walker" /\ WalkInit /\ ServerInit /\ UsbInit /\ ClientOff /\ EdgeOff /\ DiscOff

OnlyLink(A) == unit = "link" /\ A /\ UNCHANGED <<unit, walkVars, clientVars, edgeVars, usbVars, discVars>>
OnlyEngine(A) == unit = "engine" /\ A /\ UNCHANGED <<unit, walkVars, clientVars, edgeVars, usbVars, discVars, server>>
OnlyClient(A) == unit = "client" /\ A /\ UNCHANGED <<unit, walkVars, allVars, edgeVars, usbVars, discVars>>
OnlyEdges(A) == unit = "edges" /\ A /\ UNCHANGED <<unit, walkVars, allVars, clientVars, usbVars, discVars>>
OnlyUsb(A) == unit = "usb" /\ A /\ UNCHANGED <<unit, walkVars, allVars, clientVars, edgeVars, discVars>>
OnlyDisc(A) == unit = "disc" /\ A /\ UNCHANGED <<unit, walkVars, allVars, clientVars, edgeVars, usbVars>>
OnlyWalker(A) == unit = "walker" /\ A /\ UNCHANGED <<unit, allVars, clientVars, edgeVars, usbVars, discVars>>

SuiteNext ==
    \/ OnlyLink(ServerNext)
    \/ OnlyEngine(Next)
    \/ OnlyClient(Calls!Next)
    \/ OnlyEdges(Edges!Next)
    \/ OnlyUsb(UsbNext)
    \/ OnlyDisc(Disc!DiscNext)
    \/ OnlyWalker(WalkNext)

suiteVars == <<unit, walkVars, allVars, clientVars, edgeVars, usbVars, discVars>>

\* Only safety is checked here: no fairness is assumed.
SuiteSpec ==
    /\ SuiteInit /\ [][SuiteNext]_suiteVars

-----------------------------------------------------------------------------
ASSUME Calls!ClientAssumption /\ Edges!EdgeAssumption /\ UsbAssumption
ASSUME WalkAssumption /\ SessionAssumption

(* A sequenced call that succeeds was answered by its own request only, and *)
(* a record that does not decode wedges the session loudly (client.rs,      *)
(* session.rs).                                                             *)
ClientSound ==
    /\ [](unit = "client" => Calls!TypeOK /\ Calls!SequencedMine)
    /\ [][unit = "client" => Calls!WedgedStep]_suiteVars

(* Without a lapped ring the client's timeline is the wire's; a lapped one  *)
(* is flagged, and a drain behind it is still a stretch of the ring's edges *)
(* in the order they came (wire.rs, edges.rs:94).                           *)
EdgesTrue ==
    unit = "edges" => /\ Edges!TypeOK /\ Edges!Exact
                      /\ Edges!LossIsFlagged /\ Edges!WindowInOrder

(* A finished discovery is the fleet, and what the calls report about rates *)
(* is so (mgmt.rs walk, discover, find_bus_baud, set_baud; discover.rs).    *)
RosterTrue == unit = "disc" => Disc!DiscTypeOK /\ Disc!RosterTrue /\ Disc!RateTrue
=============================================================================
