---------------------------- MODULE EdgeTimeline ----------------------------
(***************************************************************************)
(* Edge capture, from the adapter's two capture rings                      *)
(* (firmware/host-ch32/src/providers/edges.rs) over the EDGE_DRAIN record   *)
(* to the client's 32-bit timeline (client/src/wire.rs, unwrap_drain).      *)
(*                                                                         *)
(* The wire alternates falls and rises.  DMA writes each edge's tick,       *)
(* modulo Wrap, into the ring of its polarity while the main loop           *)
(* accumulates and drains; the drain reads rises, then falls, then `now`,   *)
(* and edges may land between those reads.  The client merges the two       *)
(* batches by alternation and places every tick at the first time at or     *)
(* after its predecessor.                                                   *)
(***************************************************************************)
EXTENDS Integers, Sequences, SequencesExt

CONSTANTS
  Wrap,        \* 2^16: the capture counter's period
  CapLen,      \* CAP_LEN: entries of a ring
  DrainMax,    \* DRAIN_MAX: entries of one polarity per record
  Guard,       \* ANCHOR_GUARD
  Skew,        \* bound: ticks between the first ring read and the `now` latch
  Racing,      \* whether DMA may write while a ring is being copied
  MaxTime,     \* bound: ticks of a behaviour
  MaxEdges     \* bound: edges of a behaviour

EdgeAssumption ==
  /\ {Wrap, CapLen, DrainMax, Guard, MaxTime, MaxEdges} \subseteq Nat \ {0}
  /\ Racing \in BOOLEAN
  /\ Skew \in Nat /\ Skew < Guard /\ Guard < Wrap

VARIABLES
  time,     \* the true time
  wire,     \* times of the edges so far, odd positions falls
  acc,      \* Side::written of each ring, as accumulated
  drained,  \* Side::drained of each ring
  over,     \* State::overflow
  srv,      \* the drain in progress in the server
  anchor,   \* the client's EdgeAnchor
  out,      \* the edges the client has returned since the last reset
  base,     \* the edges of the wire before the last reset
  sure,     \* whether the timeline's absolute placement is promised
  floor     \* the last edge or empty drain the anchor rests on, NoTick after a reset

vars == <<time, wire, acc, drained, over, srv, anchor, out, base, sure, floor>>

Sides == {"fall", "rise"}
NoDrain == [at |-> "none"]
NoTick == -1

(* The edges of one polarity, in order, and what DMA has written.          *)
Level(i) == IF i % 2 = 1 THEN "fall" ELSE "rise"
Ring(s) == SelectSeq([i \in 1..Len(wire) |-> [t |-> wire[i], s |-> Level(i)]], LAMBDA e : e.s = s)
Written(s) == Len(Ring(s))

(* EdgeAnchor::default: no tick yet, a fall leads because the bus idles high. *)
FreshAnchor == [tick |-> NoTick, lead |-> "fall", carry |-> <<>>]

Init ==
  /\ time = Guard /\ wire = <<>> /\ over = FALSE
  /\ acc = [s \in Sides |-> 0] /\ drained = [s \in Sides |-> 0]
  /\ srv = NoDrain /\ anchor = FreshAnchor
  /\ out = <<>> /\ base = 0 /\ sure = TRUE /\ floor = NoTick

(***************************************************************************)
(* The wire and the main loop                                              *)
(***************************************************************************)
(* Time passes; the server's drain is short.                               *)
Pass ==
  /\ time < MaxTime
  /\ srv # NoDrain => time - srv.since < Skew
  /\ time' = time + 1
  /\ UNCHANGED <<wire, acc, drained, over, srv, anchor, out, base, sure, floor>>

(* An edge, captured by DMA.  The main loop polls before a ring has been
   lapped since the last poll.  A gap of a whole wrap that no empty drain
   broke ends the promise of absolute placement.                           *)
Edge ==
  /\ Len(wire) < MaxEdges
  /\ wire # <<>> => Last(wire) < time
  /\ srv.at \in {"copy1", "copy2"} => Racing
  /\ wire' = Append(wire, time)
  /\ LET s == Level(Len(wire) + 1) IN Written(s) - acc[s] < CapLen - 1
  /\ sure' = (sure /\ (floor # NoTick => time - floor < Wrap))
  /\ floor' = time
  /\ UNCHANGED <<time, acc, drained, over, srv, anchor, out, base>>

(* poll_accumulate of one side: the ring position's advance modulo the
   ring, added to the total.                                               *)
Accumulated(s) == acc[s] + ((Written(s) - acc[s]) % CapLen)

Lapped(s) == Accumulated(s) - drained[s] > CapLen

Accumulates ==
  /\ acc' = [s \in Sides |-> Accumulated(s)]
  /\ over' = (over \/ \E s \in Sides : Lapped(s))

poll_accumulate ==
  /\ srv = NoDrain
  /\ Accumulates
  /\ UNCHANGED <<time, wire, drained, srv, anchor, out, base, sure, floor>>

(* drain: realigned to the oldest intact entry after a lap, then up to
   DrainMax entries, copied while DMA goes on writing: the slot of entry j
   holds the youngest entry written there.  The variant does not realign.  *)
FromDrained(s) == drained[s]

From(s) == IF acc[s] - drained[s] > CapLen THEN acc[s] - CapLen ELSE drained[s]

Count(s) == IF acc[s] - From(s) < DrainMax THEN acc[s] - From(s) ELSE DrainMax
Slot(s, j) == Ring(s)[j + CapLen * ((Written(s) - j) \div CapLen)].t
Batch(s) == [k \in 1..Count(s) |-> Slot(s, From(s) + k) % Wrap]

(* REC_EDGE_DRAIN reads the rises first.                                   *)
Order == <<"rise", "fall">>

(* One ring read: poll_accumulate on both sides, then the copy.            *)
DrainStarts ==
  /\ \/ srv = NoDrain /\ srv' = [at |-> "copy1", since |-> time, got |-> [s \in Sides |-> <<>>]]
     \/ srv.at = "next" /\ srv' = [srv EXCEPT !.at = "copy2"]
  /\ Accumulates
  /\ UNCHANGED <<time, wire, drained, anchor, out, base, sure, floor>>

DrainCopies ==
  /\ srv.at \in {"copy1", "copy2"}
  /\ LET s == Order[IF srv.at = "copy1" THEN 1 ELSE 2]
     IN  /\ drained' = [drained EXCEPT ![s] = From(s) + Count(s)]
         /\ srv' = [srv EXCEPT !.at = IF srv.at = "copy1" THEN "next" ELSE "now", !.got[s] = Batch(s)]
  /\ UNCHANGED <<time, wire, acc, over, anchor, out, base, sure, floor>>

(***************************************************************************)
(* The client                                                              *)
(***************************************************************************)
(* Placement of a 16-bit tick: the first time at or after the anchor, or at
   or before `now` when there is none.                                     *)
Placed(t, a, now) == IF a = NoTick THEN now - ((now - t) % Wrap) ELSE a + ((t - a) % Wrap)

(* A rise is due but none was drained: the falls left are younger than it. *)
Defers(m) == m.lead = "rise" /\ m.rises = <<>>

(* One turn of the merge loop on [falls, rises, lead, tick, out].          *)
Turn(m, now) ==
  LET side == IF m.falls # <<>> /\ (m.lead = "fall" \/ m.rises = <<>>) THEN "fall" ELSE "rise"
      t == Placed(Head(IF side = "fall" THEN m.falls ELSE m.rises), m.tick, now)
  IN  [falls |-> IF side = "fall" THEN Tail(m.falls) ELSE m.falls,
       rises |-> IF side = "rise" THEN Tail(m.rises) ELSE m.rises,
       lead |-> IF side = "fall" THEN "rise" ELSE "fall",
       tick |-> t,
       out |-> Append(m.out, [t |-> t, s |-> side])]

(* The merge: at most one turn per drained edge.                           *)
Merged(m, now) ==
  FoldLeft(LAMBDA x, i : IF (x.falls = <<>> /\ x.rises = <<>>) \/ Defers(x) THEN x ELSE Turn(x, now),
           m, [i \in 1..(Len(m.falls) + Len(m.rises)) |-> i])

(* Only an empty drain lifts the anchor: nothing emitted, nothing carried. *)
Lifts(m) == m.out = <<>> /\ m.falls = <<>>

Floor(now) == now - Guard

(* Falls whose rise was not drained wait for it.                           *)
Carried(m) == m.falls

(* unwrap_drain on the record the server latches `now` into.               *)
DrainDone ==
  /\ srv.at = "now"
  /\ LET m == Merged([falls |-> anchor.carry \o srv.got["fall"], rises |-> srv.got["rise"],
                      lead |-> anchor.lead, tick |-> anchor.tick, out |-> <<>>], time)
         lifted == Lifts(m) /\ (m.tick = NoTick \/ Floor(time) >= m.tick)
     IN  /\ anchor' = [tick |-> IF lifted THEN Floor(time) ELSE m.tick,
                       lead |-> m.lead, carry |-> Carried(m)]
         /\ out' = out \o m.out
         /\ floor' = IF lifted /\ Floor(time) > floor THEN Floor(time) ELSE floor
         /\ sure' = (sure /\ (anchor.tick = NoTick /\ m.out # <<>>
                                => time - wire[base + 1] < Wrap))
  /\ srv' = NoDrain
  /\ UNCHANGED <<time, wire, acc, drained, over, base>>

(* reset_capture on an idle bus: the rings are drained unread and the
   client's anchor starts over.                                            *)
reset_capture ==
  /\ srv = NoDrain /\ Len(wire) % 2 = 0 /\ Len(wire) > base
  /\ acc' = [s \in Sides |-> Accumulated(s)]
  /\ drained' = acc' /\ over' = FALSE
  /\ anchor' = FreshAnchor /\ out' = <<>> /\ base' = Len(wire)
  /\ sure' = TRUE /\ floor' = NoTick
  /\ UNCHANGED <<time, wire, srv>>

Next == reset_capture \/ Pass \/ Edge \/ poll_accumulate \/ DrainStarts \/ DrainCopies \/ DrainDone

Spec == Init /\ [][Next]_vars

(***************************************************************************)
(* Properties                                                              *)
(***************************************************************************)
(* Type correctness; the totals never run ahead of the rings.              *)
TypeOK ==
  /\ time \in Guard..MaxTime /\ over \in BOOLEAN /\ sure \in BOOLEAN
  /\ \A s \in Sides : drained[s] <= acc[s] /\ acc[s] <= Written(s)
  /\ anchor.lead \in Sides /\ anchor.tick \in {NoTick} \cup 0..MaxTime + Wrap * MaxEdges
  /\ srv.at \in {"none", "copy1", "next", "copy2", "now"}

(* Without a lapped ring, and while no wrap passed unseen, the client's
   timeline is the wire's: every edge once, in order, at its true time,
   however late the drains come and wherever an edge pair tears across the
   two ring reads (wire.rs:9-20, unwrap_drain; edges.rs:4-6).              *)
Exact ==
  sure /\ ~over =>
    /\ Len(out) <= Len(wire) - base
    /\ \A i \in 1..Len(out) : out[i] = [t |-> wire[base + i], s |-> Level(i)]

(* A lapped ring is never passed off as fresh data: what the client holds
   or has returned never exceeds what it was owed, and if an edge was lost
   the overflow flag is up (edges.rs:4-6).                                 *)
LossIsFlagged ==
  ~over => \A s \in Sides :
    drained[s] = Len(SelectSeq([i \in 1..base |-> Level(i)], LAMBDA l : l = s))
               + Len(SelectSeq(out, LAMBDA e : e.s = s))
               + (IF s = "fall" THEN Len(anchor.carry) ELSE 0)
               + (IF srv = NoDrain THEN 0 ELSE Len(srv.got[s]))

(* After a lap a drain still returns a run of consecutive captured edges,
   in order, and the next drain goes on behind it: the realign leaves none
   of the overwritten slots in the window (edges.rs:94-98).                *)
WindowInOrder ==
  srv # NoDrain => \A s \in Sides : \A k \in 1..Len(srv.got[s]) :
    srv.got[s][k] = Ring(s)[drained[s] - Len(srv.got[s]) + k].t % Wrap

=============================================================================
