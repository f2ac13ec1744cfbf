----------------------------- MODULE HostFramer -----------------------------
(***************************************************************************)
(* The receive side of the adapter (lib/host engine/framer.rs): a cursor   *)
(* that walks the DMA ring.  The host has no break wake, so a candidate    *)
(* starts at any 0x00 of the ring, its header makes its end computable and *)
(* the CRC alone accepts it.  A dead candidate is left by the hunt, which  *)
(* stops at the next 0x00; a candidate still arriving holds the cursor,    *)
(* and what becomes of it is the engine's deadline (HostEngine).           *)
(*                                                                         *)
(* Bytes, CRC and streams are those of Framer: a frame is [0, ID, LEN,     *)
(* INST, payload, CRC] and a span passes exactly if it is one of           *)
(* GoodFrames.                                                             *)
(***************************************************************************)
EXTENDS Naturals, Sequences

CONSTANTS
    RingLen,        \* bytes in the ring
    GoodFrames,     \* the frames sent on the bus
    Garble          \* what may ring ahead of them

VARIABLES
    stream,         \* the bytes of this session, in order
    starts,         \* where in the stream its good frames begin
    dma, cursor,    \* the ring and the DMA cursor
    anchor,         \* Framer.anchor
    arrived,        \* history: bytes received
    pos,            \* history: the stream position of the anchor
    frames,         \* history: the frames yielded, at their positions
    lost            \* history: frames a resync discarded

walkVars == <<stream, starts, dma, cursor, anchor, arrived, pos, frames, lost>>

wire == <<stream, starts, dma, cursor, arrived>>

(* "the ring length must be a power of two".                               *)
WalkAssumption ==
    RingLen \in Nat /\ RingLen > 4 /\ \E k \in 0 .. 16 : RingLen = 2^k

(* What a session rings in, and where its frames begin.                    *)
Session(g, f1, f2) == g \o f1 \o f2
Begins(g, f1) == {Len(g), Len(g) + Len(f1)}

mask(i) == i % RingLen
avail == mask((cursor + RingLen) - anchor)
At(i) == dma[mask(anchor + i)]

(* wire.rs: Id::is_valid, and an INST that is a status or has an opcode.   *)
ValidId(b) == b \in 1 .. 249 \/ b = 254
KnownInst(b) == b >= 128 \/ b \div 16 # 0

(* The frames of the bus are well formed and fit the ring, and the CRC is  *)
(* perfect: nothing but a frame that was sent reads as one.                *)
Occurs(f, str, p) ==
    p + Len(f) <= Len(str) /\ \A i \in 1 .. Len(f) : str[p + i] = f[i]
SessionAssumption ==
    /\ \A f \in GoodFrames :
          /\ f \in Seq(0 .. 255) /\ f[1] = 0 /\ f[3] >= 3 /\ ValidId(f[2]) /\ KnownInst(f[4])
          /\ Len(f) = f[3] + 3 /\ Len(f) >= 4 /\ Len(f) <= RingLen
    /\ \A g \in Garble, f1, f2 \in GoodFrames :
          /\ g \in Seq(0 .. 255)
          /\ \A p \in 0 .. Len(Session(g, f1, f2)) - 1, f \in GoodFrames :
                Occurs(f, Session(g, f1, f2), p) => p \in Begins(g, f1)

footprint == At(2) + 3
covered_len == At(2) + 1

valid_shape ==
    At(2) >= 3 /\ ValidId(At(1)) /\ KnownInst(At(3)) /\ footprint <= RingLen

(* n bytes from ring index start, as the two slices that payload_view and  *)
(* ring_crc take: up to the end of the ring, then from its beginning.      *)
Span(start, n) ==
    LET head == IF n <= RingLen - start THEN n ELSE RingLen - start
    IN  [i \in 1 .. head |-> dma[start + i - 1]]
          \o [i \in 1 .. n - head |-> dma[i - 1]]

(* The covered span and the two CRC bytes behind it.                       *)
CrcPasses ==
    Span(anchor, covered_len) \o <<At(covered_len), At(covered_len + 1)>> \in GoodFrames

WalkInit ==
    /\ \E g \in Garble, f1, f2 \in GoodFrames :
          /\ stream = Session(g, f1, f2)
          /\ starts = Begins(g, f1)
    /\ cursor \in {0, RingLen - 3}
    /\ dma = [i \in 0 .. RingLen - 1 |-> 1]
    /\ anchor = cursor
    /\ arrived = 0 /\ pos = 0 /\ frames = {} /\ lost = {}

(* The DMA rings one more byte; the poll cadence keeps within a lap.       *)
Land ==
    /\ arrived < Len(stream)
    /\ arrived - pos < RingLen - 1
    /\ dma' = [dma EXCEPT ![cursor] = stream[arrived + 1]]
    /\ cursor' = mask(cursor + 1)
    /\ arrived' = arrived + 1
    /\ UNCHANGED <<stream, starts, anchor, pos, frames, lost>>

-----------------------------------------------------------------------------
(* Framer::step; Idle and Partial change nothing.                          *)

Anchored == avail > 0 /\ At(0) = 0
HeaderIn == Anchored /\ avail >= 4
Whole == HeaderIn /\ valid_shape /\ avail >= footprint

Dead == \/ avail > 0 /\ At(0) # 0
        \/ HeaderIn /\ ~valid_shape
        \/ Whole /\ ~CrcPasses

Advance(n) == anchor' = mask(anchor + n) /\ pos' = pos + n

(* Variant of Hunt that drops all there is instead of stopping at a 0x00.   *)
HuntAll ==
    /\ Dead
    /\ Advance(avail)
    /\ UNCHANGED <<wire, frames, lost>>

(* hunt: past the dead candidate, up to the next 0x00 or all there is.     *)
Stops == {n \in 1 .. avail : n = avail \/ At(n) = 0}
Stride == CHOOSE n \in Stops : \A m \in Stops : n <= m

Hunt ==
    /\ Dead
    /\ Advance(Stride)
    /\ UNCHANGED <<wire, frames, lost>>

(* A CRC-clean frame is consumed and yielded with a view of its payload.   *)
Yield ==
    /\ Whole
    /\ CrcPasses
    /\ frames' = frames \cup
          {[at |-> pos, id |-> At(1), inst |-> At(3),
            payload |-> Span(mask(anchor + 4), At(2) - 3)]}
    /\ Advance(footprint)
    /\ UNCHANGED <<wire, lost>>

(* resync: an exchange opens and drops whatever is unconsumed.             *)
Resync ==
    /\ avail > 0
    /\ anchor' = cursor
    /\ pos' = arrived
    /\ lost' = lost \cup {s \in starts : pos <= s /\ s < arrived}
    /\ UNCHANGED <<wire, frames>>

WalkNext == Land \/ Hunt \/ Yield \/ Resync

WalkSpec == WalkInit /\ [][WalkNext]_walkVars

-----------------------------------------------------------------------------
(* The ring indices and the history have their types. *)
WalkTypeOK ==
    /\ dma \in [0 .. RingLen - 1 -> 0 .. 255]
    /\ cursor \in 0 .. RingLen - 1 /\ anchor \in 0 .. RingLen - 1
    /\ pos \in 0 .. arrived /\ arrived \in 0 .. Len(stream)
    /\ lost \subseteq starts

(* What the walker takes for unconsumed is what arrived behind its cursor. *)
RingTruth ==
    /\ avail = arrived - pos
    /\ \A i \in 1 .. avail : At(i - 1) = stream[pos + i]

(* "A data 0x00 can masquerade as an anchor; it dies by geometry or CRC":  *)
(* what is yielded is a frame that was sent, byte for byte, although its   *)
(* payload wrapped around the ring.                                        *)
NoPhantoms ==
    \A f \in frames :
        /\ f.at \in starts
        /\ stream[f.at + 2] = f.id /\ stream[f.at + 4] = f.inst
        /\ Len(f.payload) = stream[f.at + 3] - 3
        /\ \A i \in 1 .. Len(f.payload) : f.payload[i] = stream[f.at + 4 + i]

(* "costs bounded ring bytes, never the stream": the cursor passes no good *)
(* frame except by yielding it or on a resync.                             *)
NothingSkipped ==
    \A s \in starts : s < pos => s \in lost \/ \E f \in frames : f.at = s

(* The host's walker is true to the stream: index arithmetic never aliases, *)
(* the hunt leaves dead candidates only and passes no good frame unless an *)
(* exchange resyncs, and what is yielded are the frames that were sent, in *)
(* their own bytes (framer.rs, step, hunt, payload_view, resync).          *)
WalkerSound == WalkTypeOK /\ RingTruth /\ NoPhantoms /\ NothingSkipped
=============================================================================
