------------------------------- MODULE Framer -------------------------------
(***************************************************************************)
(* The receive side of a servo: a circular DMA ring that is never reloaded *)
(* and the resolver that finds frames in it by position alone.  The ladder *)
(* (anchor) stands where the next frame's break byte must be; a byte that  *)
(* cannot start a frame is scanned off, a frame that fails its CRC or      *)
(* starves costs one byte, and the hunt resumes behind it.                 *)
(*                                                                         *)
(* A frame is [0, ID, LEN, INST, ...], LEN counting from INST on, so its   *)
(* footprint in the ring is LEN + 3.  The CRC is taken to be perfect: a    *)
(* span passes exactly if it is one of GoodFrames.  Of time, only the      *)
(* starve horizon is kept: it can expire where the wire falls silent.      *)
(***************************************************************************)
EXTENDS Naturals, Sequences

CONSTANTS
    RingLen,        \* bytes in the ring
    GoodFrames,     \* the frames the bus sends, break byte and CRC included
    Garble          \* what may ring ahead of them: noise, partial frames

HeaderSize == 4
CoveredTail == 2
MinLen == 3

(* "RX ring length must be a power of two": the index wrap is a mask.      *)
RingAssumption == /\ RingLen \in Nat /\ RingLen > HeaderSize
                  /\ \E k \in 0 .. 16 : RingLen = 2^k

(* The instructions the bus carries; a status is not one of them.          *)
FramesAssumption ==
    \A f \in GoodFrames :
        /\ f \in Seq(0 .. 255) /\ Len(f) >= HeaderSize /\ Len(f) < RingLen
        /\ f[1] = 0 /\ f[3] >= MinLen /\ Len(f) = f[3] + 3 /\ f[4] < 128

(* What a session rings in, and where its frames begin.                    *)
Session(g, f1, f2) == g \o f1 \o f2
Begins(g, f1) == {Len(g), Len(g) + Len(f1)}

(* A perfect CRC, and garble that is no corrupted status: nothing but a    *)
(* frame that was sent reads as one, and the length of what reads as a     *)
(* status does not reach past the beginning of a frame.                    *)
Occurs(f, str, p) ==
    p + Len(f) <= Len(str) /\ \A i \in 1 .. Len(f) : str[p + i] = f[i]
ReadsStatus(str, p) ==
    p + HeaderSize <= Len(str) /\ str[p + 1] = 0 /\ str[p + 3] >= MinLen /\ str[p + 4] >= 128
CleanStream(str, at) ==
    \A p \in 0 .. Len(str) - 1 :
        /\ \A f \in GoodFrames : Occurs(f, str, p) => p \in at
        /\ ReadsStatus(str, p) =>
             \A s \in at : p < s => p + str[p + 3] + 3 <= s
StreamAssumption ==
    \A g \in Garble, f1, f2 \in GoodFrames :
        g \in Seq(0 .. 255) /\ CleanStream(Session(g, f1, f2), Begins(g, f1))

VARIABLES
    stream,         \* the bytes of this session, in order
    starts,         \* where in the stream its good frames begin
    gaps,           \* where the wire falls silent past the starve horizon
    ring, cursor,   \* the ring and the DMA cursor
    anchor,         \* Framer.anchor
    hunting,        \* Framer.hunting
    covered,        \* Framer.frontier.covered
    arrived,        \* history: bytes received
    pos,            \* history: the stream position of the anchor
    verified        \* history: stream positions of verified frames

framerVars == <<stream, starts, gaps, ring, cursor, anchor, hunting, covered,
          arrived, pos, verified>>

line == <<stream, starts, gaps, ring, cursor, arrived>>

(* i & (len - 1), the length being a power of two.                         *)
ring_wrap(i) == i % RingLen

dist(c, a) == ring_wrap((c + RingLen) - a)

received == dist(cursor, anchor)

(* Byte i of the candidate at the ladder.                                  *)
At(i) == ring[ring_wrap(anchor + i)]

footprint == At(2) + 3

is_status == At(3) >= 128

CrcPasses ==
    \E f \in GoodFrames : /\ Len(f) = footprint
                          /\ \A i \in 1 .. Len(f) : At(i - 1) = f[i]

(* Garble, then two good frames back to back or with a silence between.    *)
FramerInit ==
    /\ \E g \in Garble, f1, f2 \in GoodFrames, s1, s2 \in BOOLEAN :
          /\ stream = Session(g, f1, f2)
          /\ starts = Begins(g, f1)
          /\ gaps = (IF s1 THEN {Len(g)} ELSE {})
                    \cup (IF s2 THEN {Len(g) + Len(f1)} ELSE {})
                    \cup {Len(stream)}
    /\ cursor \in {0, RingLen - 3}
    /\ ring = [i \in 0 .. RingLen - 1 |-> 1]
    /\ anchor = cursor
    /\ hunting = FALSE
    /\ covered = FALSE
    /\ arrived = 0
    /\ pos = 0
    /\ verified = {}

(* The DMA rings one more byte; the resolver is never a whole lap behind.  *)
Arrive ==
    /\ arrived < Len(stream)
    /\ arrived - pos < RingLen - 1
    /\ ring' = [ring EXCEPT ![cursor] = stream[arrived + 1]]
    /\ cursor' = ring_wrap(cursor + 1)
    /\ arrived' = arrived + 1
    /\ UNCHANGED <<stream, starts, gaps, anchor, hunting, covered, pos, verified>>

-----------------------------------------------------------------------------
(* Framer::resolve, one step each.                                         *)

Plausible == At(0) = 0 /\ (received < HeaderSize \/ At(2) >= MinLen)

Advance(n) ==
    /\ anchor' = ring_wrap(anchor + n)
    /\ pos' = pos + n
    /\ covered' = FALSE

(* The byte at the ladder cannot start a frame.                            *)
Hunt ==
    /\ received > 0
    /\ ~Plausible
    /\ Advance(1)
    /\ hunting' = TRUE
    /\ UNCHANGED <<line, verified>>

HeaderIn == received >= HeaderSize /\ Plausible
Whole    == HeaderIn /\ received >= footprint

(* The covered checkpoint of the frame still arriving.                     *)
Covered ==
    /\ HeaderIn
    /\ ~Whole
    /\ ~covered
    /\ footprint - received <= CoveredTail
    /\ covered' = TRUE
    /\ UNCHANGED <<line, anchor, hunting, pos, verified>>

(* A whole frame: a status is only counted, never validated.               *)
StatusFrame ==
    /\ Whole
    /\ is_status
    /\ Advance(footprint)
    /\ UNCHANGED <<line, hunting, verified>>

VerifiedFrame ==
    /\ Whole
    /\ ~is_status
    /\ CrcPasses
    /\ Advance(footprint)
    /\ hunting' = FALSE
    /\ verified' = verified \cup {pos}
    /\ UNCHANGED line

(* Variant of RejectedFrame that trusts the stride of a bad header.        *)
RejectedStride ==
    /\ Whole
    /\ ~is_status
    /\ ~CrcPasses
    /\ Advance(footprint)
    /\ hunting' = TRUE
    /\ UNCHANGED <<line, verified>>

(* A whole frame whose CRC fails: on_frame_rejected.                       *)
RejectedFrame ==
    /\ Whole
    /\ ~is_status
    /\ ~CrcPasses
    /\ Advance(1)
    /\ hunting' = TRUE
    /\ UNCHANGED <<line, verified>>

(* Variant of GiveUp without the starve horizon for a readable header.     *)
GiveUpHeaderOnly ==
    /\ received > 0
    /\ Plausible
    /\ received < HeaderSize
    /\ arrived \in gaps
    /\ Advance(1)
    /\ hunting' = TRUE
    /\ UNCHANGED <<line, verified>>

(* The frame still arriving starved: one byte is sacrificed.               *)
GiveUp ==
    /\ received > 0
    /\ Plausible
    /\ ~Whole
    /\ arrived \in gaps
    /\ Advance(1)
    /\ hunting' = TRUE
    /\ UNCHANGED <<line, verified>>

Resolve == Hunt \/ Covered \/ StatusFrame \/ VerifiedFrame \/ RejectedFrame

FramerNext == Arrive \/ Resolve \/ GiveUp

(* Bytes that were sent arrive, a wake follows, and deadlines fire.        *)
FramerSpec ==
    /\ FramerInit /\ [][FramerNext]_framerVars
    /\ WF_framerVars(Arrive) /\ WF_framerVars(Resolve) /\ WF_framerVars(GiveUp)

-----------------------------------------------------------------------------
(* The ring indices and the history have their types. *)
FramerTypeOK ==
    /\ ring \in [0 .. RingLen - 1 -> 0 .. 255]
    /\ cursor \in 0 .. RingLen - 1
    /\ anchor \in 0 .. RingLen - 1
    /\ hunting \in BOOLEAN
    /\ covered \in BOOLEAN
    /\ pos \in 0 .. arrived
    /\ arrived \in 0 .. Len(stream)
    /\ verified \subseteq 0 .. Len(stream)

(* Wrapping index arithmetic never aliases: what the resolver counts as    *)
(* received is what has arrived behind the ladder, byte for byte.          *)
RingTruth ==
    /\ received = arrived - pos
    /\ \A i \in 1 .. received : At(i - 1) = stream[pos + i]

(* The hunt sacrifices junk only (framer.rs, resolve: "a wrong candidate   *)
(* costs nothing but the scan"): the ladder never passes the start of a    *)
(* good frame without having verified it.                                  *)
NothingSkipped == \A s \in starts : s < pos => s \in verified

(* No phantom frames: only frames that were sent are ever verified.        *)
NoPhantoms == verified \subseteq starts

(* All of it: the resolver is true to the stream (framer.rs, resolve, dist, *)
(* on_frame_rejected).                                                     *)
FramerSound == FramerTypeOK /\ RingTruth /\ NoPhantoms /\ NothingSkipped
=============================================================================
