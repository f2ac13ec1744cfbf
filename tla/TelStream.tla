------------------------------ MODULE TelStream ------------------------------
(***************************************************************************)
(* The TEL side channel: one frame per fast tick from the servo's streamer *)
(* (core tel.rs, drivers tel.rs), a serial wire with no checksum, the      *)
(* reader thread and deframer of the tools (rig/tel.rs, ident frame.rs),   *)
(* and the selection of clean sweep chunks from what was decoded           *)
(* (cal/mod.rs build_sweep_chunks).                                        *)
(*                                                                         *)
(* A frame is three bytes: sync, seq and the pot.  A byte is a small       *)
(* number v - any field may happen to hold the sync value - together with  *)
(* the tick and the field it was sent for, which only the properties see.  *)
(***************************************************************************)
EXTENDS Integers, Sequences, FiniteSets

CONSTANTS
    SyncByte,      \* SYNC; payload and seq bytes may equal it
    SeqMod,        \* 2^8 in the code
    LockFrames,    \* LOCK_FRAMES
    MaxPlausible,  \* 4095 in the code: a larger pos is a bit error
    MinChunk,      \* MIN_CHUNK_SAMPLES
    MinSpan,       \* MIN_CHUNK_SPAN
    EdgeDwell,     \* EDGE_DWELL_COUNTS
    Speeds,        \* counts the pot moves in one tick of a sweep
    MaxTicks,      \* fast ticks streamed (bound)
    MaxDrops,      \* ticks that find the transport busy (bound)
    MaxFaults      \* bytes the wire corrupts or loses (bound)

VARIABLES
    tick,      \* fast ticks so far
    seq,       \* Tel.seq
    pot,       \* the pot at this tick
    drops,     \* Tel.drops
    faults,    \* wire faults so far
    rx,        \* bytes the reader thread has buffered
    buf,       \* the deframer's buffer from its cursor on
    locked,    \* TelDeframer.locked
    lastSeq,   \* last_seq, -1 for None
    stats,     \* frames, realigns, seq_gaps
    out,       \* decoded frames
    busy       \* the deframer is inside push

telVars == <<tick, seq, pot, drops, faults, rx, buf, locked, lastSeq, stats, out, busy>>

FrameLen == 3

TelInit ==
    /\ tick = 0 /\ seq \in 0 .. SeqMod - 1 /\ pot = 0 /\ drops = 0 /\ faults = 0
    /\ rx = <<>> /\ buf = <<>> /\ locked = FALSE /\ lastSeq = -1
    /\ stats = [frames |-> 0, realigns |-> 0, gaps |-> 0]
    /\ out = <<>> /\ busy = FALSE

-----------------------------------------------------------------------------
(* The servo.                                                                *)

Byte(v, field) == [v |-> v, tick |-> tick, field |-> field, ok |-> TRUE]

\* tel::encode.
Encode == <<Byte(SyncByte, 1), Byte(seq, 2), Byte(pot, 3)>>

\* What a corrupted byte may read as: a sync, a plausible value, a bit error.
Noise == {0, SyncByte, MaxPlausible + 1}

\* The wire (external): every byte as sent, or one byte lost or corrupted.
Carried(bytes) ==
    {[got |-> bytes, faults |-> faults]} \cup
    (IF faults = MaxFaults THEN {} ELSE
       {[got |-> SubSeq(bytes, 1, i - 1) \o SubSeq(bytes, i + 1, FrameLen),
         faults |-> faults + 1] : i \in 1 .. FrameLen} \cup
       UNION {{[got |-> [bytes EXCEPT ![i] = [@ EXCEPT !.v = v, !.ok = FALSE]],
                faults |-> faults + 1] : v \in Noise \ {bytes[i].v}} : i \in 1 .. FrameLen})

(* Variant of OnTick that numbers only the frames it manages to send. *)
OnTickSent(sent, w) ==
    /\ seq' = IF sent THEN (seq + 1) % SeqMod ELSE seq
    /\ drops' = IF sent THEN drops ELSE drops + 1
    /\ rx' = IF sent THEN rx \o w.got ELSE rx
    /\ faults' = IF sent THEN w.faults ELSE faults

\* Tel::on_tick: seq counts attempted frames, sent or not.
OnTick(sent, w) ==
    /\ seq' = (seq + 1) % SeqMod
    /\ drops' = IF sent THEN drops ELSE drops + 1
    /\ rx' = IF sent THEN rx \o w.got ELSE rx
    /\ faults' = IF sent THEN w.faults ELSE faults

FastTick ==
    /\ ~busy /\ tick < MaxTicks
    /\ tick' = tick + 1
    /\ pot' \in {pot + d : d \in Speeds} /\ pot' <= MaxPlausible
    /\ \E sent \in BOOLEAN, w \in Carried(Encode) :
          /\ ~sent => drops < MaxDrops /\ w.faults = faults
          /\ OnTick(sent, w)
    /\ UNCHANGED <<buf, locked, lastSeq, stats, out, busy>>

-----------------------------------------------------------------------------
(* TelSink::drain and TelDeframer::push.                                     *)

Drain ==
    /\ ~busy /\ rx # <<>>
    /\ buf' = buf \o rx /\ rx' = <<>>
    /\ busy' = TRUE
    /\ UNCHANGED <<tick, seq, pot, drops, faults, locked, lastSeq, stats, out>>

Rest(s, n) == SubSeq(s, n + 1, Len(s))

\* LOCK_FRAMES frames at the cursor are in sync and seq-continuous.
Locks ==
    /\ \A k \in 0 .. LockFrames - 1 : buf[(k * FrameLen) + 1].v = SyncByte
    /\ \A k \in 0 .. LockFrames - 2 :
          buf[((k + 1) * FrameLen) + 2].v = (buf[(k * FrameLen) + 2].v + 1) % SeqMod

Acquire ==
    /\ busy /\ ~locked /\ Len(buf) >= LockFrames * FrameLen
    /\ IF Locks THEN locked' = TRUE /\ buf' = buf
       ELSE locked' = FALSE /\ buf' = Rest(buf, 1)
    /\ UNCHANGED <<tick, seq, pot, drops, faults, rx, lastSeq, stats, out, busy>>

Realign ==
    /\ busy /\ locked /\ Len(buf) >= FrameLen /\ buf[1].v # SyncByte
    /\ locked' = FALSE /\ lastSeq' = -1
    /\ stats' = [stats EXCEPT !.realigns = @ + 1]
    /\ UNCHANGED <<tick, seq, pot, drops, faults, rx, buf, out, busy>>

\* decode_at; the sent tick is -1 for a frame no tick sent.
DecodedFrame(b) ==
    [seq |-> b[2].v, pos |-> b[3].v,
     tick |-> IF /\ \A i \in 1 .. FrameLen : b[i].field = i /\ b[i].ok
                 /\ b[1].tick = b[2].tick /\ b[2].tick = b[3].tick
              THEN b[1].tick ELSE -1]

Decode ==
    /\ busy /\ locked /\ Len(buf) >= FrameLen /\ buf[1].v = SyncByte
    /\ LET f == DecodedFrame(buf)
           d == (f.seq - lastSeq) % SeqMod
       IN  /\ out' = Append(out, f)
           /\ lastSeq' = f.seq
           /\ stats' = [stats EXCEPT !.frames = @ + 1,
                          !.gaps = IF lastSeq = -1 \/ d = 1 THEN @
                                   ELSE @ + ((d - 1) % SeqMod)]
    /\ buf' = Rest(buf, FrameLen)
    /\ UNCHANGED <<tick, seq, pot, drops, faults, rx, locked, busy>>

\* push returns with fewer bytes than it could use.
PushDone ==
    /\ busy /\ Len(buf) < (IF locked THEN FrameLen ELSE LockFrames * FrameLen)
    /\ busy' = FALSE
    /\ UNCHANGED <<tick, seq, pot, drops, faults, rx, buf, locked, lastSeq, stats, out>>

TelNext == FastTick \/ Drain \/ Acquire \/ Realign \/ Decode \/ PushDone

TelSpec == TelInit /\ [][TelNext]_telVars

-----------------------------------------------------------------------------
(* build_sweep, build_sweep_chunks: the maximal seq-contiguous runs.         *)

Plausible(s) == SelectSeq(s, LAMBDA f : f.pos <= MaxPlausible)

Follows(s, i) == s[i + 1].seq = (s[i].seq + 1) % SeqMod

\* Index pairs <<lo, hi>> of the maximal runs of s.
Runs(s) ==
    {r \in (1 .. Len(s)) \X (1 .. Len(s)) :
        /\ r[1] <= r[2]
        /\ \A i \in r[1] .. r[2] - 1 : Follows(s, i)
        /\ r[1] = 1 \/ ~Follows(s, r[1] - 1)
        /\ r[2] = Len(s) \/ ~Follows(s, r[2])}

Lowest(run) == CHOOSE p \in {run[i].pos : i \in DOMAIN run} :
                  \A i \in DOMAIN run : p <= run[i].pos
Highest(run) == CHOOSE p \in {run[i].pos : i \in DOMAIN run} :
                  \A i \in DOMAIN run : p >= run[i].pos

\* The first of the indices that pass a test, or otherwise.
FirstAt(hits, otherwise) ==
    IF hits = {} THEN otherwise ELSE CHOOSE i \in hits : \A j \in hits : i <= j

\* trim_edge_dwell: from the first sample out of the head's rail band to the
\* first one that reaches the tail's.
TrimEdgeDwell(run) ==
    LET lo == Lowest(run)
        hi == Highest(run)
        up == run[Len(run)].pos >= run[1].pos
        PastHead(p) == IF up THEN p > lo + EdgeDwell ELSE p < hi - EdgeDwell
        AtTail(p) == IF up THEN p >= hi - EdgeDwell ELSE p <= lo + EdgeDwell
        start == FirstAt({i \in DOMAIN run : PastHead(run[i].pos)}, 1)
        end == FirstAt({i \in DOMAIN run : AtTail(run[i].pos)}, Len(run))
    IN  IF hi - lo <= 2 * EdgeDwell THEN run
        ELSE SubSeq(run, start, IF end > start THEN end ELSE start)

\* emit_chunk: the gates, then the trim, then the length gate again.
Emitted(run) ==
    /\ Len(run) >= MinChunk
    /\ Highest(run) - Lowest(run) >= MinSpan
    /\ Len(TrimEdgeDwell(run)) >= MinChunk

Chunks(tel) ==
    LET s == Plausible(tel)
        runs == {SubSeq(s, r[1], r[2]) : r \in Runs(s)}
    IN  {TrimEdgeDwell(run) : run \in {q \in runs : Emitted(q)}}

-----------------------------------------------------------------------------

(* The streamer's and the deframer's state have their types. *)
TelTypeOK ==
    /\ seq \in 0 .. SeqMod - 1 /\ lastSeq \in -1 .. SeqMod - 1
    /\ stats.frames = Len(out)
    /\ Len(rx) + Len(buf) <= FrameLen * MaxTicks

(* Without wire faults every dropped tick between two decoded frames is      *)
(* counted as a gap: drop-on-busy surfaces as a gap and never compresses     *)
(* the timebase (drivers tel.rs, frame.rs TelStats).                         *)
DropsCounted ==
    faults = 0 /\ out # <<>> =>
        out[Len(out)].tick - out[1].tick + 1 = stats.frames + stats.gaps

(* A single wire fault passes at most two frames no tick sent, and never a   *)
(* run of false locks: the deframer is back on frame boundaries after it     *)
(* (frame.rs acquire, realign).                                              *)
FaultBounded ==
    Cardinality({i \in DOMAIN out : out[i].tick = -1}) <= 2 * faults

(* Samples inside a chunk are one tick apart whatever was dropped: "keeps    *)
(* the sample spacing uniform" (cal/mod.rs build_sweep), with fewer drops    *)
(* than SeqMod and no wire fault.                                            *)
SpacingUniform ==
    faults = 0 => \A c \in Chunks(out) : \A i \in 1 .. Len(c) - 1 :
                      c[i + 1].tick = c[i].tick + 1

=============================================================================
