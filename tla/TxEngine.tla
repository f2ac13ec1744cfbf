------------------------------ MODULE TxEngine ------------------------------
(***************************************************************************)
(* The status-reply TX engine (bus/tx.rs) over the hardware it drives: the *)
(* wire arms of DMA1_CH4 and the transfer-complete interrupt               *)
(* (providers/tx_wire.rs, runtime/isr.rs), the CRC coprocessor fed by      *)
(* DMA1_CH3 and the snapshot copied by DMA1_CH7 (providers/crc.rs), with   *)
(* the motor kernel writing the table underneath.                          *)
(*                                                                         *)
(* A checksum is the sequence of bytes it was computed over.  A payload    *)
(* byte is <<exchange, position, table generation>>.  Two facts of the     *)
(* hardware are assumed: CH7 outranks CH3 at the arbiter, and the copy     *)
(* and the feed outrun the wire (hal/dma), except for MaxSick late feeds.  *)
(***************************************************************************)
EXTENDS Integers, Sequences, FiniteSets

CONSTANTS
  Layouts,      \* span lengths of the replies that may be staged
  PayloadMax,   \* wire::MAX_PAYLOAD
  SmallMax,     \* SMALL_COPY_MAX
  MaxExchanges, \* bound on requests
  MaxTicks,     \* bound on kernel ticks
  MaxSick,      \* bound on expired drain spins
  MaxBacklog    \* bound on frames already ringed when a reply starts

VARIABLES
  tx,      \* [st, spans, exch, over, next]: the engine
  buf,     \* a short payload in the staging buffer
  slot,    \* the two CRC bytes of the buffer, zero until they are patched
  miss,    \* crc_misses
  snap,    \* the snapshot buffer
  ch7,     \* [en, off, left]: the copy in flight
  ch3,     \* [src, at, left]: the feed in flight
  acc,     \* bytes summed by the CRC engine
  ch4,     \* [arm, at]: the wire arm in flight
  line,    \* [claimed, shifting, tc, tcie]
  sent,    \* bytes of this frame on the wire
  rx,      \* "quiet", "fed" or "ok": the request the reply answers
  gen,     \* generation of the table
  budget,  \* [exch, sick, backlog]
  disturbed, \* a drain spin expired or a request took the CRC engine
  shipped  \* the last frame released

txVars == <<tx, buf, slot, miss, snap, ch7, ch3, acc, ch4, line, sent, rx, gen,
            budget, disturbed, shipped>>

RECURSIVE Total(_)
Total(s) == IF s = <<>> THEN 0 ELSE Head(s) + Total(Tail(s))

Idle == [st |-> "idle", spans |-> <<>>, exch |-> 0, over |-> FALSE, next |-> 0]

Payload == Total(tx.spans)

Small == Payload <= SmallMax

\* The header as the buffer holds it, the alignment byte first.
Header == <<<<"zero">>, <<"id", tx.exch>>, <<"len", Payload>>, <<"inst", tx.over>>>>

\* A short payload sits in the buffer behind the header.
BufByte(n) == IF n <= 4 THEN Header[n] ELSE buf[n - 4]

\* The arms: header (with a short payload), the snapshot, the CRC tail.
Arms == IF Small THEN <<"head", "crc">> ELSE <<"head", "snap", "crc">>

ArmLen(arm) ==
  CASE arm = "head" -> IF Small THEN 3 + Payload ELSE 3
    [] arm = "snap" -> Payload
    [] arm = "crc"  -> 1

ArmByte(arm, n) ==
  CASE arm = "head" -> BufByte(n + 1)
    [] arm = "snap" -> snap[n]
    [] arm = "crc"  -> slot

\* The feeds: the even bulk of each covered span.
Feeds ==
  IF Small THEN <<[src |-> "buf", at |-> 1, left |-> ((4 + Payload) \div 2) * 2]>>
  ELSE <<[src |-> "buf", at |-> 1, left |-> 4],
         [src |-> "snap", at |-> 1, left |-> (Payload \div 2) * 2]>>

\* The covered byte an odd span leaves to the software fold at patch.
FoldTail == IF Payload % 2 = 1 THEN <<IF Small THEN buf[Payload] ELSE snap[Payload]>> ELSE <<>>

NoFeed == [src |-> "ring", at |-> 1, left |-> 0]

Drained == ch3.left = 0

FeedByte(n) == CASE ch3.src = "buf" -> BufByte(n)
                 [] ch3.src = "snap" -> snap[n]
                 [] ch3.src = "ring" -> <<"ring">>

----------------------------------------------------------------------------
Init ==
  /\ tx = Idle /\ buf = <<>> /\ slot = <<>> /\ miss = 0
  /\ snap = [n \in 1..PayloadMax |-> <<0, n, 0>>]
  /\ ch7 = [en |-> FALSE, off |-> 0, left |-> 0]
  /\ ch3 = NoFeed /\ acc = <<>>
  /\ ch4 = [arm |-> "head", at |-> 0]
  /\ line = [claimed |-> FALSE, shifting |-> FALSE, tc |-> TRUE, tcie |-> FALSE]
  /\ sent = <<>> /\ rx = "quiet" /\ gen = 0
  /\ budget = [exch |-> 0, sick |-> 0, backlog |-> 0]
  /\ disturbed = FALSE /\ shipped = [at |-> 0]

----------------------------------------------------------------------------
(* The hardware. *)

\* One byte of the snapshot copy.
CopyByte ==
  /\ ch7.en /\ ch7.left > 0
  /\ snap' = [snap EXCEPT ![ch7.off] = <<tx.exch, ch7.off, gen>>]
  /\ ch7' = [ch7 EXCEPT !.off = @ + 1, !.left = @ - 1]
  /\ UNCHANGED <<tx, buf, slot, miss, ch3, acc, ch4, line, sent, rx, gen, budget, disturbed, shipped>>

CopyBusy == ch7.en /\ ch7.left > 0

\* One halfword through the CRC engine, behind the copy.
FeedHalfword ==
  /\ ch3.left > 0 /\ ~CopyBusy
  /\ acc' = acc \o <<FeedByte(ch3.at), FeedByte(ch3.at + 1)>>
  /\ ch3' = [ch3 EXCEPT !.at = @ + 2, !.left = @ - 2]
  /\ UNCHANGED <<tx, buf, slot, miss, snap, ch7, ch4, line, sent, rx, gen, budget, disturbed, shipped>>

\* The next byte of the arm enters the shifter; a healthy copy and feed outrun it.
WireByte ==
  /\ line.shifting /\ ch4.at < ArmLen(ch4.arm)
  /\ ~CopyBusy
  /\ Drained \/ budget.sick < MaxSick
  /\ sent' = Append(sent, ArmByte(ch4.arm, ch4.at + 1))
  /\ ch4' = [ch4 EXCEPT !.at = @ + 1]
  /\ UNCHANGED <<tx, buf, slot, miss, snap, ch7, ch3, acc, line, rx, gen, budget, disturbed, shipped>>

\* The last byte of the arm leaves the shifter.
ArmDrains ==
  /\ line.shifting /\ ch4.at = ArmLen(ch4.arm)
  /\ line' = [line EXCEPT !.shifting = FALSE, !.tc = TRUE]
  /\ UNCHANGED <<tx, buf, slot, miss, snap, ch7, ch3, acc, ch4, sent, rx, gen, budget, disturbed, shipped>>

\* The motor kernel publishes: every cell of the table moves.
KernelTick ==
  /\ gen < MaxTicks
  /\ gen' = gen + 1
  /\ UNCHANGED <<tx, buf, slot, miss, snap, ch7, ch3, acc, ch4, line, sent, rx, budget, disturbed, shipped>>

----------------------------------------------------------------------------
(* crc.rs: the CRC engine and the snapshot. *)

(* Variant of ResetCopy that stops every DMA channel of the engine. *)
ResetCopyStops == [ch7 EXCEPT !.en = FALSE]

\* Crc::reset leaves the DMA channels alone.
ResetCopy == ch7

\* The copies of a reply: all but the last are drained before the next starts.
Copied(spans, x) ==
  LET last == Total(spans) - spans[Len(spans)]
      prior == IF ch7.en THEN ch7.off..(ch7.off + ch7.left - 1) ELSE {}
  IN  /\ snap' = [n \in 1..PayloadMax |->
                    CASE n <= last -> <<x, n, gen>>
                      [] n > last /\ n \in prior -> <<tx.exch, n, gen>>
                      [] OTHER -> snap[n]]
      /\ ch7' = [en |-> TRUE, off |-> last + 1, left |-> spans[Len(spans)]]

----------------------------------------------------------------------------
(* tx.rs, with the request that causes the reply. *)

\* stage_gather: refuse, copy a short payload, or snapshot a long one.
Stage(spans) ==
  LET x == budget.exch + 1
      p == Total(spans)
  IN  IF p > PayloadMax
      THEN /\ tx' = Idle /\ rx' = "quiet"
           /\ UNCHANGED <<snap, ch7, buf, slot>>
      ELSE /\ tx' = [st |-> "staged", spans |-> spans, exch |-> x, over |-> FALSE, next |-> 0]
           /\ slot' = <<>>
           /\ IF p <= SmallMax
              THEN /\ buf' = [n \in 1..p |-> <<x, n, gen>>]
                   /\ UNCHANGED <<snap, ch7>>
              ELSE Copied(spans, x) /\ UNCHANGED buf

\* An instruction dispatched ahead of its verdict: the ring feeds underneath.
FrontLoad(spans) ==
  /\ tx.st = "idle" /\ rx = "quiet" /\ budget.exch < MaxExchanges
  /\ Stage(spans)
  /\ rx' = IF Total(spans) > PayloadMax THEN "quiet" ELSE "fed"
  /\ acc' = <<>> /\ ch3' = [NoFeed EXCEPT !.left = 4]
  /\ budget' = [budget EXCEPT !.exch = @ + 1]
  /\ UNCHANGED <<miss, ch4, line, sent, gen, disturbed, shipped>>

\* The verdict of that instruction: send the reply, or drop it.
Verify(ok) ==
  /\ rx = "fed" /\ Drained
  /\ rx' = IF ok THEN "ok" ELSE "quiet"
  /\ tx' = IF ok THEN tx ELSE Idle
  /\ UNCHANGED <<buf, slot, miss, snap, ch7, ch3, acc, ch4, line, sent, gen, budget, disturbed, shipped>>

\* An instruction checked first: it takes the CRC engine, supersedes a staged
\* reply, and finds a streaming one busy.
VerdictFirst(spans, ok) ==
  /\ rx # "fed" /\ budget.exch < MaxExchanges
  /\ tx.st = "streaming" => budget.backlog > 0
  /\ acc' = IF Drained THEN <<<<"ring">>>> ELSE <<<<"residue">>, <<"ring">>>>
  /\ ch3' = NoFeed
  /\ IF ok /\ tx.st # "streaming"
     THEN Stage(spans) /\ rx' = (IF Total(spans) > PayloadMax THEN "quiet" ELSE "ok")
     ELSE UNCHANGED <<tx, buf, slot, snap, ch7, rx>>
  /\ budget' = [budget EXCEPT !.exch = @ + 1,
                  !.backlog = IF tx.st = "streaming" THEN @ - 1 ELSE @]
  /\ disturbed' = (disturbed \/ tx.st = "streaming")
  /\ UNCHANGED <<miss, ch4, line, sent, gen, shipped>>

\* TxWire::start_frame: claim the wire; the break leaves the shifter empty and
\* its completion latched.
StartFrame == [line EXCEPT !.claimed = TRUE, !.tc = TRUE]

Send(l, arm) ==
  /\ ch4' = [arm |-> arm, at |-> 1]
  /\ line' = [l EXCEPT !.shifting = TRUE, !.tc = FALSE, !.tcie = TRUE]

\* The reply starts: INST settled, engine reset, break, first arm, first feed.
Trigger(over) ==
  /\ tx.st = "staged" /\ rx = "ok"
  /\ tx' = [tx EXCEPT !.st = "streaming", !.over = over, !.next = 2]
  /\ ch7' = ResetCopy
  /\ acc' = IF Drained THEN <<>> ELSE <<<<"residue">>>>
  /\ ch3' = Feeds[1]
  /\ Send(StartFrame, "head")
  /\ sent' = <<Header[2]>>
  /\ rx' = "quiet" /\ disturbed' = FALSE
  /\ \E n \in 0..MaxBacklog : budget' = [budget EXCEPT !.backlog = n]
  /\ UNCHANGED <<buf, slot, miss, snap, gen, shipped>>

\* A drain spin that expires: the feed is re-pointed with bytes still to go.
Late == budget.sick < MaxSick /\ ~Drained

\* Crc::result: the sum, once the feed has drained.
CrcResult == IF Drained THEN {acc} ELSE {}

\* The sum with the odd byte folded in, or the placeholder.
Patch == IF CrcResult = {} THEN slot ELSE (CHOOSE v \in CrcResult : TRUE) \o FoldTail

\* on_usart1: a transfer-complete that is enabled.
TcPending == line.tc /\ line.tcie

\* on_usart1 on a drained arm: the next arm behind its feed, the CRC patched
\* before the tail arm, or the wire released.
ArmComplete ==
  /\ TcPending /\ tx.st = "streaming" /\ tx.next <= Len(Arms)
  /\ Drained \/ Late
  /\ IF tx.next <= Len(Feeds)
     THEN ch3' = Feeds[tx.next] /\ UNCHANGED <<slot, miss>>
     ELSE /\ slot' = Patch
          /\ miss' = IF CrcResult = {} THEN miss + 1 ELSE miss
          /\ UNCHANGED ch3
  /\ disturbed' = (disturbed \/ ~Drained)
  /\ budget' = IF Drained THEN budget ELSE [budget EXCEPT !.sick = @ + 1]
  /\ Send(line, Arms[tx.next])
  /\ sent' = Append(sent, IF Arms[tx.next] = "crc" THEN slot' ELSE ArmByte(Arms[tx.next], 1))
  /\ tx' = [tx EXCEPT !.next = @ + 1]
  /\ UNCHANGED <<buf, snap, ch7, acc, rx, gen, shipped>>

Release ==
  /\ TcPending /\ tx.st = "streaming" /\ tx.next > Len(Arms)
  /\ line' = [line EXCEPT !.claimed = FALSE, !.tcie = FALSE]
  /\ shipped' = [at |-> tx.exch, bytes |-> SubSeq(sent, 1, Len(sent) - 1),
                 crc |-> sent[Len(sent)], over |-> tx.over, spans |-> tx.spans]
  /\ tx' = Idle
  /\ UNCHANGED <<buf, slot, miss, snap, ch7, ch3, acc, ch4, sent, rx, gen, budget, disturbed>>

\* A break followed by other bytes, or a rescue: a reply not yet streaming dies.
Abort ==
  /\ tx.st = "staged"
  /\ tx' = Idle /\ rx' = "quiet"
  /\ UNCHANGED <<buf, slot, miss, snap, ch7, ch3, acc, ch4, line, sent, gen, budget, disturbed, shipped>>

Next ==
  \/ CopyByte \/ FeedHalfword \/ WireByte \/ ArmDrains \/ KernelTick
  \/ \E spans \in Layouts : FrontLoad(spans)
  \/ \E spans \in Layouts, ok \in BOOLEAN : VerdictFirst(spans, ok)
  \/ \E ok \in BOOLEAN : Verify(ok)
  \/ \E over \in BOOLEAN : Trigger(over)
  \/ ArmComplete \/ Release \/ Abort

Fairness ==
  /\ WF_txVars(CopyByte) /\ WF_txVars(FeedHalfword) /\ WF_txVars(WireByte)
  /\ WF_txVars(ArmDrains) /\ WF_txVars(ArmComplete) /\ WF_txVars(Release)

Spec == Init /\ [][Next]_txVars /\ Fairness

----------------------------------------------------------------------------
(* The engine and the channels have their types. *)
TypeOK ==
  /\ tx.st \in {"idle", "staged", "streaming"} /\ tx.next \in 0..4
  /\ DOMAIN snap = 1..PayloadMax
  /\ ch7.left \in 0..PayloadMax /\ ch3.left \in 0..(PayloadMax + 4)
  /\ line \in [claimed : BOOLEAN, shifting : BOOLEAN, tc : BOOLEAN, tcie : BOOLEAN]
  /\ rx \in {"quiet", "fed", "ok"}

Valid(f) == f.crc = <<<<"zero">>>> \o f.bytes

(* A frame that passes its checksum is the reply to its own exchange: the
   header of that exchange and every payload byte copied for it, none left in
   the snapshot by an earlier one (stage_gather, Crc::reset, Crc::snapshot). *)
ReplySound ==
  shipped.at > 0 /\ Valid(shipped) =>
    /\ Len(shipped.bytes) = 3 + Total(shipped.spans)
    /\ shipped.bytes[1] = <<"id", shipped.at>>
    /\ shipped.bytes[3] = <<"inst", shipped.over>>
    /\ \A n \in 1..Total(shipped.spans) :
         shipped.bytes[3 + n][1] = shipped.at /\ shipped.bytes[3 + n][2] = n

(* A frame released with a wrong checksum has a cause: the CRC engine missed
   its window, or a request that was already in the ring took the engine while
   the reply streamed.  An undisturbed reply is always valid, whatever the
   parity of its span and however its arms and feeds interleave
   (on_arm_complete, patch_crc). *)
CrcStep == shipped' # shipped /\ ~disturbed => Valid(shipped')

=============================================================================
