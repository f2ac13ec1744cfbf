--------------------------- MODULE Replies_proofs ---------------------------
(***************************************************************************)
(* Proofs about ReplyChain, for every number of servos, every assignment   *)
(* of live, dead and wedged ones and every choice of the time constants    *)
(* that satisfies the assumptions; and about Framer, for every ring, every *)
(* set of frames and every garble that satisfies its assumptions.          *)
(*                                                                         *)
(* OneTalker is far from inductive: that nobody else starts follows from   *)
(* where every deadline lies.  The invariant puts the whole list into a    *)
(* round: the slot c whose turn it is, the tick lo from which its servo    *)
(* may trigger and the skew d by which it may be late.  Every servo behind *)
(* it either waits for c with a window that ends a reclaim later, or has   *)
(* still to learn that the turn of c has come: its window is running out,  *)
(* or the end of the last frame or the break of a wedged servo is in its   *)
(* queue.  Each reclaimed slot adds one latency to the skew.               *)
(***************************************************************************)
EXTENDS ReplyChain, Framer, SequenceTheorems, TLAPS

Event(what, t) == [ev |-> what, at |-> t]

Counting(k) == chain[k].st # "idle"

(* The slot servo k believes the turn to be of.                            *)
Awaits(k) == k - chain[k].remaining

(* How late the servo of slot c may be, at most.                           *)
Skew(c) == (c + 1) * Latency

-----------------------------------------------------------------------------
(* What a servo knows of the turn of slot c.                               *)

Synced(k, c, lo, d) ==
    /\ Awaits(k) = c
    /\ heard[k] = <<>>
    /\ IF k = c THEN lo <= chain[k].at /\ chain[k].at + Latency <= lo + d
       ELSE lo + Reclaim <= chain[k].at /\ chain[k].at <= lo + Reclaim + d

(* Slot c - 1 was silent: the window is running out.                       *)
Expiring(k, c, lo, d) ==
    /\ c > 0 /\ Awaits(k) = c - 1 /\ health[c - 1] # "live"
    /\ heard[k] = <<>>
    /\ lo <= chain[k].at /\ chain[k].at + Latency <= lo + d

(* Slot c - 1 is wedged: its break has still to be served.                 *)
Wedging(k, c, lo, d) ==
    /\ c > 0 /\ Awaits(k) = c - 1 /\ health[c - 1] # "live"
    /\ Latency + Latency <= d
    /\ \E e \in Nat :
          /\ heard[k] = <<Event("break", e)>>
          /\ e <= now /\ lo = e + Allowance /\ e + Latency < chain[k].at

(* Slot c - 1 has answered: the end of its frame has still to be served.   *)
Ending(k, c, lo, d) ==
    /\ c > 0 /\ Awaits(k) = c - 1 /\ health[c - 1] = "live"
    /\ Latency + Latency <= d
    /\ \E t \in Nat :
          /\ t <= now /\ lo = t + ReplyGap
          /\ \/ heard[k] = <<Event("end", t)>> /\ t + Latency < chain[k].at
             \/ \E e \in Nat :
                   /\ heard[k] = <<Event("break", e), Event("end", t)>>
                   /\ e <= now /\ e <= t /\ t + Latency < e + Allowance
                   /\ e + Latency < chain[k].at

Listening(k, c, lo, d) ==
    \/ Synced(k, c, lo, d)
    \/ Expiring(k, c, lo, d)
    \/ Wedging(k, c, lo, d)
    \/ Ending(k, c, lo, d)

(* The window of k is suspended for the frame of slot c.                   *)
Suspended(k, c, e) ==
    /\ Awaits(k) = c
    /\ \/ heard[k] = <<Event("break", e)>> /\ e + Latency < chain[k].at
       \/ heard[k] = <<>> /\ e + FrameLen + Latency < chain[k].at

-----------------------------------------------------------------------------
(* The phases of a round.                                                  *)

Done(j) ==
    /\ chain[j].st = "idle" /\ wire[j].st = "off"
    /\ health[j] # "dead" => sent[j] # "none"

Unsent(k) ==
    /\ wire[k].st = "off" /\ sent[k] = "none"
    /\ chain[k].st = "idle" <=> health[k] = "dead"

Talking(c) ==
    /\ c \in Slots
    /\ chain[c].st = "idle" /\ health[c] # "dead" /\ sent[c] # "none"

Round(c, lo, d) ==
    /\ c \in 0 .. N /\ lo \in Nat /\ d \in Nat
    /\ Latency <= d /\ d <= Skew(c)
    /\ \A j \in Slots : j < c => Done(j)

QuietPhase(c, lo, d) ==
    /\ Round(c, lo, d)
    /\ \A k \in Slots : k >= c =>
          Unsent(k) /\ (Counting(k) => Listening(k, c, lo, d))

BreakPhase(c, lo, d) ==
    /\ Round(c, lo, d)
    /\ Talking(c)
    /\ wire[c].st = "break"
    /\ lo + BreakLen <= wire[c].until /\ wire[c].until <= lo + d + BreakLen
    /\ \A k \in Slots : k > c =>
          Unsent(k) /\ (Counting(k) => Listening(k, c, lo, d))

FramePhase(c, e) ==
    /\ e \in Nat /\ e <= now
    /\ \A j \in Slots : j < c => Done(j)
    /\ Talking(c) /\ health[c] = "live"
    /\ wire[c] = [st |-> "frame", until |-> e + FrameLen]
    /\ \A k \in Slots : k > c =>
          Unsent(k) /\ (Counting(k) => Suspended(k, c, e))

PhaseInv ==
    \/ \E c \in 0 .. N, lo \in Nat, d \in Nat :
          QuietPhase(c, lo, d) \/ BreakPhase(c, lo, d)
    \/ \E c \in Slots, e \in Nat : FramePhase(c, e)

(* Nothing that is due is later than the latency.                          *)
OnTime(k) == Counting(k) =>
    /\ now <= chain[k].at + Latency
    /\ heard[k] # <<>> => now <= Head(heard[k]).at + Latency

TimeInv == \A k \in Slots :
    OnTime(k) /\ (wire[k].st # "off" => now <= wire[k].until)

(* The chain flag tells whether a predecessor counted so far was silent.   *)
Flagged(k) == Counting(k) =>
    /\ chain[k].st = "pending" <=> chain[k].remaining = 0
    /\ chain[k].silent <=>
          \E j \in Slots : j < Awaits(k) /\ health[j] # "live"

CountInv == \A k \in Slots : Flagged(k)

IInv == TypeOK /\ PhaseInv /\ TimeInv /\ CountInv /\ FlagIsTrue

-----------------------------------------------------------------------------
(* The constants.                                                          *)

LEMMA Ticks ==
    /\ N \in Nat /\ N > 0 /\ Slots = 0 .. N - 1
    /\ ReplyGap \in Nat /\ Reclaim \in Nat /\ Allowance \in Nat
    /\ BreakLen \in Nat /\ FrameLen \in Nat /\ Latency \in Nat
    /\ FrameLen + Latency < Allowance
BY SlotsAssumption, TicksAssumption, FrameAssumption DEF Slots

(* Each slot adds one latency to the skew.                                 *)
LEMMA SkewGrows ==
    ASSUME NEW c \in Nat
    PROVE  /\ Skew(c) \in Nat
           /\ Skew(c + 1) = Skew(c) + Latency
           /\ Latency <= Skew(c)
<1> DEFINE p == c * Latency
<1>1. p \in Nat /\ Skew(c) = p + Latency /\ Skew(c + 1) = p + Latency + Latency
  BY Ticks DEF Skew
<1> HIDE DEF p
<1> QED BY <1>1, Ticks

(* While somebody is still listening, the skew is shorter than a break,    *)
(* and a skewed break lead shorter than the reclaim window.                *)
LEMMA SkewBounded ==
    ASSUME NEW c \in Nat, NEW k \in Slots, c < k
    PROVE  /\ Skew(c) < BreakLen
           /\ Skew(c) + Latency + BreakLen < Reclaim
<1>1. c + 1 <= N - 1
  BY Ticks
<1>2. (c + 1) * Latency <= (N - 1) * Latency
  <2>1. \A m, n, l \in Nat : m <= n => m * l <= n * l
    OBVIOUS
  <2> QED BY <1>1, <2>1, Ticks
<1>3. N * Latency = (N - 1) * Latency + Latency
  BY Ticks
<1>4. (c + 1) * Latency \in Nat /\ (N - 1) * Latency \in Nat
  BY Ticks
<1> QED BY <1>2, <1>3, <1>4, Ticks, SkewAssumption, LeadAssumption DEF Skew

-----------------------------------------------------------------------------
(* Types.                                                                  *)

EventSet == [ev : {"break", "end"}, at : Nat]
ChainSet == [st : {"idle", "pending", "waiting"}, remaining : Slots,
             silent : BOOLEAN, at : Nat]
WireSet == [st : {"off", "break", "frame"}, until : Nat]

LEMMA InitType == ASSUME Init PROVE TypeOK
<1>1. 0 \in Slots
  BY Ticks
<1>2. Idle \in ChainSet /\ Quiet \in WireSet
  BY <1>1 DEF Idle, Quiet, ChainSet, WireSet
<1>3. ASSUME NEW k \in Slots
      PROVE  /\ OnReplyStaged(k) \in ChainSet
             /\ OnReplyStaged(k).st = "waiting" => OnReplyStaged(k).remaining > 0
             /\ Idle.st # "waiting"
  BY <1>1, Ticks DEF OnReplyStaged, ChainSet, Idle
<1> QED BY <1>1, <1>2, <1>3 DEF Init, TypeOK, ChainSet, WireSet

LEMMA Fields ==
    ASSUME TypeOK, NEW k \in Slots
    PROVE  /\ k \in Nat /\ now \in Nat
           /\ chain[k] \in ChainSet
           /\ chain[k].st \in {"idle", "pending", "waiting"}
           /\ chain[k].remaining \in Slots /\ chain[k].remaining \in Nat
           /\ chain[k].silent \in BOOLEAN /\ chain[k].at \in Nat
           /\ chain[k].st = "waiting" => chain[k].remaining > 0
           /\ wire[k] \in WireSet /\ wire[k].until \in Nat
           /\ heard[k] \in Seq(EventSet)
           /\ health[k] \in {"live", "dead", "wedged"}
           /\ sent[k] \in {"none", "clean", "flagged"}
<1>1. k \in Nat /\ now \in Nat
  BY Ticks DEF TypeOK
<1>2. chain[k] \in ChainSet /\ (chain[k].st = "waiting" => chain[k].remaining > 0)
  BY DEF TypeOK, ChainSet
<1>3. chain[k].remaining \in Slots /\ chain[k].remaining \in Nat
  BY <1>2, Ticks DEF ChainSet
<1>4. wire[k] \in WireSet
  BY DEF TypeOK, WireSet
<1>5. heard[k] \in Seq(EventSet)
  BY DEF TypeOK, EventSet
<1>6. health[k] \in {"live", "dead", "wedged"} /\ sent[k] \in {"none", "clean", "flagged"}
  BY DEF TypeOK
<1> QED BY <1>1, <1>2, <1>3, <1>4, <1>5, <1>6 DEF ChainSet, WireSet

LEMMA TellType ==
    ASSUME TypeOK, NEW k \in Slots, NEW what \in {"break", "end"}, Tell(k, what)
    PROVE  heard' \in [Slots -> Seq(EventSet)]
<1>1. [ev |-> what, at |-> now] \in EventSet
  BY DEF TypeOK, EventSet
<1>2. ASSUME NEW o \in Slots
      PROVE  /\ heard[o] \in Seq(EventSet)
             /\ Append(heard[o], [ev |-> what, at |-> now]) \in Seq(EventSet)
  <2>1. heard[o] \in Seq(EventSet)
    BY Fields
  <2> QED BY <1>1, <2>1
<1> QED BY <1>2 DEF Tell

LEMMA HeardType ==
    ASSUME TypeOK, NEW k \in Slots, NEW what \in {"break", "end"}, Heard(k, what)
    PROVE  /\ heard' \in [Slots -> Seq(EventSet)]
           /\ Head(heard[k]).at \in Nat
<1>1. heard[k] \in Seq(EventSet) /\ heard[k] # <<>>
  BY Fields DEF Heard
<1>2. Head(heard[k]) \in EventSet /\ Tail(heard[k]) \in Seq(EventSet)
  BY <1>1
<1>3. heard \in [Slots -> Seq(EventSet)] /\ heard' = [heard EXCEPT ![k] = Tail(heard[k])]
  BY DEF TypeOK, Heard, EventSet
<1>4. Head(heard[k]).at \in Nat
  BY <1>2 DEF EventSet
<1> QED BY <1>2, <1>3, <1>4

(* What on_status_end leaves of a waiting chain.                           *)
Ended(k) ==
    IF chain[k].remaining = 1
    THEN [chain[k] EXCEPT !.st = "pending", !.remaining = 0, !.at = now + ReplyGap]
    ELSE [chain[k] EXCEPT !.remaining = chain[k].remaining - 1,
                          !.at = now + ReplyGap + Reclaim]

LEMMA EndedFields ==
    ASSUME TypeOK, NEW k \in Slots, Heard(k, "end"), chain[k].st = "waiting"
    PROVE  /\ Ended(k) \in ChainSet
           /\ Ended(k).st = IF chain[k].remaining = 1 THEN "pending" ELSE "waiting"
           /\ Ended(k).remaining = chain[k].remaining - 1
           /\ Ended(k).silent = chain[k].silent
           /\ Ended(k).at = now + ReplyGap
                + (IF chain[k].remaining = 1 THEN 0 ELSE Reclaim)
<1>1. now \in Nat
  BY Fields
<1>2. /\ chain[k].remaining \in 1 .. N - 1 /\ chain[k].remaining \in Nat
      /\ chain[k] \in ChainSet
  BY Fields, Ticks
<1>3. CASE chain[k].remaining = 1
  <2>1. Ended(k) = [chain[k] EXCEPT !.st = "pending", !.remaining = 0, !.at = now + ReplyGap]
    BY <1>3 DEF Ended
  <2>2. 0 \in Slots /\ now + ReplyGap \in Nat
    BY <1>1, Ticks
  <2>3. /\ Ended(k) \in ChainSet /\ Ended(k).st = "pending" /\ Ended(k).remaining = 0
        /\ Ended(k).silent = chain[k].silent /\ Ended(k).at = now + ReplyGap
    BY <1>2, <2>1, <2>2 DEF ChainSet
  <2>4. now + ReplyGap + 0 = now + ReplyGap
    BY <2>2
  <2> QED BY <1>3, <2>3, <2>4
<1>4. CASE chain[k].remaining # 1
  <2>1. Ended(k) = [chain[k] EXCEPT !.remaining = chain[k].remaining - 1,
                                    !.at = now + ReplyGap + Reclaim]
    BY <1>4 DEF Ended
  <2>2. chain[k].remaining - 1 \in Slots /\ now + ReplyGap + Reclaim \in Nat
    BY <1>1, <1>2, <1>4, Ticks, SMTT(20)
  <2> QED BY <1>1, <1>2, <1>4, <2>1, <2>2, Ticks DEF ChainSet
<1> QED BY <1>3, <1>4

(* The steps of a servo, as what they leave of its chain.                  *)
LEMMA ReclaimOneIs ==
    ASSUME TypeOK, NEW k \in Slots, ReclaimOne(k)
    PROVE  /\ chain' \in [Slots -> ChainSet]
           /\ chain'[k].st = "waiting" /\ chain'[k].silent = TRUE
           /\ chain'[k].remaining = chain[k].remaining - 1
           /\ chain'[k].remaining > 0
           /\ chain'[k].at = now + Reclaim
           /\ \A o \in Slots : o # k => chain'[o] = chain[o]
           /\ UNCHANGED <<now, health, wire, heard, sent>>
<1> DEFINE new == [chain[k] EXCEPT !.remaining = chain[k].remaining - 1,
                                   !.silent = TRUE, !.at = now + Reclaim]
<1>1. /\ chain' = [chain EXCEPT ![k] = new]
      /\ chain[k].st = "waiting" /\ chain[k].remaining > 1
      /\ UNCHANGED <<now, health, wire, heard, sent>>
  BY DEF ReclaimOne
<1>0. chain \in [Slots -> ChainSet]
  BY DEF TypeOK, ChainSet
<1>2. chain[k] \in ChainSet /\ chain[k].remaining \in Slots /\ now \in Nat
  BY Fields
<1>3. chain[k].remaining - 1 \in Slots /\ chain[k].remaining - 1 > 0
      /\ now + Reclaim \in Nat
  BY <1>1, <1>2, Ticks, SMTT(20)
<1>4. /\ new \in ChainSet /\ new.st = "waiting" /\ new.silent = TRUE
      /\ new.remaining = chain[k].remaining - 1 /\ new.at = now + Reclaim
  BY <1>1, <1>2, <1>3 DEF ChainSet
<1> HIDE DEF new
<1> QED BY <1>0, <1>1, <1>3, <1>4

LEMMA BreakObservedIs ==
    ASSUME TypeOK, NEW k \in Slots, OnBreakObserved(k)
    PROVE  /\ chain' \in [Slots -> ChainSet]
           /\ chain[k].st # "waiting" => chain' = chain
           /\ chain[k].st = "waiting" =>
                /\ chain'[k].st = "waiting" /\ chain'[k].silent = chain[k].silent
                /\ chain'[k].remaining = chain[k].remaining
                /\ chain'[k].at = now + Allowance
           /\ \A o \in Slots : o # k => chain'[o] = chain[o] /\ heard'[o] = heard[o]
           /\ heard' \in [Slots -> Seq(EventSet)]
           /\ heard[k] # <<>> /\ heard'[k] = Tail(heard[k])
           /\ Head(heard[k]).ev = "break"
           /\ UNCHANGED <<now, health, wire, sent>>
<1> DEFINE new == [chain[k] EXCEPT !.at = now + Allowance]
<1>1. /\ chain' = IF chain[k].st = "waiting" THEN [chain EXCEPT ![k] = new] ELSE chain
      /\ chain \in [Slots -> ChainSet] /\ heard \in [Slots -> Seq(EventSet)]
      /\ heard' = [heard EXCEPT ![k] = Tail(heard[k])]
      /\ heard[k] # <<>> /\ Head(heard[k]).ev = "break"
      /\ UNCHANGED <<now, health, wire, sent>>
  BY DEF OnBreakObserved, Heard, TypeOK, ChainSet, EventSet
<1>2. chain[k] \in ChainSet /\ now + Allowance \in Nat
  BY Fields, Ticks
<1>3. /\ new \in ChainSet /\ new.st = chain[k].st /\ new.silent = chain[k].silent
      /\ new.remaining = chain[k].remaining /\ new.at = now + Allowance
  BY <1>2 DEF ChainSet
<1>4. heard' \in [Slots -> Seq(EventSet)]
  BY HeardType DEF OnBreakObserved
<1> HIDE DEF new
<1> QED BY <1>1, <1>3, <1>4

LEMMA StatusEndIs ==
    ASSUME TypeOK, NEW k \in Slots, OnStatusEnd(k)
    PROVE  /\ chain' \in [Slots -> ChainSet]
           /\ chain[k].st # "waiting" => chain' = chain
           /\ chain[k].st = "waiting" => chain'[k] = Ended(k)
           /\ \A o \in Slots : o # k => chain'[o] = chain[o] /\ heard'[o] = heard[o]
           /\ heard' \in [Slots -> Seq(EventSet)]
           /\ heard[k] # <<>> /\ heard'[k] = Tail(heard[k])
           /\ Head(heard[k]).ev = "end"
           /\ Heard(k, "end")
           /\ UNCHANGED <<now, health, wire, sent>>
<1>1. /\ chain' = IF chain[k].st # "waiting" THEN chain
                  ELSE [chain EXCEPT ![k] = Ended(k)]
      /\ heard' = [heard EXCEPT ![k] = Tail(heard[k])]
      /\ heard[k] # <<>> /\ Head(heard[k]).ev = "end"
      /\ Heard(k, "end")
      /\ UNCHANGED <<now, health, wire, sent>>
  BY DEF OnStatusEnd, Heard, Ended
<1>0. chain \in [Slots -> ChainSet] /\ heard \in [Slots -> Seq(EventSet)]
  BY DEF TypeOK, ChainSet, EventSet
<1>2. heard' \in [Slots -> Seq(EventSet)]
  BY <1>1, HeardType
<1>3. chain[k].st = "waiting" => Ended(k) \in ChainSet
  BY <1>1, EndedFields
<1> QED BY <1>0, <1>1, <1>2, <1>3

LEMMA TriggerIs ==
    ASSUME TypeOK, NEW k \in Slots, Trigger(k)
    PROVE  /\ chain' = [chain EXCEPT ![k] = Idle] /\ chain' \in [Slots -> ChainSet]
           /\ chain'[k].st = "idle"
           /\ wire' = [wire EXCEPT ![k] = [st |-> "break", until |-> now + BreakLen]]
           /\ wire' \in [Slots -> WireSet]
           /\ sent' = [sent EXCEPT ![k] = IF chain[k].silent \/ chain[k].st = "waiting"
                                          THEN "flagged" ELSE "clean"]
           /\ UNCHANGED <<now, health, heard>>
<1>1. Idle \in ChainSet /\ Idle.st = "idle"
  BY Ticks DEF Idle, ChainSet
<1>2. [st |-> "break", until |-> now + BreakLen] \in WireSet
  BY Fields, Ticks DEF WireSet
<1>3. chain \in [Slots -> ChainSet] /\ wire \in [Slots -> WireSet]
  BY DEF TypeOK, ChainSet, WireSet
<1> QED BY <1>1, <1>2, <1>3 DEF Trigger

LEMMA TypeStep == ASSUME TypeOK, [Next]_vars PROVE TypeOK'
<1> DEFINE Waiting == \A j \in Slots : chain'[j].st = "waiting" => chain'[j].remaining > 0
<1>w. \A j \in Slots : chain[j].st = "waiting" => chain[j].remaining > 0
  BY DEF TypeOK
<1>1. CASE Tick
  BY <1>1 DEF Tick, TypeOK
<1>2. ASSUME NEW k \in Slots, Trigger(k) PROVE TypeOK'
  <2>1. Waiting
    BY <1>w, <1>2, TriggerIs
  <2>2. sent' \in [Slots -> {"none", "clean", "flagged"}]
    BY <1>2, TriggerIs DEF TypeOK
  <2> QED BY <1>2, <2>1, <2>2, TriggerIs DEF TypeOK, ChainSet, WireSet
<1>3. ASSUME NEW k \in Slots, ReclaimOne(k) PROVE TypeOK'
  <2>1. Waiting
    BY <1>w, <1>3, ReclaimOneIs
  <2> QED BY <1>3, <2>1, ReclaimOneIs DEF TypeOK, ChainSet
<1>4. ASSUME NEW k \in Slots, BreakEnds(k) PROVE TypeOK'
  <2>1. Quiet \in WireSet /\ [st |-> "frame", until |-> now + FrameLen] \in WireSet
    BY <1>4, Fields, Ticks DEF WireSet, Quiet
  <2>2. wire' \in [Slots -> WireSet]
    <3>1. wire \in [Slots -> WireSet]
      BY DEF TypeOK, WireSet
    <3> QED BY <1>4, <2>1, <3>1 DEF BreakEnds
  <2>3. heard' \in [Slots -> Seq(EventSet)]
    BY <1>4, TellType DEF BreakEnds
  <2> QED BY <1>4, <2>2, <2>3 DEF BreakEnds, TypeOK, WireSet, EventSet
<1>5. ASSUME NEW k \in Slots, FrameEnds(k) PROVE TypeOK'
  <2>1. wire' \in [Slots -> WireSet]
    BY <1>5 DEF FrameEnds, TypeOK, WireSet, Quiet
  <2>2. heard' \in [Slots -> Seq(EventSet)]
    BY <1>5, TellType DEF FrameEnds
  <2> QED BY <1>5, <2>1, <2>2 DEF FrameEnds, TypeOK, WireSet, EventSet
<1>6. ASSUME NEW k \in Slots, OnBreakObserved(k) PROVE TypeOK'
  <2>1. Waiting
    BY <1>w, <1>6, BreakObservedIs
  <2> QED BY <1>6, <2>1, BreakObservedIs DEF TypeOK, ChainSet, EventSet
<1>7. ASSUME NEW k \in Slots, OnStatusEnd(k) PROVE TypeOK'
  <2>1. Waiting
    <3>1. ASSUME chain[k].st = "waiting", chain'[k].st = "waiting"
          PROVE  chain'[k].remaining > 0
      BY <1>w, <1>7, <3>1, StatusEndIs, EndedFields, Fields
    <3> QED BY <1>w, <1>7, <3>1, StatusEndIs
  <2> QED BY <1>7, <2>1, StatusEndIs DEF TypeOK, ChainSet, EventSet
<1>8. CASE UNCHANGED vars
  BY <1>8 DEF vars, TypeOK
<1> QED BY <1>1, <1>2, <1>3, <1>4, <1>5, <1>6, <1>7, <1>8 DEF Next, Step

-----------------------------------------------------------------------------
(* One servo in a round.                                                   *)

(* What a servo knows stands while its own state does.                     *)
LEMMA ListeningStands ==
    ASSUME NEW o \in Slots, NEW c, NEW lo, NEW d, now \in Nat,
           Listening(o, c, lo, d),
           chain'[o] = chain[o], heard'[o] = heard[o], health' = health,
           now' \in Nat, now <= now'
    PROVE  Listening(o, c, lo, d)'
<1>1. CASE Synced(o, c, lo, d)
  BY <1>1 DEF Synced, Listening, Awaits
<1>2. CASE Expiring(o, c, lo, d)
  BY <1>2 DEF Expiring, Listening, Awaits
<1>3. CASE Wedging(o, c, lo, d)
  BY <1>3 DEF Wedging, Listening, Awaits
<1>4. CASE Ending(o, c, lo, d)
  <2>1. PICK t \in Nat :
            /\ t <= now /\ lo = t + ReplyGap
            /\ \/ heard[o] = <<Event("end", t)>> /\ t + Latency < chain[o].at
               \/ \E e \in Nat :
                     /\ heard[o] = <<Event("break", e), Event("end", t)>>
                     /\ e <= now /\ e <= t /\ t + Latency < e + Allowance
                     /\ e + Latency < chain[o].at
    BY <1>4 DEF Ending
  <2>2. Ending(o, c, lo, d)'
    BY <1>4, <2>1 DEF Ending, Awaits
  <2> QED BY <2>2 DEF Listening
<1> QED BY <1>1, <1>2, <1>3, <1>4 DEF Listening

(* A servo that has still to learn of the turn of c does so in time.       *)
LEMMA Lateness ==
    ASSUME TypeOK, NEW k \in Slots, NEW c \in 0 .. N, NEW lo \in Nat, NEW d \in Nat,
           Latency <= d, OnTime(k), Counting(k), Listening(k, c, lo, d)
    PROVE  /\ ~Synced(k, c, lo, d) \/ k = c => now <= lo + d
           /\ Wedging(k, c, lo, d) \/ Ending(k, c, lo, d) =>
                heard[k] # <<>> /\ now < chain[k].at
<1>0. chain[k].at \in Nat /\ now \in Nat /\ now <= chain[k].at + Latency
      /\ (heard[k] # <<>> => now <= Head(heard[k]).at + Latency)
  BY Fields DEF OnTime
<1>1. CASE Synced(k, c, lo, d)
  BY <1>0, <1>1, Ticks, SMTT(20) DEF Synced, Wedging, Ending
<1>2. CASE Expiring(k, c, lo, d)
  BY <1>0, <1>2, Ticks DEF Expiring, Wedging, Ending
<1>3. CASE Wedging(k, c, lo, d)
  <2>1. PICK e \in Nat : /\ heard[k] = <<Event("break", e)>>
                         /\ lo = e + Allowance /\ e + Latency < chain[k].at
    BY <1>3 DEF Wedging
  <2>2. heard[k] # <<>> /\ Head(heard[k]).at = e
    BY <2>1 DEF Event
  <2> QED BY <1>0, <2>1, <2>2, Ticks, SMTT(20)
<1>4. CASE Ending(k, c, lo, d)
  <2>1. PICK t \in Nat :
            /\ t <= now /\ lo = t + ReplyGap
            /\ \/ heard[k] = <<Event("end", t)>> /\ t + Latency < chain[k].at
               \/ \E e \in Nat :
                     /\ heard[k] = <<Event("break", e), Event("end", t)>>
                     /\ e <= t /\ e + Latency < chain[k].at
    BY <1>4 DEF Ending
  <2>2. \E u \in Nat : /\ heard[k] # <<>> /\ Head(heard[k]).at = u
                       /\ u <= t /\ u + Latency < chain[k].at
    <3>1. CASE heard[k] = <<Event("end", t)>> /\ t + Latency < chain[k].at
      <4>1. heard[k] # <<>> /\ Head(heard[k]).at = t
        BY <3>1 DEF Event
      <4> QED BY <3>1, <4>1
    <3>2. ASSUME NEW e \in Nat, heard[k] = <<Event("break", e), Event("end", t)>>,
                 e <= t, e + Latency < chain[k].at
          PROVE  heard[k] # <<>> /\ Head(heard[k]).at = e
      BY <3>2 DEF Event
    <3> QED BY <2>1, <3>1, <3>2
  <2>3. PICK u \in Nat : /\ heard[k] # <<>> /\ Head(heard[k]).at = u
                         /\ u <= t /\ u + Latency < chain[k].at
    BY <2>2
  <2>4. lo = t + ReplyGap /\ now <= u + Latency
    BY <1>0, <2>1, <2>3
  <2>5. now <= lo + d /\ now < chain[k].at
    <3>1. now <= t + ReplyGap + d
      BY <1>0, <2>3, <2>4, Ticks, SMTT(20)
    <3>2. now < chain[k].at
      BY <1>0, <2>3, <2>4, Ticks, SMTT(20)
    <3> QED BY <2>4, <3>1, <3>2
  <2> QED BY <2>3, <2>5
<1> QED BY <1>1, <1>2, <1>3, <1>4 DEF Listening

(* A waiting servo counts at least one more predecessor.                   *)
LEMMA WaitingOf ==
    ASSUME TypeOK, NEW k \in Slots, Counting(k), Flagged(k),
           NEW c \in 0 .. N, k >= c, Awaits(k) = c - 1
    PROVE  /\ chain[k].st = "waiting"
           /\ chain[k].remaining = k - c + 1
           /\ c \in Nat /\ k \in Nat
           /\ c > 0 => c - 1 \in Slots
<1>1. k \in Nat /\ chain[k].remaining \in Nat /\ c \in Nat /\ N \in Nat
      /\ Slots = 0 .. N - 1
  BY Fields, Ticks
<1>2. k - chain[k].remaining = c - 1
  BY DEF Awaits
<1>3. chain[k].remaining = k - c + 1 /\ chain[k].remaining # 0
  BY <1>1, <1>2
<1>4. chain[k].st = "waiting"
  BY <1>3, Fields DEF Counting, Flagged
<1>5. c > 0 => c - 1 \in Slots
  BY <1>1
<1> QED BY <1>1, <1>3, <1>4, <1>5

LEMMA OneEvent ==
    ASSUME NEW x PROVE <<x>> # <<>> /\ Head(<<x>>) = x /\ Tail(<<x>>) = <<>>
OBVIOUS

LEMMA TwoEvents ==
    ASSUME NEW x, NEW y
    PROVE  <<x, y>> # <<>> /\ Head(<<x, y>>) = x /\ Tail(<<x, y>>) = <<y>>
OBVIOUS

(* on_break_observed: the break of a wedged servo, or of one whose end is  *)
(* already queued.                                                         *)
LEMMA BreakKeepsListening ==
    ASSUME TypeOK, NEW k \in Slots, NEW c \in 0 .. N, NEW lo \in Nat, NEW d \in Nat,
           Latency <= d, OnTime(k), Flagged(k), Counting(k), k >= c,
           Listening(k, c, lo, d), OnBreakObserved(k)
    PROVE  Listening(k, c, lo, d)' /\ OnTime(k)' /\ Flagged(k)'
<1>b. /\ chain[k].st = "waiting" =>
                /\ chain'[k].st = "waiting" /\ chain'[k].silent = chain[k].silent
                /\ chain'[k].remaining = chain[k].remaining
                /\ chain'[k].at = now + Allowance
      /\ heard[k] # <<>> /\ heard'[k] = Tail(heard[k])
      /\ Head(heard[k]).ev = "break"
      /\ now' = now /\ health' = health
  BY BreakObservedIs
<1>0. now \in Nat /\ (heard[k] # <<>> => now <= Head(heard[k]).at + Latency)
  BY Fields DEF OnTime
<1>1. Awaits(k) = c - 1 /\ (Wedging(k, c, lo, d) \/ Ending(k, c, lo, d))
  BY <1>b DEF Listening, Synced, Expiring, Wedging, Ending
<1>2. chain[k].st = "waiting"
  BY <1>1, WaitingOf
<1>3. /\ chain'[k].at = now + Allowance
      /\ Awaits(k)' = Awaits(k)
      /\ Flagged(k)'
  BY <1>b, <1>2 DEF Awaits, Flagged, Counting
<1>4. CASE Wedging(k, c, lo, d)
  <2>1. PICK e \in Nat : /\ heard[k] = <<Event("break", e)>>
                         /\ e <= now /\ lo = e + Allowance
    BY <1>4 DEF Wedging
  <2>2. heard'[k] = <<>> /\ Head(heard[k]).at = e
    BY <1>b, <2>1, OneEvent DEF Event
  <2>3. now <= e + Latency
    BY <1>0, <1>b, <2>2
  <2>4. /\ lo <= now + Allowance /\ now + Allowance + Latency <= lo + d
    <3>1. Latency + Latency <= d
      BY <1>4 DEF Wedging
    <3>2. lo = e + Allowance /\ e <= now
      BY <2>1
    <3> QED BY <1>0, <2>3, <3>1, <3>2, Ticks
  <2>5. Expiring(k, c, lo, d)'
    BY <1>1, <1>3, <1>4, <1>b, <2>2, <2>4 DEF Expiring, Wedging
  <2>6. OnTime(k)'
    <3>1. now <= now + Allowance + Latency
      BY <1>0, Ticks
    <3> QED BY <1>b, <1>3, <2>2, <3>1 DEF OnTime
  <2> QED BY <1>3, <2>5, <2>6 DEF Listening
<1>5. CASE Ending(k, c, lo, d)
  <2>1. PICK t \in Nat :
            /\ t <= now /\ lo = t + ReplyGap
            /\ \/ heard[k] = <<Event("end", t)>> /\ t + Latency < chain[k].at
               \/ \E e \in Nat :
                     /\ heard[k] = <<Event("break", e), Event("end", t)>>
                     /\ e <= now /\ e <= t /\ t + Latency < e + Allowance
    BY <1>5 DEF Ending
  <2>2. heard[k] # <<Event("end", t)>>
    BY <1>b, OneEvent DEF Event
  <2>3. PICK e \in Nat : /\ heard[k] = <<Event("break", e), Event("end", t)>>
                         /\ e <= now /\ e <= t /\ t + Latency < e + Allowance
    BY <2>1, <2>2
  <2>4. /\ heard'[k] = <<Event("end", t)>> /\ Head(heard[k]).at = e
        /\ Head(heard'[k]).at = t
    BY <1>b, <2>3, OneEvent, TwoEvents DEF Event
  <2>5. now <= e + Latency /\ t + Latency < now + Allowance
    BY <1>0, <1>b, <2>3, <2>4, Ticks, SMTT(20)
  <2>6. Ending(k, c, lo, d)'
    BY <1>1, <1>3, <1>5, <1>b, <2>1, <2>4, <2>5 DEF Ending
  <2>7. OnTime(k)'
    BY <1>0, <1>b, <1>3, <2>3, <2>4, <2>5, Ticks, SMTT(20) DEF OnTime
  <2> QED BY <1>3, <2>6, <2>7 DEF Listening
<1> QED BY <1>1, <1>4, <1>5

(* on_status_end: the turn passes to c.                                    *)
LEMMA EndSyncs ==
    ASSUME TypeOK, NEW k \in Slots, NEW c \in 0 .. N, NEW lo \in Nat, NEW d \in Nat,
           Latency <= d, OnTime(k), Flagged(k), Counting(k), k >= c,
           Listening(k, c, lo, d), OnStatusEnd(k)
    PROVE  Synced(k, c, lo, d)' /\ OnTime(k)' /\ Flagged(k)' /\ Counting(k)'
<1>b. /\ chain[k].st = "waiting" => chain'[k] = Ended(k)
      /\ heard[k] # <<>> /\ heard'[k] = Tail(heard[k])
      /\ Head(heard[k]).ev = "end" /\ Heard(k, "end")
      /\ now' = now /\ health' = health
  BY StatusEndIs
<1>0. now \in Nat /\ now <= Head(heard[k]).at + Latency
  BY <1>b, Fields DEF OnTime
<1>1. Awaits(k) = c - 1 /\ (Wedging(k, c, lo, d) \/ Ending(k, c, lo, d))
  BY <1>b DEF Listening, Synced, Expiring, Wedging, Ending
<1>2. ~Wedging(k, c, lo, d)
  <2>1. ASSUME NEW e \in Nat, heard[k] = <<Event("break", e)>> PROVE FALSE
    <3>1. Head(heard[k]) = Event("break", e)
      BY <2>1, OneEvent
    <3> QED BY <1>b, <3>1 DEF Event
  <2> QED BY <2>1 DEF Wedging
<1>3. /\ chain[k].st = "waiting" /\ chain[k].remaining = k - c + 1
      /\ c \in Nat /\ k \in Nat /\ c > 0 /\ c - 1 \in Slots
  BY <1>1, <1>2, WaitingOf DEF Ending
<1>4. PICK t \in Nat :
          /\ t <= now /\ lo = t + ReplyGap
          /\ \/ heard[k] = <<Event("end", t)>> /\ t + Latency < chain[k].at
             \/ \E e \in Nat : heard[k] = <<Event("break", e), Event("end", t)>>
  BY <1>1, <1>2 DEF Ending
<1>5. heard[k] = <<Event("end", t)>>
  <2>1. ASSUME NEW e \in Nat, heard[k] = <<Event("break", e), Event("end", t)>>
        PROVE  FALSE
    <3>1. Head(heard[k]) = Event("break", e)
      BY <2>1, TwoEvents
    <3> QED BY <1>b, <3>1 DEF Event
  <2> QED BY <1>4, <2>1
<1>6. heard'[k] = <<>> /\ Head(heard[k]).at = t
  BY <1>b, <1>5, OneEvent DEF Event
<1>7. /\ chain'[k].st = IF k = c THEN "pending" ELSE "waiting"
      /\ chain'[k].remaining = k - c
      /\ chain'[k].silent = chain[k].silent
      /\ chain'[k].at = now + ReplyGap + (IF k = c THEN 0 ELSE Reclaim)
  <2>1. /\ chain'[k].st = IF chain[k].remaining = 1 THEN "pending" ELSE "waiting"
        /\ chain'[k].remaining = chain[k].remaining - 1
        /\ chain'[k].silent = chain[k].silent
        /\ chain'[k].at = now + ReplyGap + (IF chain[k].remaining = 1 THEN 0 ELSE Reclaim)
    BY <1>b, <1>3, <1>6, EndedFields
  <2>2. chain[k].remaining = 1 <=> k = c
    BY <1>3
  <2>3. chain[k].remaining - 1 = k - c
    BY <1>3
  <2> QED BY <2>1, <2>2, <2>3, <1>4
<1>8. Awaits(k)' = c
  BY <1>3, <1>7 DEF Awaits
<1>9. Synced(k, c, lo, d)'
  <2>1. Latency + Latency <= d
    BY <1>1, <1>2 DEF Ending
  <2>2. /\ lo <= now + ReplyGap /\ now + ReplyGap + Latency <= lo + d
        /\ lo + Reclaim <= now + ReplyGap + Reclaim
        /\ now + ReplyGap + Reclaim <= lo + Reclaim + d
        /\ now + ReplyGap + 0 = now + ReplyGap
    BY <1>0, <1>4, <1>6, <2>1, Ticks
  <2> QED BY <1>6, <1>7, <1>8, <2>2 DEF Synced
<1>10. OnTime(k)'
  BY <1>0, <1>4, <1>6, <1>7, <1>b, Ticks DEF OnTime
<1>11. Flagged(k)'
  <2>1. chain[k].silent <=> \E j \in Slots : j < c - 1 /\ health[j] # "live"
    BY <1>1 DEF Flagged
  <2>2. health[c - 1] = "live"
    BY <1>1, <1>2 DEF Ending
  <2>3. \A j \in Slots : j < c /\ health[j] # "live" => j < c - 1
    BY <1>3, <2>2, Ticks, SMTT(20)
  <2>4. \A j \in Slots : j < c - 1 => j < c
    BY <1>3, Ticks
  <2>5. chain'[k].silent <=> \E j \in Slots : j < Awaits(k)' /\ health'[j] # "live"
    BY <1>7, <1>8, <1>b, <2>1, <2>3, <2>4
  <2>6. chain'[k].st = "pending" <=> chain'[k].remaining = 0
    BY <1>3, <1>7
  <2> QED BY <2>5, <2>6 DEF Flagged
<1>12. Counting(k)'
  BY <1>7 DEF Counting
<1> QED BY <1>9, <1>10, <1>11, <1>12

(* A window that runs out: the turn passes to c.                           *)
LEMMA ReclaimSyncs ==
    ASSUME TypeOK, NEW k \in Slots, NEW c \in 0 .. N, NEW lo \in Nat, NEW d \in Nat,
           OnTime(k), Flagged(k), Counting(k), k >= c,
           Expiring(k, c, lo, d), ReclaimOne(k)
    PROVE  Synced(k, c, lo, d)' /\ OnTime(k)' /\ Flagged(k)' /\ k > c
<1>1. /\ chain[k].remaining = k - c + 1 /\ c \in Nat /\ k \in Nat
      /\ c > 0 /\ c - 1 \in Slots
  BY WaitingOf DEF Expiring
<1>2. /\ chain'[k].st = "waiting" /\ chain'[k].silent = TRUE
      /\ chain'[k].remaining = k - c /\ k - c > 0
      /\ chain'[k].at = now + Reclaim
      /\ now' = now /\ health' = health /\ heard' = heard
  <2>1. /\ chain'[k].st = "waiting" /\ chain'[k].silent = TRUE
        /\ chain'[k].remaining = chain[k].remaining - 1
        /\ chain'[k].remaining > 0 /\ chain'[k].at = now + Reclaim
        /\ now' = now /\ health' = health /\ heard' = heard
    BY ReclaimOneIs
  <2>2. chain[k].remaining - 1 = k - c
    BY <1>1
  <2> QED BY <2>1, <2>2
<1>3. /\ now \in Nat /\ chain[k].at \in Nat /\ chain[k].at <= now
      /\ now <= chain[k].at + Latency
  BY Fields DEF ReclaimOne, Due, OnTime
<1>4. Awaits(k)' = c /\ k > c
  BY <1>1, <1>2 DEF Awaits
<1>5. Synced(k, c, lo, d)'
  BY <1>2, <1>3, <1>4, Ticks DEF Synced, Expiring
<1>6. OnTime(k)'
  BY <1>2, <1>3, Ticks DEF OnTime, Expiring
<1>7. Flagged(k)'
  <2>1. \E j \in Slots : j < c /\ health[j] # "live"
    BY <1>1 DEF Expiring
  <2> QED BY <1>2, <1>4, <2>1 DEF Flagged
<1> QED BY <1>4, <1>5, <1>6, <1>7

-----------------------------------------------------------------------------
(* One servo of a list moves, and only in what it knows.                   *)

LocalStep(k) ==
    /\ \A o \in Slots : o # k => chain'[o] = chain[o] /\ heard'[o] = heard[o]
    /\ chain'[k].st = "idle" <=> chain[k].st = "idle"
    /\ UNCHANGED <<now, health, wire, sent>>

LEMMA LocalUnsent ==
    ASSUME NEW k \in Slots, LocalStep(k), NEW o \in Slots
    PROVE  /\ Unsent(o) => Unsent(o)'
           /\ Done(o) => Done(o)'
           /\ Talking(o) => Talking(o)'
           /\ Counting(o)' <=> Counting(o)
BY DEF LocalStep, Unsent, Done, Talking, Counting

LEMMA LocalQuiet ==
    ASSUME TypeOK, NEW k \in Slots, NEW c \in 0 .. N, NEW lo \in Nat, NEW d \in Nat,
           QuietPhase(c, lo, d), LocalStep(k),
           k >= c /\ Counting(k) => Listening(k, c, lo, d)'
    PROVE  QuietPhase(c, lo, d)'
<1>1. Round(c, lo, d)'
  BY LocalUnsent DEF QuietPhase, Round, Skew
<1>2. ASSUME NEW o \in Slots, o >= c
      PROVE  Unsent(o)' /\ (Counting(o)' => Listening(o, c, lo, d)')
  <2>1. Unsent(o) /\ (Counting(o) => Listening(o, c, lo, d))
    BY <1>2 DEF QuietPhase
  <2>2. CASE o = k
    BY <1>2, <2>1, <2>2, LocalUnsent
  <2>3. CASE o # k
    <3>1. /\ chain'[o] = chain[o] /\ heard'[o] = heard[o] /\ health' = health
          /\ now \in Nat /\ now' = now /\ now' \in Nat /\ now <= now'
      BY <2>3 DEF LocalStep, TypeOK
    <3>2. Listening(o, c, lo, d) => Listening(o, c, lo, d)'
      BY <3>1, ListeningStands
    <3> QED BY <2>1, <3>2, LocalUnsent
  <2> QED BY <2>2, <2>3
<1> QED BY <1>1, <1>2 DEF QuietPhase

LEMMA LocalBreak ==
    ASSUME TypeOK, NEW k \in Slots, NEW c \in 0 .. N, NEW lo \in Nat, NEW d \in Nat,
           BreakPhase(c, lo, d), LocalStep(k),
           k > c /\ Counting(k) => Listening(k, c, lo, d)'
    PROVE  BreakPhase(c, lo, d)'
<1>1. Round(c, lo, d)'
  BY LocalUnsent DEF BreakPhase, Round, Skew
<1>2. ASSUME NEW o \in Slots, o > c
      PROVE  Unsent(o)' /\ (Counting(o)' => Listening(o, c, lo, d)')
  <2>1. Unsent(o) /\ (Counting(o) => Listening(o, c, lo, d))
    BY <1>2 DEF BreakPhase
  <2>2. CASE o = k
    BY <1>2, <2>1, <2>2, LocalUnsent
  <2>3. CASE o # k
    <3>1. /\ chain'[o] = chain[o] /\ heard'[o] = heard[o] /\ health' = health
          /\ now \in Nat /\ now' = now /\ now' \in Nat /\ now <= now'
      BY <2>3 DEF LocalStep, TypeOK
    <3>2. Listening(o, c, lo, d) => Listening(o, c, lo, d)'
      BY <3>1, ListeningStands
    <3> QED BY <2>1, <3>2, LocalUnsent
  <2> QED BY <2>2, <2>3
<1>3. Talking(c)'
  <2>1. c \in Slots /\ Talking(c)
    BY DEF BreakPhase, Talking
  <2> QED BY <2>1, LocalUnsent
<1>4. wire' = wire
  BY DEF LocalStep
<1> QED BY <1>1, <1>2, <1>3, <1>4 DEF BreakPhase

LEMMA LocalFrame ==
    ASSUME TypeOK, NEW k \in Slots, NEW c \in Slots, NEW e \in Nat,
           FramePhase(c, e), LocalStep(k),
           k > c /\ Counting(k) => Suspended(k, c, e)'
    PROVE  FramePhase(c, e)'
<1>1. \A j \in Slots : j < c => Done(j)'
  BY LocalUnsent DEF FramePhase
<1>2. ASSUME NEW o \in Slots, o > c
      PROVE  Unsent(o)' /\ (Counting(o)' => Suspended(o, c, e)')
  <2>1. Unsent(o) /\ (Counting(o) => Suspended(o, c, e))
    BY <1>2 DEF FramePhase
  <2>2. CASE o = k
    BY <1>2, <2>1, <2>2, LocalUnsent
  <2>3. CASE o # k
    <3>1. chain'[o] = chain[o] /\ heard'[o] = heard[o]
      BY <2>3 DEF LocalStep
    <3>2. Suspended(o, c, e) => Suspended(o, c, e)'
      BY <3>1 DEF Suspended, Awaits
    <3> QED BY <2>1, <3>2, LocalUnsent
  <2> QED BY <2>2, <2>3
<1>3. Talking(c)'
  BY LocalUnsent DEF FramePhase
<1>4. wire' = wire /\ health' = health /\ now' = now
  BY DEF LocalStep
<1> QED BY <1>1, <1>2, <1>3, <1>4 DEF FramePhase

(* The other parts of the invariant.                                       *)
LEMMA LocalRest ==
    ASSUME TimeInv, CountInv, FlagIsTrue, NEW k \in Slots, LocalStep(k),
           Counting(k) => OnTime(k)' /\ Flagged(k)'
    PROVE  TimeInv' /\ CountInv' /\ FlagIsTrue'
<1>0. UNCHANGED <<now, health, wire, sent>>
  BY DEF LocalStep
<1>1. ASSUME NEW o \in Slots
      PROVE  OnTime(o)' /\ Flagged(o)' /\ (wire'[o].st # "off" => now' <= wire'[o].until)
  <2>1. OnTime(o) /\ Flagged(o) /\ (wire[o].st # "off" => now <= wire[o].until)
    BY DEF TimeInv, CountInv
  <2>2. CASE o = k /\ Counting(o)
    BY <1>0, <2>1, <2>2
  <2>3. CASE o = k /\ ~Counting(o)
    <3>1. ~Counting(o)'
      BY <2>3, LocalUnsent
    <3> QED BY <1>0, <2>1, <3>1 DEF OnTime, Flagged
  <2>4. CASE o # k
    <3>1. chain'[o] = chain[o] /\ heard'[o] = heard[o]
      BY <2>4 DEF LocalStep
    <3> QED BY <1>0, <2>1, <3>1 DEF OnTime, Flagged, Counting, Awaits
  <2> QED BY <2>2, <2>3, <2>4
<1>2. FlagIsTrue'
  BY <1>0 DEF FlagIsTrue
<1> QED BY <1>1, <1>2 DEF TimeInv, CountInv

-----------------------------------------------------------------------------
(* Who is due.                                                             *)

(* Nobody listening to the break of slot c takes it for silence.           *)
LEMMA BreakHolds ==
    ASSUME TypeOK, NEW c \in 0 .. N, NEW lo \in Nat, NEW d \in Nat,
           BreakPhase(c, lo, d), TimeInv, NEW k \in Slots, k > c, Counting(k), Due(k)
    PROVE  Expiring(k, c, lo, d)
<1>1. /\ Listening(k, c, lo, d) /\ OnTime(k) /\ Latency <= d /\ d <= Skew(c)
      /\ c \in Nat /\ c \in Slots
  <2>1. /\ Listening(k, c, lo, d) /\ Round(c, lo, d) /\ c \in Slots
    BY DEF BreakPhase, Talking
  <2>2. OnTime(k)
    BY DEF TimeInv
  <2> QED BY <2>1, <2>2 DEF Round
<1>2. now <= lo + d + BreakLen
  <2>1. now <= wire[c].until /\ wire[c].until <= lo + d + BreakLen
    BY <1>1 DEF BreakPhase, TimeInv
  <2>2. wire[c].until \in Nat /\ now \in Nat
    BY <1>1, Fields
  <2> QED BY <2>1, <2>2, Ticks
<1>3. now \in Nat /\ chain[k].at \in Nat /\ chain[k].at <= now
  BY Fields DEF Due
<1>4. Skew(c) \in Nat /\ Skew(c) + Latency + BreakLen < Reclaim /\ k \in Nat
  BY <1>1, SkewBounded, SkewGrows, Fields
<1>5. ~Synced(k, c, lo, d)
  <2>1. lo + d + BreakLen < lo + Reclaim
    BY <1>1, <1>4, Ticks
  <2>2. now < lo + Reclaim
    BY <1>2, <1>3, <2>1, Ticks
  <2>3. ~(lo + Reclaim <= chain[k].at)
    BY <1>3, <2>2, Ticks
  <2> QED BY <1>4, <2>3 DEF Synced
<1>6. ~Wedging(k, c, lo, d) /\ ~Ending(k, c, lo, d)
  BY <1>1, <1>3, Lateness
<1> QED BY <1>1, <1>5, <1>6 DEF Listening

(* Nor does anybody listening to its frame.                                *)
LEMMA FrameHolds ==
    ASSUME TypeOK, NEW c \in Slots, NEW e \in Nat,
           FramePhase(c, e), TimeInv, NEW k \in Slots, Counting(k)
    PROVE  k > c /\ ~Due(k)
<1>1. k > c /\ Suspended(k, c, e)
  <2>1. k > c \/ k < c \/ k = c
    BY Ticks
  <2>2. ~(k < c) /\ k # c
    BY DEF FramePhase, Done, Talking, Counting
  <2>3. k > c
    BY <2>1, <2>2
  <2> QED BY <2>3 DEF FramePhase
<1>2. /\ now \in Nat /\ chain[k].at \in Nat
      /\ heard[k] # <<>> => now <= Head(heard[k]).at + Latency
  BY Fields DEF TimeInv, OnTime
<1>3. now <= e + FrameLen
  <2>1. wire[c].st # "off" /\ wire[c].until = e + FrameLen
    BY DEF FramePhase
  <2> QED BY <2>1 DEF TimeInv
<1>4. CASE heard[k] = <<Event("break", e)>> /\ e + Latency < chain[k].at
  <2>1. heard[k] # <<>> /\ Head(heard[k]).at = e
    BY <1>4, OneEvent DEF Event
  <2> QED BY <1>1, <1>2, <1>4, <2>1, Ticks DEF Due
<1>5. CASE heard[k] = <<>> /\ e + FrameLen + Latency < chain[k].at
  BY <1>1, <1>2, <1>3, <1>5, Ticks DEF Due
<1> QED BY <1>1, <1>4, <1>5 DEF Suspended

(* A window that has run out for somebody behind slot c: c is dead, and    *)
(* the turn is that of the next.                                           *)
LEMMA TurnPasses ==
    ASSUME TypeOK, NEW c \in 0 .. N, NEW lo \in Nat, NEW d \in Nat,
           QuietPhase(c, lo, d), TimeInv, NEW k \in Slots, k > c, Counting(k), Due(k),
           Synced(k, c, lo, d)
    PROVE  /\ QuietPhase(c + 1, lo + Reclaim, d + Latency)
           /\ Expiring(k, c + 1, lo + Reclaim, d + Latency)
           /\ c + 1 \in 0 .. N /\ lo + Reclaim \in Nat /\ d + Latency \in Nat
<1>1. /\ Latency <= d /\ d <= Skew(c) /\ c \in Nat /\ c \in Slots /\ c + 1 \in 0 .. N
      /\ k \in Nat /\ k >= c
  BY Ticks DEF QuietPhase, Round
<1>2. /\ Skew(c) \in Nat /\ Skew(c) + Latency + BreakLen < Reclaim
      /\ Skew(c + 1) = Skew(c) + Latency
  BY <1>1, SkewBounded, SkewGrows
<1>3. now > lo + d
  <2>1. now \in Nat /\ chain[k].at \in Nat /\ chain[k].at <= now
    BY Fields DEF Due
  <2>2. lo + Reclaim <= chain[k].at
    BY <1>1 DEF Synced
  <2>3. d < Reclaim
    BY <1>1, <1>2, Ticks
  <2> QED BY <2>1, <2>2, <2>3, Ticks
<1>n. ~(now <= lo + d)
  BY <1>3, Fields
<1>4. ASSUME NEW o \in Slots, o >= c, Counting(o)
      PROVE  Synced(o, c, lo, d) /\ o # c
  <2>1. Listening(o, c, lo, d) /\ OnTime(o)
    BY <1>4 DEF QuietPhase, TimeInv
  <2> QED BY <1>1, <1>4, <1>n, <2>1, Lateness
<1>5. Unsent(c) /\ ~Counting(c)
  BY <1>1, <1>4 DEF QuietPhase
<1>6. health[c] = "dead" /\ Done(c)
  BY <1>5 DEF Unsent, Counting, Done
<1>7. lo + Reclaim \in Nat /\ d + Latency \in Nat /\ Latency <= d + Latency
      /\ d + Latency <= Skew(c + 1)
  BY <1>1, <1>2, Ticks
<1>8. ASSUME NEW j \in Slots, j < c + 1 PROVE Done(j)
  <2>1. j < c \/ j = c
    BY <1>1, <1>8, Fields
  <2> QED BY <1>6, <2>1 DEF QuietPhase, Round
<1>9. Round(c + 1, lo + Reclaim, d + Latency)
  BY <1>1, <1>7, <1>8 DEF Round
<1>10. ASSUME NEW o \in Slots, o >= c, Counting(o)
       PROVE  Expiring(o, c + 1, lo + Reclaim, d + Latency)
  <2>1. /\ Awaits(o) = c /\ heard[o] = <<>>
        /\ lo + Reclaim <= chain[o].at /\ chain[o].at <= lo + Reclaim + d
    BY <1>4, <1>10 DEF Synced
  <2>2. chain[o].at + Latency <= lo + Reclaim + (d + Latency)
    BY <2>1, Fields, Ticks
  <2>3. c + 1 > 0 /\ c + 1 - 1 = c
    BY <1>1
  <2>4. health[c + 1 - 1] # "live"
    BY <1>6, <2>3
  <2> QED BY <2>1, <2>2, <2>3, <2>4 DEF Expiring
<1>11. ASSUME NEW o \in Slots, o >= c + 1
       PROVE  Unsent(o) /\ (Counting(o) => Listening(o, c + 1, lo + Reclaim, d + Latency))
  <2>1. o >= c
    <3>1. o \in Nat /\ c \in Nat
      BY <1>1, Fields
    <3> QED BY <1>11, <3>1
  <2> QED BY <1>10, <2>1 DEF QuietPhase, Listening
<1> QED BY <1>1, <1>7, <1>9, <1>10, <1>11 DEF QuietPhase

(* Who is due in a quiet round: the servo of slot c, or one whose window   *)
(* on the slot before has run out.                                         *)
DueIn(k, c, lo, d) ==
    /\ QuietPhase(c, lo, d) /\ k >= c
    /\ \/ k = c /\ Synced(k, c, lo, d)
       \/ Expiring(k, c, lo, d)

LEMMA QuietDue ==
    ASSUME TypeOK, TimeInv, NEW c \in 0 .. N, NEW lo \in Nat, NEW d \in Nat,
           QuietPhase(c, lo, d), NEW k \in Slots, Counting(k), Due(k)
    PROVE  \E c1 \in 0 .. N, lo1 \in Nat, d1 \in Nat : DueIn(k, c1, lo1, d1)
<1>1. k >= c
  <2>1. ~(k < c)
    BY DEF QuietPhase, Round, Done, Counting
  <2> QED BY <2>1, Fields, Ticks
<1>2. Listening(k, c, lo, d) /\ OnTime(k) /\ Latency <= d
  BY <1>1 DEF QuietPhase, Round, TimeInv
<1>3. ~Wedging(k, c, lo, d) /\ ~Ending(k, c, lo, d)
  <2>1. now \in Nat /\ chain[k].at \in Nat /\ chain[k].at <= now
    BY Fields DEF Due
  <2>2. ~(now < chain[k].at)
    BY <2>1
  <2> QED BY <1>2, <2>2, Lateness
<1>4. CASE Expiring(k, c, lo, d) \/ k = c
  BY <1>1, <1>2, <1>3, <1>4 DEF DueIn, Listening
<1>5. CASE Synced(k, c, lo, d) /\ k # c
  <2>1. k > c
    BY <1>1, <1>5, Fields, Ticks
  <2>2. /\ QuietPhase(c + 1, lo + Reclaim, d + Latency)
        /\ Expiring(k, c + 1, lo + Reclaim, d + Latency)
        /\ c + 1 \in 0 .. N /\ lo + Reclaim \in Nat /\ d + Latency \in Nat
    BY <1>5, <2>1, TurnPasses
  <2>3. k >= c + 1
    BY <2>1, Fields, Ticks
  <2>4. DueIn(k, c + 1, lo + Reclaim, d + Latency)
    BY <2>2, <2>3 DEF DueIn
  <2> QED BY <2>2, <2>4
<1> QED BY <1>2, <1>3, <1>4, <1>5 DEF Listening

-----------------------------------------------------------------------------
(* The steps.                                                              *)

LEMMA InitInv == ASSUME Init PROVE IInv
<1>1. TypeOK
  BY InitType
<1>2. /\ now = 0 /\ \A k \in Slots : chain[k] = IF health[k] = "dead" THEN Idle
                                               ELSE OnReplyStaged(k)
      /\ \A k \in Slots : wire[k] = Quiet /\ heard[k] = <<>> /\ sent[k] = "none"
  BY DEF Init
<1>3. ASSUME NEW k \in Slots
      PROVE  /\ Unsent(k) /\ wire[k].st = "off"
             /\ Counting(k) =>
                  /\ chain[k].remaining = k
                  /\ chain[k].silent = FALSE
                  /\ chain[k].st = IF k = 0 THEN "pending" ELSE "waiting"
                  /\ chain[k].at = ReplyGap + (IF k = 0 THEN 0 ELSE Reclaim)
  <2>1. wire[k].st = "off" /\ sent[k] = "none"
    BY <1>2 DEF Quiet
  <2>2. CASE health[k] = "dead"
    BY <1>2, <2>1, <2>2 DEF Idle, Unsent, Counting
  <2>3. CASE health[k] # "dead"
    <3>1. chain[k] = OnReplyStaged(k)
      BY <1>2, <2>3
    <3>2. CASE k = 0
      <4>1. chain[k] = [st |-> "pending", remaining |-> 0, silent |-> FALSE, at |-> ReplyGap]
        BY <3>1, <3>2 DEF OnReplyStaged
      <4>2. ReplyGap + 0 = ReplyGap
        BY Ticks
      <4> QED BY <2>1, <2>3, <3>2, <4>1, <4>2 DEF Unsent
    <3>3. CASE k # 0
      <4>1. chain[k] = [st |-> "waiting", remaining |-> k, silent |-> FALSE,
                        at |-> ReplyGap + Reclaim]
        BY <3>1, <3>3 DEF OnReplyStaged
      <4> QED BY <2>1, <2>3, <3>3, <4>1 DEF Unsent
    <3> QED BY <3>2, <3>3
  <2> QED BY <2>2, <2>3
<1>4. Round(0, ReplyGap, Latency)
  <2>1. Skew(0) = Latency /\ Latency <= Latency
    BY Ticks DEF Skew
  <2>2. \A j \in Slots : ~(j < 0)
    BY Ticks
  <2> QED BY <2>1, <2>2, Ticks DEF Round
<1>5. ASSUME NEW k \in Slots, Counting(k)
      PROVE  Synced(k, 0, ReplyGap, Latency)
  <2>1. Awaits(k) = 0
    <3>1. chain[k].remaining = k /\ k \in Nat
      BY <1>1, <1>3, <1>5, Fields
    <3> QED BY <3>1 DEF Awaits
  <2>2. chain[k].at = ReplyGap + (IF k = 0 THEN 0 ELSE Reclaim)
    BY <1>3, <1>5
  <2> QED BY <1>2, <2>1, <2>2, Ticks DEF Synced
<1>6. QuietPhase(0, ReplyGap, Latency)
  BY <1>3, <1>4, <1>5 DEF QuietPhase, Listening
<1>7. PhaseInv
  BY <1>6, Ticks DEF PhaseInv
<1>8. ASSUME NEW k \in Slots
      PROVE  OnTime(k) /\ Flagged(k)
  <2>1. Counting(k) => now <= chain[k].at + Latency
    BY <1>1, <1>2, Fields, Ticks
  <2>2. Counting(k) => Awaits(k) = 0
    BY <1>5 DEF Synced
  <2>3. \A j \in Slots : ~(j < 0)
    BY Ticks
  <2> QED BY <1>2, <1>3, <2>1, <2>2, <2>3, ZenonT(40) DEF OnTime, Flagged
<1>9. TimeInv /\ CountInv
  BY <1>3, <1>8 DEF TimeInv, CountInv
<1>10. FlagIsTrue
  BY <1>2 DEF FlagIsTrue
<1> QED BY <1>1, <1>7, <1>9, <1>10 DEF IInv

(* Time passes and nobody moves.                                           *)
LEMMA PhaseStands ==
    ASSUME TypeOK, PhaseInv, UNCHANGED <<health, chain, wire, heard, sent>>,
           now' \in Nat, now <= now'
    PROVE  PhaseInv'
<1>0. now \in Nat
  BY DEF TypeOK
<1>1. ASSUME NEW o \in Slots
      PROVE  /\ Unsent(o) => Unsent(o)'
             /\ Done(o) => Done(o)'
             /\ Counting(o)' <=> Counting(o)
  BY DEF Unsent, Done, Counting
<1>2. ASSUME NEW c \in 0 .. N, NEW lo \in Nat, NEW d \in Nat
      PROVE  /\ Round(c, lo, d) => Round(c, lo, d)'
             /\ \A o \in Slots : Listening(o, c, lo, d) => Listening(o, c, lo, d)'
  <2>1. Round(c, lo, d) => Round(c, lo, d)'
    BY <1>1 DEF Round, Skew
  <2> QED BY <1>0, <2>1, ListeningStands
<1>3. ASSUME NEW c \in 0 .. N, NEW lo \in Nat, NEW d \in Nat, QuietPhase(c, lo, d)
      PROVE  QuietPhase(c, lo, d)'
  BY <1>1, <1>2, <1>3 DEF QuietPhase
<1>4. ASSUME NEW c \in 0 .. N, NEW lo \in Nat, NEW d \in Nat, BreakPhase(c, lo, d)
      PROVE  BreakPhase(c, lo, d)'
  <2>1. Talking(c)'
    BY <1>4 DEF BreakPhase, Talking
  <2> QED BY <1>1, <1>2, <1>4, <2>1 DEF BreakPhase
<1>5. ASSUME NEW c \in Slots, NEW e \in Nat, FramePhase(c, e)
      PROVE  FramePhase(c, e)'
  <2>1. Talking(c)'
    BY <1>5 DEF FramePhase, Talking
  <2>2. \A o \in Slots : Suspended(o, c, e) => Suspended(o, c, e)'
    BY DEF Suspended, Awaits
  <2>3. e <= now'
    BY <1>0, <1>5 DEF FramePhase
  <2> QED BY <1>1, <1>5, <2>1, <2>2, <2>3 DEF FramePhase
<1> QED BY <1>3, <1>4, <1>5 DEF PhaseInv

LEMMA TickInv == ASSUME IInv, Tick PROVE IInv'
<1>1. TypeOK /\ TypeOK' /\ now \in Nat /\ now' = now + 1 /\ now <= now'
  BY TypeStep DEF IInv, Tick, Next, TypeOK
<1>2. PhaseInv'
  BY <1>1, PhaseStands DEF IInv, Tick, TypeOK
<1>3. ASSUME NEW k \in Slots
      PROVE  OnTime(k)' /\ Flagged(k)' /\ (wire'[k].st # "off" => now' <= wire'[k].until)
  <2>0. chain' = chain /\ wire' = wire /\ heard' = heard /\ health' = health
    BY DEF Tick
  <2>1. /\ chain[k].at \in Nat /\ wire[k].until \in Nat
        /\ heard[k] \in Seq(EventSet)
    BY <1>1, Fields
  <2>2. heard[k] # <<>> => Head(heard[k]).at \in Nat
    <3>1. heard[k] # <<>> => Head(heard[k]) \in EventSet
      BY <2>1
    <3> QED BY <3>1 DEF EventSet
  <2>3. Counting(k) => now + 1 <= chain[k].at + Latency
    BY <1>1, <2>1, Ticks DEF Tick, Counting
  <2>4. heard[k] # <<>> => now + 1 <= Head(heard[k]).at + Latency
    BY <1>1, <2>2, Ticks DEF Tick
  <2>5. wire[k].st # "off" => now + 1 <= wire[k].until
    BY <1>1, <2>1 DEF Tick
  <2>6. OnTime(k)'
    BY <1>1, <2>0, <2>3, <2>4 DEF OnTime, Counting
  <2>7. Flagged(k)'
    BY <2>0 DEF IInv, CountInv, Flagged, Counting, Awaits
  <2> QED BY <1>1, <2>0, <2>5, <2>6, <2>7
<1>4. FlagIsTrue'
  BY DEF IInv, Tick, FlagIsTrue
<1> QED BY <1>1, <1>2, <1>3, <1>4 DEF IInv, TimeInv, CountInv

LEMMA StutterInv == ASSUME IInv, UNCHANGED vars PROVE IInv'
<1>1. TypeOK /\ TypeOK' /\ now \in Nat /\ now' = now /\ now <= now' /\ now' \in Nat
  BY TypeStep DEF IInv, vars, TypeOK
<1>2. PhaseInv'
  BY <1>1, PhaseStands DEF IInv, vars
<1>3. TimeInv' /\ CountInv' /\ FlagIsTrue'
  BY DEF IInv, vars, TimeInv, CountInv, FlagIsTrue, OnTime, Flagged, Counting, Awaits
<1> QED BY <1>1, <1>2, <1>3 DEF IInv

(* on_deadline, a window with more predecessors to go.                     *)
LEMMA ReclaimInv == ASSUME IInv, NEW k \in Slots, ReclaimOne(k) PROVE IInv'
<1>0. TypeOK /\ TypeOK' /\ TimeInv /\ CountInv /\ FlagIsTrue /\ PhaseInv
  BY TypeStep DEF IInv, Next, Step
<1>1. Counting(k) /\ Due(k) /\ OnTime(k) /\ Flagged(k) /\ chain[k].remaining > 1
  BY <1>0 DEF ReclaimOne, Due, Counting, TimeInv, CountInv
<1>2. LocalStep(k)
  BY <1>0, <1>1, ReclaimOneIs DEF LocalStep, Counting
<1>3. ASSUME NEW c \in 0 .. N, NEW lo \in Nat, NEW d \in Nat,
             k >= c, Expiring(k, c, lo, d)
      PROVE  Listening(k, c, lo, d)' /\ TimeInv' /\ CountInv' /\ FlagIsTrue'
  <2>1. Synced(k, c, lo, d)' /\ OnTime(k)' /\ Flagged(k)'
    BY <1>0, <1>1, <1>3, ReclaimSyncs
  <2>2. TimeInv' /\ CountInv' /\ FlagIsTrue'
    BY <1>0, <1>2, <2>1, LocalRest
  <2> QED BY <2>1, <2>2 DEF Listening
<1>4. ASSUME NEW c0 \in 0 .. N, NEW lo0 \in Nat, NEW d0 \in Nat, QuietPhase(c0, lo0, d0)
      PROVE  PhaseInv' /\ TimeInv' /\ CountInv' /\ FlagIsTrue'
  <2>1. PICK c \in 0 .. N, lo \in Nat, d \in Nat : DueIn(k, c, lo, d)
    BY <1>0, <1>1, <1>4, QuietDue
  <2>2. ~(k = c /\ Synced(k, c, lo, d))
    <3>1. Awaits(k) = k => chain[k].remaining = 0
      BY <1>0, Fields DEF Awaits
    <3>2. chain[k].remaining # 0
      BY <1>1
    <3> QED BY <3>1, <3>2 DEF Synced
  <2>3. Expiring(k, c, lo, d) /\ k >= c /\ QuietPhase(c, lo, d)
    BY <2>1, <2>2 DEF DueIn
  <2>4. Listening(k, c, lo, d)' /\ TimeInv' /\ CountInv' /\ FlagIsTrue'
    BY <1>3, <2>3
  <2>5. QuietPhase(c, lo, d)'
    BY <1>0, <1>2, <2>3, <2>4, LocalQuiet
  <2> QED BY <2>4, <2>5 DEF PhaseInv
<1>5. ASSUME NEW c \in 0 .. N, NEW lo \in Nat, NEW d \in Nat, BreakPhase(c, lo, d)
      PROVE  PhaseInv' /\ TimeInv' /\ CountInv' /\ FlagIsTrue'
  <2>1. k > c
    <3>1. ~(k < c) /\ k # c
      BY <1>1, <1>5 DEF BreakPhase, Round, Done, Talking, Counting
    <3> QED BY <3>1, Ticks
  <2>2. Expiring(k, c, lo, d)
    BY <1>0, <1>1, <1>5, <2>1, BreakHolds
  <2>g. k >= c
    BY <2>1, Ticks
  <2>3. Listening(k, c, lo, d)' /\ TimeInv' /\ CountInv' /\ FlagIsTrue'
    BY <1>3, <2>2, <2>g
  <2>4. BreakPhase(c, lo, d)'
    BY <1>0, <1>2, <1>5, <2>3, LocalBreak
  <2> QED BY <2>3, <2>4 DEF PhaseInv
<1>6. ASSUME NEW c \in Slots, NEW e \in Nat, FramePhase(c, e) PROVE FALSE
  BY <1>0, <1>1, <1>6, FrameHolds
<1> QED BY <1>0, <1>4, <1>5, <1>6 DEF IInv, PhaseInv

(* on_deadline, the trigger: the servo of slot c, in its time.             *)
LEMMA TriggerQuiet ==
    ASSUME IInv, NEW k \in Slots, Trigger(k),
           NEW c \in 0 .. N, NEW lo \in Nat, NEW d \in Nat, DueIn(k, c, lo, d)
    PROVE  IInv'
<1>0. TypeOK /\ TypeOK' /\ TimeInv /\ CountInv /\ FlagIsTrue /\ QuietPhase(c, lo, d) /\ k >= c
  BY TypeStep DEF IInv, Next, Step, DueIn
<1>1. Counting(k) /\ Due(k) /\ OnTime(k) /\ Flagged(k)
  BY <1>0 DEF Trigger, Due, Counting, TimeInv, CountInv
<1>2. /\ now \in Nat /\ chain[k].at \in Nat /\ chain[k].at <= now
      /\ now <= chain[k].at + Latency /\ k \in Nat /\ c \in Nat
      /\ chain[k].remaining \in Nat /\ chain[k].silent \in BOOLEAN
  BY <1>0, <1>1, Fields, Ticks DEF Due, OnTime
<1>3. k = c
  <2>1. CASE Expiring(k, c, lo, d)
    <3>1. chain[k].st = "waiting" /\ chain[k].remaining = k - c + 1
      BY <1>0, <1>1, <2>1, WaitingOf DEF Expiring
    <3>2. chain[k].remaining = 1
      BY <3>1 DEF Trigger
    <3> QED BY <1>2, <3>1, <3>2
  <2> QED BY <2>1 DEF DueIn
<1>4. lo <= now /\ now <= lo + d
  <2>1. lo <= chain[k].at /\ chain[k].at + Latency <= lo + d
    BY <1>3 DEF DueIn, Synced, Expiring
  <2> QED BY <1>2, <2>1, Ticks
<1>t. /\ chain \in [Slots -> ChainSet] /\ wire \in [Slots -> WireSet]
      /\ sent \in [Slots -> {"none", "clean", "flagged"}]
  BY <1>0 DEF TypeOK, ChainSet, WireSet
<1>s. /\ chain' = [chain EXCEPT ![k] = Idle] /\ chain'[k].st = "idle"
      /\ wire' = [wire EXCEPT ![k] = [st |-> "break", until |-> now + BreakLen]]
      /\ sent' = [sent EXCEPT ![k] = IF chain[k].silent \/ chain[k].st = "waiting"
                                     THEN "flagged" ELSE "clean"]
      /\ UNCHANGED <<now, health, heard>>
  BY <1>0, TriggerIs
<1>5. /\ chain'[k].st = "idle" /\ sent'[k] # "none"
      /\ wire'[k].st = "break" /\ wire'[k].until = now + BreakLen
      /\ sent'[k] = IF chain[k].silent \/ chain[k].st = "waiting" THEN "flagged" ELSE "clean"
      /\ now' = now /\ health' = health /\ heard' = heard
  BY <1>s, <1>t
<1>6. \A o \in Slots : o # k =>
          chain'[o] = chain[o] /\ wire'[o] = wire[o] /\ sent'[o] = sent[o]
  BY <1>s, <1>t
<1>7. ASSUME NEW j \in Slots, j < c PROVE Done(j)'
  <2>1. Done(j) /\ j # k
    BY <1>0, <1>2, <1>3, <1>7, Ticks DEF QuietPhase, Round
  <2> QED BY <1>5, <1>6, <2>1 DEF Done
<1>8. Round(c, lo, d)'
  BY <1>0, <1>7 DEF QuietPhase, Round, Skew
<1>9. Talking(c)'
  <2>1. health[k] # "dead"
    BY <1>0, <1>1 DEF QuietPhase, Unsent, Counting
  <2> QED BY <1>3, <1>5, <2>1 DEF Talking
<1>10. ASSUME NEW o \in Slots, o > c
       PROVE  Unsent(o)' /\ (Counting(o)' => Listening(o, c, lo, d)')
  <2>1. o # k /\ o >= c
    BY <1>3, <1>10, Ticks
  <2>2. /\ chain'[o] = chain[o] /\ heard'[o] = heard[o] /\ health' = health
        /\ now' \in Nat /\ now <= now'
    BY <1>2, <1>5, <1>6, <2>1
  <2>3. Listening(o, c, lo, d) => Listening(o, c, lo, d)'
    BY <1>2, <2>2, ListeningStands
  <2>4. Unsent(o) /\ (Counting(o) => Listening(o, c, lo, d))
    BY <1>0, <2>1 DEF QuietPhase
  <2>5. Unsent(o)' /\ (Counting(o)' <=> Counting(o))
    BY <1>5, <1>6, <2>1, <2>4 DEF Unsent, Counting
  <2> QED BY <2>3, <2>4, <2>5
<1>11. lo + BreakLen <= wire'[c].until /\ wire'[c].until <= lo + d + BreakLen
  <2>1. wire'[c].until = now + BreakLen
    BY <1>3, <1>5
  <2> QED BY <1>2, <1>4, <2>1, Ticks, SMTT(20)
<1>12. BreakPhase(c, lo, d)'
  BY <1>3, <1>5, <1>8, <1>9, <1>10, <1>11 DEF BreakPhase
<1>13. ASSUME NEW o \in Slots
       PROVE  OnTime(o)' /\ Flagged(o)' /\ (wire'[o].st # "off" => now' <= wire'[o].until)
  <2>1. CASE o = k
    BY <1>2, <1>5, <2>1, Ticks DEF OnTime, Flagged, Counting
  <2>2. CASE o # k
    <3>1. OnTime(o) /\ Flagged(o) /\ (wire[o].st # "off" => now <= wire[o].until)
      BY <1>0 DEF TimeInv, CountInv
    <3> QED BY <1>5, <1>6, <2>2, <3>1 DEF OnTime, Flagged, Counting, Awaits
  <2> QED BY <2>1, <2>2
<1>14. /\ sent'[k] = "flagged" => \E j \in Slots : j < k /\ health[j] # "live"
       /\ sent'[k] = "clean" => \A j \in Slots : j < k => health[j] = "live"
  <2>1. CASE Expiring(k, c, lo, d)
    <3>1. chain[k].st = "waiting" /\ c > 0 /\ c - 1 \in Slots /\ health[c - 1] # "live"
      BY <1>0, <1>1, <2>1, WaitingOf DEF Expiring
    <3>2. sent'[k] = "flagged" /\ c - 1 < k
      BY <1>2, <1>3, <1>5, <3>1
    <3> QED BY <3>1, <3>2
  <2>2. CASE Synced(k, c, lo, d)
    <3>1. Awaits(k) = k
      BY <1>3, <2>2 DEF Synced
    <3>2. chain[k].remaining = 0
      BY <1>2, <3>1 DEF Awaits
    <3>3. chain[k].st = "pending"
      BY <1>1, <3>2 DEF Flagged
    <3>4. chain[k].silent <=> \E j \in Slots : j < k /\ health[j] # "live"
      BY <1>1, <3>1 DEF Flagged
    <3> QED BY <1>5, <3>3, <3>4
  <2> QED BY <2>1, <2>2 DEF DueIn
<1>15. FlagIsTrue'
  BY <1>0, <1>5, <1>6, <1>14 DEF FlagIsTrue
<1> QED BY <1>0, <1>12, <1>13, <1>15 DEF IInv, PhaseInv, TimeInv, CountInv

LEMMA TriggerInv == ASSUME IInv, NEW k \in Slots, Trigger(k) PROVE IInv'
<1>0. TypeOK /\ TimeInv /\ CountInv /\ PhaseInv
  BY DEF IInv
<1>1. Counting(k) /\ Due(k) /\ OnTime(k) /\ Flagged(k)
  BY <1>0 DEF Trigger, Due, Counting, TimeInv, CountInv
<1>2. ASSUME NEW c \in 0 .. N, NEW lo \in Nat, NEW d \in Nat, QuietPhase(c, lo, d)
      PROVE  IInv'
  <2>1. PICK c1 \in 0 .. N, lo1 \in Nat, d1 \in Nat : DueIn(k, c1, lo1, d1)
    BY <1>0, <1>1, <1>2, QuietDue
  <2> QED BY <2>1, TriggerQuiet
<1>3. ASSUME NEW c \in 0 .. N, NEW lo \in Nat, NEW d \in Nat, BreakPhase(c, lo, d)
      PROVE  FALSE
  <2>1. k > c
    <3>1. ~(k < c) /\ k # c
      BY <1>1, <1>3 DEF BreakPhase, Round, Done, Talking, Counting
    <3> QED BY <3>1, Ticks
  <2>2. Expiring(k, c, lo, d)
    BY <1>0, <1>1, <1>3, <2>1, BreakHolds
  <2>3. k >= c /\ Awaits(k) = c - 1
    BY <2>1, <2>2, Ticks DEF Expiring
  <2>4. chain[k].st = "waiting" /\ chain[k].remaining = k - c + 1
    BY <1>0, <1>1, <2>3, WaitingOf
  <2>5. chain[k].remaining = 1
    BY <2>4 DEF Trigger
  <2> QED BY <2>1, <2>4, <2>5, Ticks
<1>4. ASSUME NEW c \in Slots, NEW e \in Nat, FramePhase(c, e) PROVE FALSE
  BY <1>0, <1>1, <1>4, FrameHolds
<1> QED BY <1>0, <1>2, <1>3, <1>4 DEF PhaseInv

(* on_break_observed.                                                      *)
LEMMA BreakObservedInv == ASSUME IInv, NEW k \in Slots, OnBreakObserved(k) PROVE IInv'
<1>0. TypeOK /\ TypeOK' /\ TimeInv /\ CountInv /\ FlagIsTrue /\ PhaseInv
  BY TypeStep DEF IInv, Next, Step
<1>1. OnTime(k) /\ Flagged(k)
  BY <1>0 DEF TimeInv, CountInv
<1>2. LocalStep(k)
  BY <1>0, BreakObservedIs DEF LocalStep
<1>3. ASSUME NEW c \in 0 .. N, NEW lo \in Nat, NEW d \in Nat, k >= c, Latency <= d,
             Counting(k), Listening(k, c, lo, d)
      PROVE  Listening(k, c, lo, d)' /\ OnTime(k)' /\ Flagged(k)'
  BY <1>0, <1>1, <1>3, BreakKeepsListening
<1>4. ASSUME NEW c \in 0 .. N, NEW lo \in Nat, NEW d \in Nat, QuietPhase(c, lo, d)
      PROVE  PhaseInv' /\ (Counting(k) => OnTime(k)' /\ Flagged(k)')
  <2>1. Counting(k) => k >= c
    <3>1. Counting(k) => ~(k < c)
      BY <1>4 DEF QuietPhase, Round, Done, Counting
    <3> QED BY <3>1, Ticks
  <2>2. Counting(k) => Listening(k, c, lo, d) /\ Latency <= d
    BY <1>4, <2>1 DEF QuietPhase, Round
  <2>3. Counting(k) => Listening(k, c, lo, d)' /\ OnTime(k)' /\ Flagged(k)'
    BY <1>3, <2>1, <2>2
  <2>4. QuietPhase(c, lo, d)'
    BY <1>0, <1>2, <1>4, <2>3, LocalQuiet
  <2> QED BY <2>3, <2>4 DEF PhaseInv
<1>5. ASSUME NEW c \in 0 .. N, NEW lo \in Nat, NEW d \in Nat, BreakPhase(c, lo, d)
      PROVE  PhaseInv' /\ (Counting(k) => OnTime(k)' /\ Flagged(k)')
  <2>1. Counting(k) => k > c /\ k >= c
    <3>1. Counting(k) => ~(k < c) /\ k # c
      BY <1>5 DEF BreakPhase, Round, Done, Talking, Counting
    <3> QED BY <3>1, Ticks
  <2>2. Counting(k) => Listening(k, c, lo, d) /\ Latency <= d
    BY <1>5, <2>1 DEF BreakPhase, Round
  <2>3. Counting(k) => Listening(k, c, lo, d)' /\ OnTime(k)' /\ Flagged(k)'
    BY <1>3, <2>1, <2>2
  <2>4. BreakPhase(c, lo, d)'
    BY <1>0, <1>2, <1>5, <2>3, LocalBreak
  <2> QED BY <2>3, <2>4 DEF PhaseInv
<1>6. ASSUME NEW c \in Slots, NEW e \in Nat, FramePhase(c, e)
      PROVE  PhaseInv' /\ (Counting(k) => OnTime(k)' /\ Flagged(k)')
  <2>1. ASSUME Counting(k)
        PROVE  Suspended(k, c, e)' /\ OnTime(k)' /\ Flagged(k)'
    <3>1. k > c /\ Suspended(k, c, e)
      BY <1>0, <1>6, <2>1, FrameHolds DEF FramePhase
    <3>2. /\ heard[k] # <<>> /\ heard'[k] = Tail(heard[k]) /\ now' = now /\ health' = health
          /\ chain[k].st = "waiting" =>
                /\ chain'[k].st = "waiting" /\ chain'[k].silent = chain[k].silent
                /\ chain'[k].remaining = chain[k].remaining
                /\ chain'[k].at = now + Allowance
      BY <1>0, BreakObservedIs
    <3>3. heard[k] = <<Event("break", e)>> /\ Awaits(k) = c
      BY <3>1, <3>2 DEF Suspended
    <3>4. heard'[k] = <<>>
      BY <3>2, <3>3, OneEvent
    <3>5. chain[k].st = "waiting"
      <4>1. chain[k].remaining # 0
        BY <1>0, <3>1, <3>3, Fields DEF Awaits
      <4> QED BY <1>0, <1>1, <2>1, <4>1, Fields DEF Flagged, Counting
    <3>6. now \in Nat /\ e <= now
      BY <1>0, <1>6, Fields DEF FramePhase
    <3>7. e + FrameLen + Latency < now + Allowance /\ now <= now + Allowance + Latency
      BY <3>6, Ticks
    <3>8. Suspended(k, c, e)'
      BY <3>2, <3>3, <3>4, <3>5, <3>7 DEF Suspended, Awaits
    <3>9. OnTime(k)'
      BY <3>2, <3>4, <3>5, <3>7 DEF OnTime
    <3>10. Flagged(k)'
      BY <1>1, <3>2, <3>5 DEF Flagged, Counting, Awaits
    <3> QED BY <3>8, <3>9, <3>10
  <2>2. FramePhase(c, e)'
    BY <1>0, <1>2, <1>6, <2>1, LocalFrame
  <2> QED BY <2>1, <2>2 DEF PhaseInv
<1>7. PhaseInv' /\ (Counting(k) => OnTime(k)' /\ Flagged(k)')
  BY <1>0, <1>4, <1>5, <1>6 DEF PhaseInv
<1>8. TimeInv' /\ CountInv' /\ FlagIsTrue'
  BY <1>0, <1>2, <1>7, LocalRest
<1> QED BY <1>0, <1>7, <1>8 DEF IInv

(* on_status_end.                                                          *)
LEMMA StatusEndInv == ASSUME IInv, NEW k \in Slots, OnStatusEnd(k) PROVE IInv'
<1>0. TypeOK /\ TypeOK' /\ TimeInv /\ CountInv /\ FlagIsTrue /\ PhaseInv
  BY TypeStep DEF IInv, Next, Step
<1>1. OnTime(k) /\ Flagged(k)
  BY <1>0 DEF TimeInv, CountInv
<1>2. LocalStep(k)
  <2>1. chain[k].st = "waiting" => chain'[k].st # "idle"
    <3>1. chain[k].st = "waiting" => chain'[k] = Ended(k)
      BY <1>0, StatusEndIs
    <3>2. Heard(k, "end")
      BY <1>0, StatusEndIs
    <3>3. chain[k].st = "waiting" => Ended(k).st # "idle"
      BY <1>0, <3>2, EndedFields
    <3> QED BY <3>1, <3>3
  <2> QED BY <1>0, <2>1, StatusEndIs DEF LocalStep
<1>3. ASSUME NEW c \in 0 .. N, NEW lo \in Nat, NEW d \in Nat, k >= c, Latency <= d,
             Counting(k), Listening(k, c, lo, d)
      PROVE  Listening(k, c, lo, d)' /\ OnTime(k)' /\ Flagged(k)'
  BY <1>0, <1>1, <1>3, EndSyncs DEF Listening
<1>4. ASSUME NEW c \in 0 .. N, NEW lo \in Nat, NEW d \in Nat, QuietPhase(c, lo, d)
      PROVE  PhaseInv' /\ (Counting(k) => OnTime(k)' /\ Flagged(k)')
  <2>1. Counting(k) => k >= c
    <3>1. Counting(k) => ~(k < c)
      BY <1>4 DEF QuietPhase, Round, Done, Counting
    <3> QED BY <3>1, Ticks
  <2>2. Counting(k) => Listening(k, c, lo, d) /\ Latency <= d
    BY <1>4, <2>1 DEF QuietPhase, Round
  <2>3. Counting(k) => Listening(k, c, lo, d)' /\ OnTime(k)' /\ Flagged(k)'
    BY <1>3, <2>1, <2>2
  <2>4. QuietPhase(c, lo, d)'
    BY <1>0, <1>2, <1>4, <2>3, LocalQuiet
  <2> QED BY <2>3, <2>4 DEF PhaseInv
<1>5. ASSUME NEW c \in 0 .. N, NEW lo \in Nat, NEW d \in Nat, BreakPhase(c, lo, d)
      PROVE  PhaseInv' /\ (Counting(k) => OnTime(k)' /\ Flagged(k)')
  <2>1. Counting(k) => k > c /\ k >= c
    <3>1. Counting(k) => ~(k < c) /\ k # c
      BY <1>5 DEF BreakPhase, Round, Done, Talking, Counting
    <3> QED BY <3>1, Ticks
  <2>2. Counting(k) => Listening(k, c, lo, d) /\ Latency <= d
    BY <1>5, <2>1 DEF BreakPhase, Round
  <2>3. Counting(k) => Listening(k, c, lo, d)' /\ OnTime(k)' /\ Flagged(k)'
    BY <1>3, <2>1, <2>2
  <2>4. BreakPhase(c, lo, d)'
    BY <1>0, <1>2, <1>5, <2>3, LocalBreak
  <2> QED BY <2>3, <2>4 DEF PhaseInv
<1>6. ASSUME NEW c \in Slots, NEW e \in Nat, FramePhase(c, e)
      PROVE  PhaseInv' /\ (Counting(k) => OnTime(k)' /\ Flagged(k)')
  <2>1. ~Counting(k)
    <3>1. SUFFICES ASSUME Counting(k) PROVE FALSE
      OBVIOUS
    <3>2. heard[k] # <<>> /\ Head(heard[k]).ev = "end"
      BY <1>0, StatusEndIs
    <3>3. Suspended(k, c, e)
      BY <1>0, <1>6, <3>1, FrameHolds DEF FramePhase
    <3>4. heard[k] = <<Event("break", e)>>
      BY <3>2, <3>3 DEF Suspended
    <3>5. Head(heard[k]) = Event("break", e)
      BY <3>4, OneEvent
    <3> QED BY <3>2, <3>5 DEF Event
  <2>2. FramePhase(c, e)'
    BY <1>0, <1>2, <1>6, <2>1, LocalFrame
  <2> QED BY <2>1, <2>2 DEF PhaseInv
<1>7. PhaseInv' /\ (Counting(k) => OnTime(k)' /\ Flagged(k)')
  BY <1>0, <1>4, <1>5, <1>6 DEF PhaseInv
<1>8. TimeInv' /\ CountInv' /\ FlagIsTrue'
  BY <1>0, <1>2, <1>7, LocalRest
<1> QED BY <1>0, <1>7, <1>8 DEF IInv

(* Only the servo of slot c drives the wire.                               *)
LEMMA TalkerIs ==
    ASSUME PhaseInv, NEW k \in Slots, wire[k].st # "off"
    PROVE  \/ \E lo \in Nat, d \in Nat : BreakPhase(k, lo, d)
           \/ \E e \in Nat : FramePhase(k, e)
<1>1. ASSUME NEW c \in 0 .. N, NEW lo \in Nat, NEW d \in Nat, QuietPhase(c, lo, d)
      PROVE  FALSE
  <2>1. k < c \/ k >= c
    BY Ticks
  <2> QED BY <1>1, <2>1 DEF QuietPhase, Round, Done, Unsent
<1>2. ASSUME NEW c \in 0 .. N, NEW lo \in Nat, NEW d \in Nat, BreakPhase(c, lo, d)
      PROVE  k = c
  <2>1. k < c \/ k = c \/ k > c
    BY Ticks
  <2> QED BY <1>2, <2>1 DEF BreakPhase, Round, Done, Unsent
<1>3. ASSUME NEW c \in Slots, NEW e \in Nat, FramePhase(c, e)
      PROVE  k = c
  <2>1. k < c \/ k = c \/ k > c
    BY Ticks
  <2> QED BY <1>3, <2>1 DEF FramePhase, Done, Unsent
<1> QED BY <1>1, <1>2, <1>3 DEF PhaseInv

(* The wire event of servo c reaches everybody behind it.                  *)
LEMMA WireStep ==
    ASSUME TypeOK, NEW c \in Slots, BreakEnds(c) \/ FrameEnds(c)
    PROVE  /\ \A o \in Slots : o # c => wire'[o] = wire[o]
           /\ \A o \in Slots : o # c => heard'[o] =
                 Append(heard[o], Event(IF BreakEnds(c) THEN "break" ELSE "end", now))
           /\ UNCHANGED <<now, health, chain, sent>>
           /\ now = wire[c].until
<1>1. ~(BreakEnds(c) /\ FrameEnds(c))
  BY DEF BreakEnds, FrameEnds
<1>2. wire \in [Slots -> WireSet]
  BY DEF TypeOK, WireSet
<1>3. CASE BreakEnds(c)
  <2>1. Tell(c, "break") /\ UNCHANGED <<now, health, chain, sent>> /\ now = wire[c].until
    BY <1>3 DEF BreakEnds
  <2>2. \A o \in Slots : o # c => wire'[o] = wire[o]
    BY <1>2, <1>3 DEF BreakEnds
  <2> QED BY <1>3, <2>1, <2>2 DEF Tell, Event
<1>4. CASE FrameEnds(c)
  <2>1. Tell(c, "end") /\ UNCHANGED <<now, health, chain, sent>> /\ now = wire[c].until
    BY <1>4 DEF FrameEnds
  <2>2. \A o \in Slots : o # c => wire'[o] = wire[o]
    BY <1>2, <1>4 DEF FrameEnds
  <2> QED BY <1>1, <1>4, <2>1, <2>2 DEF Tell, Event
<1> QED BY <1>3, <1>4

LEMMA AppendFirst == ASSUME NEW x PROVE Append(<<>>, x) = <<x>>
OBVIOUS

LEMMA AppendSecond == ASSUME NEW x, NEW y PROVE Append(<<x>>, y) = <<x, y>>
<1> DEFINE S == {x, y}
<1>1. <<x>> \in Seq(S) /\ Len(<<x>>) = 1 /\ y \in S
  OBVIOUS
<1>2. <<x, y>> \in Seq(S) /\ Len(<<x, y>>) = 2
  OBVIOUS
<1>3. /\ Append(<<x>>, y) \in Seq(S) /\ Len(Append(<<x>>, y)) = 1 + 1
      /\ \A i \in 1 .. 1 : Append(<<x>>, y)[i] = <<x>>[i]
      /\ Append(<<x>>, y)[1 + 1] = y
  BY <1>1, AppendProperties
<1>4. \A i \in 1 .. 2 : Append(<<x>>, y)[i] = <<x, y>>[i]
  BY <1>3
<1>5. Len(Append(<<x>>, y)) = 2
  BY <1>3
<1> HIDE DEF S
<1> QED BY <1>2, <1>3, <1>4, <1>5, SeqEqual

(* Everybody who waits behind a break has caught up when it ends.          *)
LEMMA BreakCaught ==
    ASSUME TypeOK, TimeInv, NEW c \in Slots, NEW lo \in Nat, NEW d \in Nat,
           BreakPhase(c, lo, d), BreakEnds(c), NEW o \in Slots, o > c, Counting(o)
    PROVE  /\ Awaits(o) = c /\ now + Latency < chain[o].at
           /\ heard'[o] = <<Event("break", now)>>
<1>1. /\ Listening(o, c, lo, d) /\ OnTime(o) /\ Latency <= d /\ d <= Skew(c)
      /\ c \in Nat /\ c \in 0 .. N /\ o # c
  BY Ticks DEF BreakPhase, TimeInv, Round
<1>2. Skew(c) \in Nat /\ Skew(c) < BreakLen /\ Skew(c) + Latency + BreakLen < Reclaim
  BY <1>1, SkewBounded, SkewGrows
<1>3. now \in Nat /\ chain[o].at \in Nat
  BY Fields
<1>4. lo + BreakLen <= now /\ now <= lo + d + BreakLen
  BY WireStep DEF BreakPhase
<1>5. ~(now <= lo + d)
  BY <1>1, <1>2, <1>3, <1>4, Ticks
<1>6. Synced(o, c, lo, d)
  BY <1>1, <1>5, Lateness
<1>7. Awaits(o) = c /\ heard[o] = <<>> /\ lo + Reclaim <= chain[o].at
  BY <1>1, <1>6 DEF Synced
<1>8. now + Latency < chain[o].at
  BY <1>1, <1>2, <1>3, <1>4, <1>7, Ticks
<1>9. heard'[o] = <<Event("break", now)>>
  BY <1>1, <1>7, WireStep, AppendFirst, AppendSecond
<1> QED BY <1>7, <1>8, <1>9

(* The parts of the invariant that a wire event can only disturb by being  *)
(* late.                                                                   *)
LEMMA WireRest ==
    ASSUME TypeOK, TimeInv, CountInv, FlagIsTrue, NEW c \in Slots,
           BreakEnds(c) \/ FrameEnds(c), ~Counting(c),
           \A j \in Slots : j < c => Done(j),
           \A o \in Slots : o > c /\ Counting(o) =>
               Head(heard'[o]).at \in Nat /\ now <= Head(heard'[o]).at + Latency,
           wire'[c].st # "off" => now <= wire'[c].until
    PROVE  TimeInv' /\ CountInv' /\ FlagIsTrue'
<1>1. /\ \A o \in Slots : o # c => wire'[o] = wire[o]
      /\ now' = now /\ health' = health /\ chain' = chain /\ sent' = sent
  BY WireStep
<1>2. ASSUME NEW o \in Slots
      PROVE  OnTime(o)' /\ Flagged(o)' /\ (wire'[o].st # "off" => now' <= wire'[o].until)
  <2>1. OnTime(o) /\ Flagged(o) /\ (wire[o].st # "off" => now <= wire[o].until)
    BY DEF TimeInv, CountInv
  <2>2. Counting(o) => o > c
    <3>1. Counting(o) => ~(o < c) /\ o # c
      BY DEF Done, Counting
    <3> QED BY <3>1, Ticks
  <2>3. OnTime(o)'
    BY <1>1, <2>1, <2>2 DEF OnTime, Counting
  <2>4. Flagged(o)'
    BY <1>1, <2>1 DEF Flagged, Counting, Awaits
  <2> QED BY <1>1, <2>1, <2>3, <2>4
<1>3. FlagIsTrue'
  BY <1>1 DEF FlagIsTrue
<1> QED BY <1>2, <1>3 DEF TimeInv, CountInv

(* The next round, once slot c has had its turn.                           *)
LEMMA NextRound ==
    ASSUME TypeOK, NEW c \in Slots, NEW lo \in Nat, NEW d \in Nat,
           BreakEnds(c) \/ FrameEnds(c),
           \A j \in Slots : j < c => Done(j),
           Talking(c), wire'[c].st = "off",
           Latency <= d, d <= Latency + Latency,
           \A o \in Slots : o > c => Unsent(o),
           \A o \in Slots : o > c /\ Counting(o) => Listening(o, c + 1, lo, d)'
    PROVE  PhaseInv'
<1>1. /\ \A o \in Slots : o # c => wire'[o] = wire[o]
      /\ now' = now /\ health' = health /\ chain' = chain /\ sent' = sent
  BY WireStep
<1>2. c \in Nat /\ c + 1 \in 0 .. N
  BY Ticks
<1>3. d <= Skew(c + 1)
  <2>1. Skew(c) \in Nat /\ Latency <= Skew(c) /\ Skew(c + 1) = Skew(c) + Latency
    BY <1>2, SkewGrows
  <2> QED BY <2>1, Ticks
<1>4. ASSUME NEW j \in Slots, j < c + 1 PROVE Done(j)'
  <2>1. CASE j = c
    BY <1>1, <2>1 DEF Talking, Done
  <2>2. CASE j # c
    <3>1. j < c
      BY <1>4, <2>2, Ticks
    <3> QED BY <1>1, <2>2, <3>1 DEF Done
  <2> QED BY <2>1, <2>2
<1>5. Round(c + 1, lo, d)'
  BY <1>2, <1>3, <1>4 DEF Round, Skew
<1>6. ASSUME NEW o \in Slots, o >= c + 1
      PROVE  Unsent(o)' /\ (Counting(o)' => Listening(o, c + 1, lo, d)')
  <2>1. o > c /\ o # c
    BY <1>6, Ticks
  <2> QED BY <1>1, <2>1 DEF Unsent, Counting
<1>7. QuietPhase(c + 1, lo, d)'
  BY <1>5, <1>6 DEF QuietPhase
<1> QED BY <1>2, <1>7 DEF PhaseInv

LEMMA BreakEndsInv == ASSUME IInv, NEW c \in Slots, BreakEnds(c) PROVE IInv'
<1>0. TypeOK /\ TypeOK' /\ TimeInv /\ CountInv /\ FlagIsTrue /\ PhaseInv
  BY TypeStep DEF IInv, Next, Step
<1>1. PICK lo \in Nat, d \in Nat : BreakPhase(c, lo, d)
  <2>1. wire[c].st = "break"
    BY DEF BreakEnds
  <2>2. \A e \in Nat : ~FramePhase(c, e)
    BY <2>1 DEF FramePhase
  <2> QED BY <1>0, <2>1, <2>2, TalkerIs
<1>2. /\ \A j \in Slots : j < c => Done(j)
      /\ Talking(c) /\ ~Counting(c)
      /\ \A o \in Slots : o > c => Unsent(o)
  BY <1>1 DEF BreakPhase, Round, Talking, Counting
<1>3. /\ \A o \in Slots : o # c => wire'[o] = wire[o]
      /\ now' = now /\ health' = health /\ chain' = chain /\ sent' = sent
  BY <1>0, WireStep
<1>4. \A o \in Slots : o > c /\ Counting(o) =>
          /\ Awaits(o) = c /\ now + Latency < chain[o].at
          /\ heard'[o] = <<Event("break", now)>>
  BY <1>0, <1>1, BreakCaught
<1>5. now \in Nat /\ c \in Nat /\ wire \in [Slots -> WireSet]
  BY <1>0, Fields DEF TypeOK, WireSet
<1>6. wire'[c] = IF health[c] = "wedged" THEN Quiet
                 ELSE [st |-> "frame", until |-> now + FrameLen]
  BY <1>5 DEF BreakEnds
<1>7. TimeInv' /\ CountInv' /\ FlagIsTrue'
  <2>1. ASSUME NEW o \in Slots, o > c, Counting(o)
        PROVE  Head(heard'[o]).at \in Nat /\ now <= Head(heard'[o]).at + Latency
    <3>1. Head(heard'[o]).at = now
      BY <1>4, <2>1, OneEvent DEF Event
    <3> QED BY <1>5, <3>1, Ticks
  <2>2. wire'[c].st # "off" => now <= wire'[c].until
    <3>1. CASE health[c] = "wedged"
      BY <1>6, <3>1 DEF Quiet
    <3>2. CASE health[c] # "wedged"
      <4>1. wire'[c].until = now + FrameLen
        BY <1>6, <3>2
      <4> QED BY <1>5, <4>1, Ticks
    <3> QED BY <3>1, <3>2
  <2> QED BY <1>0, <1>2, <2>1, <2>2, WireRest
<1>8. CASE health[c] = "wedged"
  <2>l. PICK l \in Nat : l = now + Allowance
    BY <1>5, Ticks
  <2>d. PICK d2 \in Nat : d2 = Latency + Latency
    BY Ticks
  <2>1. /\ Latency <= d2 /\ d2 <= Latency + Latency
        /\ c + 1 > 0 /\ c + 1 - 1 = c
    BY <1>5, <2>d, Ticks
  <2>2. ASSUME NEW o \in Slots, o > c, Counting(o)
        PROVE  Listening(o, c + 1, l, d2)'
    <3>0. PICK e \in Nat : e = now
      BY <1>5
    <3>1. /\ Awaits(o)' = c /\ e + Latency < chain'[o].at
          /\ heard'[o] = <<Event("break", e)>>
      BY <1>3, <1>4, <2>2, <3>0 DEF Awaits
    <3>2. Awaits(o)' = c + 1 - 1 /\ health'[c + 1 - 1] # "live"
      BY <1>3, <1>8, <2>1, <3>1
    <3>3. l = e + Allowance /\ Latency + Latency <= d2 /\ e <= now'
      BY <1>3, <2>l, <2>d, <3>0, Ticks
    <3>4. \E u \in Nat :
              /\ heard'[o] = <<Event("break", u)>>
              /\ u <= now' /\ l = u + Allowance /\ u + Latency < chain'[o].at
      BY <3>1, <3>3
    <3>5. c \in Nat /\ c + 1 > 0 /\ Latency + Latency <= d2
      BY <1>5, <2>1, <3>3
    <3>6. Wedging(o, c + 1, l, d2)'
      BY <3>2, <3>4, <3>5 DEF Wedging
    <3> QED BY <3>6 DEF Listening
  <2>3. wire'[c].st = "off"
    BY <1>6, <1>8 DEF Quiet
  <2>4. PhaseInv'
    BY <1>0, <1>2, <2>1, <2>2, <2>3, NextRound
  <2> QED BY <1>0, <1>7, <2>4 DEF IInv
<1>9. CASE health[c] # "wedged"
  <2>1. health[c] = "live"
    BY <1>0, <1>2, <1>9, Fields DEF Talking
  <2>2. ASSUME NEW o \in Slots, o > c
        PROVE  Unsent(o)' /\ (Counting(o)' => Suspended(o, c, now)')
    <3>1. o # c
      BY <2>2, Ticks
    <3>2. Unsent(o)' /\ (Counting(o)' <=> Counting(o))
      BY <1>2, <1>3, <2>2, <3>1 DEF Unsent, Counting
    <3>3. Counting(o) => /\ Awaits(o)' = c /\ now' + Latency < chain'[o].at
                         /\ heard'[o] = <<Event("break", now')>>
      BY <1>3, <1>4, <2>2 DEF Awaits
    <3>4. Counting(o) => Suspended(o, c, now)'
      BY <3>3 DEF Suspended
    <3> QED BY <3>2, <3>4
  <2>3. \A j \in Slots : j < c => Done(j)'
    <3>1. \A j \in Slots : j < c => j # c
      BY Ticks
    <3> QED BY <1>2, <1>3, <3>1 DEF Done
  <2>4. Talking(c)' /\ health'[c] = "live"
        /\ wire'[c] = [st |-> "frame", until |-> now' + FrameLen]
    BY <1>2, <1>3, <1>6, <1>9, <2>1 DEF Talking
  <2>5. now' \in Nat /\ now' <= now'
    BY <1>3, <1>5
  <2>6. FramePhase(c, now)'
    BY <2>2, <2>3, <2>4, <2>5 DEF FramePhase
  <2>7. PhaseInv'
    BY <2>5, <2>6 DEF PhaseInv
  <2> QED BY <1>0, <1>7, <2>7 DEF IInv
<1> QED BY <1>8, <1>9

LEMMA FrameEndsInv == ASSUME IInv, NEW c \in Slots, FrameEnds(c) PROVE IInv'
<1>0. TypeOK /\ TypeOK' /\ TimeInv /\ CountInv /\ FlagIsTrue /\ PhaseInv
  BY TypeStep DEF IInv, Next, Step
<1>1. PICK e \in Nat : FramePhase(c, e)
  <2>1. wire[c].st = "frame"
    BY DEF FrameEnds
  <2>2. \A lo \in Nat, d \in Nat : ~BreakPhase(c, lo, d)
    BY <2>1 DEF BreakPhase
  <2> QED BY <1>0, <2>1, <2>2, TalkerIs
<1>2. /\ \A j \in Slots : j < c => Done(j)
      /\ Talking(c) /\ ~Counting(c) /\ health[c] = "live"
      /\ \A o \in Slots : o > c => Unsent(o)
      /\ \A o \in Slots : o > c /\ Counting(o) => Suspended(o, c, e)
      /\ wire[c].until = e + FrameLen /\ e <= now
  BY <1>1 DEF FramePhase, Talking, Counting
<1>3. /\ now' = now /\ health' = health /\ chain' = chain /\ sent' = sent
      /\ now = e + FrameLen
      /\ \A o \in Slots : o # c => heard'[o] = Append(heard[o], Event("end", now))
  <2>1. ~BreakEnds(c)
    BY DEF BreakEnds, FrameEnds
  <2> QED BY <1>0, <1>2, <2>1, WireStep
<1>4. now \in Nat /\ c \in Nat /\ wire'[c].st = "off"
  <2>1. wire \in [Slots -> WireSet]
    BY <1>0 DEF TypeOK, WireSet
  <2> QED BY <1>0, <2>1, Fields DEF FrameEnds, Quiet
<1>5. ASSUME NEW o \in Slots, o > c, Counting(o)
      PROVE  /\ Awaits(o) = c
             /\ \/ heard'[o] = <<Event("end", now)>> /\ now + Latency < chain[o].at
                \/ /\ heard[o] = <<Event("break", e)>>
                   /\ heard'[o] = <<Event("break", e), Event("end", now)>>
                   /\ e + Latency < chain[o].at
  <2>1. Suspended(o, c, e) /\ o # c
    BY <1>2, <1>5, Ticks
  <2>2. heard'[o] = Append(heard[o], Event("end", now))
    BY <1>3, <2>1
  <2>3. CASE heard[o] = <<Event("break", e)>> /\ e + Latency < chain[o].at
    BY <2>1, <2>2, <2>3, AppendFirst, AppendSecond DEF Suspended
  <2>4. CASE heard[o] = <<>> /\ e + FrameLen + Latency < chain[o].at
    BY <1>3, <2>1, <2>2, <2>4, AppendFirst, AppendSecond DEF Suspended
  <2> QED BY <2>1, <2>3, <2>4 DEF Suspended
<1>6. TimeInv' /\ CountInv' /\ FlagIsTrue'
  <2>1. ASSUME NEW o \in Slots, o > c, Counting(o)
        PROVE  Head(heard'[o]).at \in Nat /\ now <= Head(heard'[o]).at + Latency
    <3>1. CASE heard'[o] = <<Event("end", now)>>
      <4>1. Head(heard'[o]).at = now
        BY <3>1, OneEvent DEF Event
      <4> QED BY <1>4, <4>1, Ticks
    <3>2. CASE /\ heard[o] = <<Event("break", e)>>
               /\ heard'[o] = <<Event("break", e), Event("end", now)>>
      <4>1. heard[o] # <<>> /\ Head(heard[o]).at = e /\ Head(heard'[o]).at = e
        BY <3>2, OneEvent, TwoEvents DEF Event
      <4> QED BY <1>0, <2>1, <4>1 DEF TimeInv, OnTime
    <3> QED BY <1>5, <2>1, <3>1, <3>2
  <2> QED BY <1>0, <1>2, <1>4, <2>1, WireRest
<1>l. PICK l \in Nat : l = now + ReplyGap
  BY <1>4, Ticks
<1>7. /\ Latency <= Latency + Latency /\ c + 1 > 0 /\ c + 1 - 1 = c
      /\ Latency + Latency <= Latency + Latency /\ Latency + Latency \in Nat
      /\ Latency + Latency <= Skew(c + 1)
  BY <1>4, SkewGrows, Ticks
<1>8. ASSUME NEW o \in Slots, o > c, Counting(o)
      PROVE  Listening(o, c + 1, l, Latency + Latency)'
  <2>1. Awaits(o)' = c + 1 - 1 /\ health'[c + 1 - 1] = "live"
    BY <1>2, <1>3, <1>5, <1>7, <1>8 DEF Awaits
  <2>3. e <= now /\ e <= now' /\ now <= now' /\ now + Latency < e + Allowance
    BY <1>2, <1>3, <1>4, Ticks
  <2>4. \/ heard'[o] = <<Event("end", now)>> /\ now + Latency < chain'[o].at
        \/ /\ heard'[o] = <<Event("break", e), Event("end", now)>>
           /\ e <= now' /\ e <= now /\ now + Latency < e + Allowance
           /\ e + Latency < chain'[o].at
    BY <1>3, <1>5, <1>8, <2>3
  <2>5. Ending(o, c + 1, l, Latency + Latency)'
    BY <1>4, <1>7, <1>l, <2>1, <2>3, <2>4 DEF Ending
  <2> QED BY <2>5 DEF Listening
<1>9. PhaseInv'
  BY <1>0, <1>2, <1>4, <1>7, <1>8, NextRound
<1> QED BY <1>0, <1>6, <1>9 DEF IInv

-----------------------------------------------------------------------------
(* The theorems.                                                           *)

LEMMA Inductive == ASSUME IInv, [Next]_vars PROVE IInv'
BY TickInv, TriggerInv, ReclaimInv, BreakEndsInv, FrameEndsInv, BreakObservedInv,
   StatusEndInv, StutterInv DEF Next, Step

LEMMA Invariance == Spec => []IInv
<1>1. Init => IInv
  BY InitInv
<1>2. IInv /\ [Next]_vars => IInv'
  BY Inductive
<1> QED BY <1>1, <1>2, PTL DEF Spec

(* The chain state machine, the wire and the queues keep their types: a    *)
(* servo that waits always has a predecessor to count, so remaining never  *)
(* underflows.                                                             *)
THEOREM TypeCorrect == Spec => []TypeOK
<1>1. IInv => TypeOK
  BY DEF IInv
<1> QED BY <1>1, Invariance, PTL

(* No two servos ever drive the wire at the same time, however long the    *)
(* list and whoever is dead or stops after its break.                      *)
THEOREM NoCollision == Spec => []OneTalker
<1>1. ASSUME IInv PROVE OneTalker
  <2>1. SUFFICES ASSUME NEW j \in Slots, NEW k \in Slots,
                        wire[j].st # "off", wire[k].st # "off"
                 PROVE  j = k
    BY DEF OneTalker
  <2>2. PhaseInv
    BY <1>1 DEF IInv
  <2>3. j < k \/ k < j \/ j = k
    BY Ticks
  <2>4. ASSUME NEW a \in Slots, NEW b \in Slots, a < b,
               wire[a].st # "off", wire[b].st # "off"
        PROVE  FALSE
    BY <2>2, <2>4, TalkerIs DEF BreakPhase, FramePhase, Round, Done
  <2> QED BY <2>1, <2>3, <2>4
<1> QED BY <1>1, Invariance, PTL

(* A reply is flagged predecessor-silent exactly if some predecessor did   *)
(* not deliver its frame.                                                  *)
THEOREM FlagTrue == Spec => []FlagIsTrue
<1>1. IInv => FlagIsTrue
  BY DEF IInv
<1> QED BY <1>1, Invariance, PTL

(* Replies leave in list order: a reclaimed slot never overtakes a servo   *)
(* that answers.                                                           *)
THEOREM InOrder == Spec => []ListOrder
<1>1. ASSUME IInv PROVE ListOrder
  <2>1. SUFFICES ASSUME NEW j \in Slots, NEW k \in Slots, j < k,
                        health[j] # "dead", sent[k] # "none"
                 PROVE  sent[j] # "none"
    BY DEF ListOrder
  <2>2. PhaseInv
    BY <1>1 DEF IInv
  <2>3. ASSUME NEW c \in 0 .. N, NEW lo \in Nat, NEW d \in Nat, QuietPhase(c, lo, d)
        PROVE  sent[j] # "none"
    <3>1. k < c
      <4>1. ~(k >= c)
        BY <2>1, <2>3 DEF QuietPhase, Unsent
      <4> QED BY <4>1, Ticks
    <3>2. j < c
      BY <2>1, <3>1, Ticks
    <3> QED BY <2>1, <2>3, <3>2 DEF QuietPhase, Round, Done
  <2>4. ASSUME NEW c \in 0 .. N, NEW lo \in Nat, NEW d \in Nat, BreakPhase(c, lo, d)
        PROVE  sent[j] # "none"
    <3>1. ~(k > c)
      BY <2>1, <2>4 DEF BreakPhase, Unsent
    <3>2. j < c
      BY <2>1, <3>1, Ticks
    <3> QED BY <2>1, <2>4, <3>2 DEF BreakPhase, Round, Done
  <2>5. ASSUME NEW c \in Slots, NEW e \in Nat, FramePhase(c, e)
        PROVE  sent[j] # "none"
    <3>1. ~(k > c)
      BY <2>1, <2>5 DEF FramePhase, Unsent
    <3>2. j < c
      BY <2>1, <3>1, Ticks
    <3> QED BY <2>1, <2>5, <3>2 DEF FramePhase, Done
  <2> QED BY <2>2, <2>3, <2>4, <2>5 DEF PhaseInv
<1> QED BY <1>1, Invariance, PTL

-----------------------------------------------------------------------------
(***************************************************************************)
(* The framer.  What the ladder counts is what has arrived behind it, byte *)
(* for byte (RingTruth), as long as the resolver is less than a lap behind; *)
(* so a header read at the ladder is the header in the stream, and a good  *)
(* frame under the ladder is read as itself: it cannot be scanned off,     *)
(* starve or fail.  That the ladder never passes the beginning of a frame  *)
(* then rests on how far each step moves it: one byte, a whole frame that  *)
(* was sent, or a status, which by assumption ends before the next begins. *)
(***************************************************************************)

FramerAssumptions == RingAssumption /\ FramesAssumption /\ StreamAssumption

(* Each frame of the session lies in it whole, and neither the beginning   *)
(* of another nor a silence lies inside it.                                *)
Laid ==
    /\ stream \in Seq(0 .. 255) /\ starts \subseteq 0 .. Len(stream) - 1
    /\ gaps \subseteq Nat /\ CleanStream(stream, starts)
    /\ \A s \in starts : \E f \in GoodFrames :
          Occurs(f, stream, s) /\ \A t \in starts \cup gaps : t <= s \/ t >= s + Len(f)

FramerInv == FramerTypeOK /\ Laid /\ RingTruth /\ NoPhantoms /\ NothingSkipped

LEMMA WrapIs ==
    ASSUME RingAssumption, NEW x \in 0 .. RingLen + RingLen - 1
    PROVE  ring_wrap(x) = IF x < RingLen THEN x ELSE x - RingLen
<1>1. \A n \in Nat \ {0} : \A m \in 0 .. n - 1 : m % n = m /\ (m + n) % n = m
  OBVIOUS
<1>2. RingLen \in Nat \ {0}
  BY DEF RingAssumption, HeaderSize
<1>3. CASE x < RingLen
  BY <1>1, <1>2, <1>3 DEF ring_wrap
<1>4. CASE x >= RingLen
  <2>1. x - RingLen \in 0 .. RingLen - 1 /\ x = (x - RingLen) + RingLen
    BY <1>2, <1>4
  <2> QED BY <1>1, <1>2, <1>4, <2>1 DEF ring_wrap
<1> QED BY <1>2, <1>3, <1>4

(* The distance of two places of the ring, and the place at a distance.    *)
LEMMA DistIs ==
    ASSUME RingAssumption, NEW c \in 0 .. RingLen - 1, NEW a \in 0 .. RingLen - 1
    PROVE  /\ dist(c, a) = IF a <= c THEN c - a ELSE c + RingLen - a
           /\ dist(c, a) \in 0 .. RingLen - 1
<1>1. RingLen \in Nat /\ (c + RingLen) - a \in 0 .. RingLen + RingLen - 1
  BY DEF RingAssumption
<1> QED BY <1>1, WrapIs DEF dist

LEMMA PlaceIs ==
    ASSUME RingAssumption, NEW a \in 0 .. RingLen - 1, NEW i \in 0 .. RingLen - 1
    PROVE  /\ ring_wrap(a + i) \in 0 .. RingLen - 1
           /\ ring_wrap(a + i) = IF a + i < RingLen THEN a + i ELSE a + i - RingLen
<1>1. RingLen \in Nat /\ a + i \in 0 .. RingLen + RingLen - 1
  BY DEF RingAssumption
<1> QED BY <1>1, WrapIs

-----------------------------------------------------------------------------
(* The ring                                                                *)

(* The ladder moves over n bytes that have arrived.                        *)
LEMMA AdvanceKeeps ==
    ASSUME RingAssumption, FramerTypeOK, RingTruth, NEW n \in 1 .. received, Advance(n),
           UNCHANGED line
    PROVE  /\ RingTruth' /\ anchor' \in 0 .. RingLen - 1 /\ pos' \in 0 .. arrived
           /\ pos' = pos + n
<1>1. /\ RingLen \in Nat /\ cursor \in 0 .. RingLen - 1 /\ anchor \in 0 .. RingLen - 1
      /\ pos \in Nat /\ arrived \in Nat /\ received = arrived - pos
  BY DEF RingAssumption, FramerTypeOK, RingTruth
<1>2. /\ received \in 0 .. RingLen - 1
      /\ received = IF anchor <= cursor THEN cursor - anchor ELSE cursor + RingLen - anchor
  BY <1>1, DistIs DEF received
<1>3. /\ anchor' \in 0 .. RingLen - 1
      /\ anchor' = IF anchor + n < RingLen THEN anchor + n ELSE anchor + n - RingLen
  <2>1. n \in 0 .. RingLen - 1
    BY <1>1, <1>2
  <2> QED BY <2>1, <1>1, PlaceIs DEF Advance
<1>4. pos' = pos + n /\ pos' \in 0 .. arrived
  BY <1>1, <1>2 DEF Advance
<1>5. received' = received - n
  <2>1. received' = IF anchor' <= cursor THEN cursor - anchor' ELSE cursor + RingLen - anchor'
    BY <1>1, <1>3, DistIs DEF received, line
  <2> QED BY <2>1, <1>1, <1>2, <1>3
<1>6. received' = arrived' - pos'
  BY <1>1, <1>4, <1>5 DEF line
<1>7. ASSUME NEW i \in 1 .. received' PROVE At(i - 1)' = stream'[pos' + i]
  <2>1. n + i \in 1 .. received /\ i - 1 \in 0 .. RingLen - 1 /\ n + i - 1 \in 0 .. RingLen - 1
    BY <1>1, <1>2, <1>5, <1>7
  <2>2. ring_wrap(anchor' + (i - 1)) = ring_wrap(anchor + (n + i - 1))
    <3>1. ring_wrap(anchor' + (i - 1)) = IF anchor' + (i - 1) < RingLen THEN anchor' + (i - 1)
                                         ELSE anchor' + (i - 1) - RingLen
      BY <1>3, <2>1, PlaceIs
    <3>2. ring_wrap(anchor + (n + i - 1)) = IF anchor + (n + i - 1) < RingLen
             THEN anchor + (n + i - 1) ELSE anchor + (n + i - 1) - RingLen
      BY <1>1, <2>1, PlaceIs
    <3> QED BY <1>1, <1>2, <1>3, <2>1, <3>1, <3>2
  <2>3. At(n + i - 1) = stream[pos + (n + i)]
    BY <2>1 DEF RingTruth
  <2>4. At(i - 1)' = ring[ring_wrap(anchor' + (i - 1))]
    BY DEF At, ring_wrap, line
  <2>5. At(i - 1)' = At(n + i - 1)
    BY <2>2, <2>4 DEF At
  <2>6. pos + (n + i) = pos' + i
    BY <1>1, <1>4
  <2> QED BY <2>3, <2>5, <2>6 DEF line
<1> QED BY <1>3, <1>4, <1>6, <1>7 DEF RingTruth

LEMMA ArriveKeeps ==
    ASSUME RingAssumption, FramerTypeOK, RingTruth, stream \in Seq(0 .. 255), Arrive
    PROVE  FramerTypeOK' /\ RingTruth'
<1>1. /\ RingLen \in Nat /\ cursor \in 0 .. RingLen - 1 /\ anchor \in 0 .. RingLen - 1
      /\ RingLen > 1
      /\ pos \in Nat /\ arrived \in Nat /\ received = arrived - pos /\ pos <= arrived
      /\ arrived < Len(stream) /\ arrived - pos < RingLen - 1
      /\ ring \in [0 .. RingLen - 1 -> 0 .. 255]
  BY DEF RingAssumption, FramerTypeOK, RingTruth, Arrive, HeaderSize
<1>2. /\ received \in 0 .. RingLen - 1
      /\ received = IF anchor <= cursor THEN cursor - anchor ELSE cursor + RingLen - anchor
  BY <1>1, DistIs DEF received
<1>3. /\ cursor' \in 0 .. RingLen - 1
      /\ cursor' = IF cursor + 1 < RingLen THEN cursor + 1 ELSE cursor + 1 - RingLen
  <2>1. 1 \in 0 .. RingLen - 1
    BY <1>1
  <2> QED BY <1>1, <2>1, PlaceIs DEF Arrive
<1>4. received' = received + 1
  <2>1. received' = IF anchor <= cursor' THEN cursor' - anchor ELSE cursor' + RingLen - anchor
    BY <1>1, <1>3, DistIs DEF received, Arrive
  <2> QED BY <1>1, <1>2, <1>3, <2>1
<1>5. Len(stream) \in Nat /\ arrived + 1 \in 1 .. Len(stream)
      /\ stream[arrived + 1] \in 0 .. 255
  <2>1. Len(stream) \in Nat
    BY LenProperties
  <2>2. arrived + 1 \in 1 .. Len(stream)
    BY <1>1, <2>1
  <2> QED BY <2>1, <2>2, ElementOfSeq
<1>6. FramerTypeOK'
  <2>1. ring' \in [0 .. RingLen - 1 -> 0 .. 255]
    BY <1>1, <1>5 DEF Arrive
  <2>2. pos' \in 0 .. arrived' /\ arrived' \in 0 .. Len(stream)'
    BY <1>1, <1>5 DEF Arrive
  <2> QED BY <1>1, <1>3, <2>1, <2>2 DEF FramerTypeOK, Arrive
<1>7. received' = arrived' - pos'
  BY <1>1, <1>4 DEF Arrive
<1>8. ASSUME NEW i \in 1 .. received' PROVE At(i - 1)' = stream'[pos' + i]
  <2>1. i - 1 \in 0 .. RingLen - 1 /\ i \in Nat
    BY <1>1, <1>2, <1>4, <1>8
  <2>2. /\ ring_wrap(anchor + (i - 1)) \in 0 .. RingLen - 1
        /\ ring_wrap(anchor + (i - 1)) = IF anchor + (i - 1) < RingLen THEN anchor + (i - 1)
                                         ELSE anchor + (i - 1) - RingLen
    BY <1>1, <2>1, PlaceIs
  <2>3. At(i - 1)' = ring'[ring_wrap(anchor + (i - 1))]
    BY DEF At, ring_wrap, Arrive
  <2>4. CASE i = received + 1
    <3>1. ring_wrap(anchor + (i - 1)) = cursor
      BY <1>1, <1>2, <2>2, <2>4
    <3>2. ring'[cursor] = stream[arrived + 1]
      BY <1>1 DEF Arrive
    <3>3. arrived + 1 = pos + i
      BY <1>1, <2>4
    <3> QED BY <2>3, <3>1, <3>2, <3>3 DEF Arrive
  <2>5. CASE i \in 1 .. received
    <3>1. ring_wrap(anchor + (i - 1)) # cursor
      BY <1>1, <1>2, <2>2, <2>5
    <3>2. ring'[ring_wrap(anchor + (i - 1))] = At(i - 1)
      BY <1>1, <2>2, <3>1 DEF Arrive, At
    <3> QED BY <2>3, <2>5, <3>2 DEF Arrive, RingTruth
  <2> QED BY <1>2, <1>4, <2>4, <2>5
<1> QED BY <1>6, <1>7, <1>8 DEF RingTruth

-----------------------------------------------------------------------------
(* The ladder                                                              *)

LEMMA ByteIs ==
    ASSUME FramerInv, NEW i \in 1 .. received
    PROVE  /\ At(i - 1) = stream[pos + i] /\ At(i - 1) \in 0 .. 255
           /\ pos + i \in 1 .. Len(stream) /\ pos + received <= Len(stream)
           /\ pos \in 0 .. Len(stream) - 1 /\ Len(stream) \in Nat
<1>1. /\ received = arrived - pos /\ At(i - 1) = stream[pos + i]
      /\ pos \in Nat /\ pos <= arrived /\ arrived \in Nat /\ arrived <= Len(stream)
      /\ stream \in Seq(0 .. 255)
  BY DEF FramerInv, RingTruth, FramerTypeOK, Laid
<1>2. Len(stream) \in Nat
  BY <1>1, LenProperties
<1>3. pos + i \in 1 .. Len(stream)
  BY <1>1, <1>2
<1>4. stream[pos + i] \in 0 .. 255
  BY <1>1, <1>3, ElementOfSeq
<1>5. pos + received <= Len(stream) /\ pos \in 0 .. Len(stream) - 1
  <2>1. pos + received = arrived /\ pos + 1 <= pos + i /\ pos + i <= Len(stream)
    BY <1>1, <1>3
  <2> QED BY <1>1, <1>2, <2>1
<1> QED BY <1>1, <1>2, <1>3, <1>4, <1>5

LEMMA HeaderIs ==
    ASSUME FramerInv, received >= HeaderSize
    PROVE  /\ At(0) = stream[pos + 1] /\ At(2) = stream[pos + 3] /\ At(3) = stream[pos + 4]
           /\ footprint = stream[pos + 3] + 3 /\ footprint \in Nat \ {0}
           /\ pos + HeaderSize <= Len(stream) /\ pos + received <= Len(stream)
           /\ pos \in 0 .. Len(stream) - 1 /\ received \in Nat
<1>1. received \in Nat
  BY DEF FramerInv, FramerTypeOK, RingTruth
<1>2. 1 \in 1 .. received /\ 3 \in 1 .. received /\ 4 \in 1 .. received
  BY <1>1 DEF HeaderSize
<1>3. /\ At(1 - 1) = stream[pos + 1] /\ At(3 - 1) = stream[pos + 3] /\ At(3 - 1) \in 0 .. 255
      /\ At(4 - 1) = stream[pos + 4] /\ pos + received <= Len(stream)
      /\ pos \in 0 .. Len(stream) - 1 /\ Len(stream) \in Nat
  BY <1>2, ByteIs
<1>4. 1 - 1 = 0 /\ 3 - 1 = 2 /\ 4 - 1 = 3
  OBVIOUS
<1>5. At(0) = stream[pos + 1] /\ At(2) = stream[pos + 3] /\ At(3) = stream[pos + 4]
  BY <1>3, <1>4
<1>6. footprint = stream[pos + 3] + 3 /\ footprint \in Nat \ {0}
  <2>1. stream[pos + 3] \in 0 .. 255
    BY <1>3, <1>4
  <2> QED BY <1>5, <2>1 DEF footprint
<1>7. pos + 4 <= Len(stream)
  BY <1>1, <1>3 DEF HeaderSize
<1> QED BY <1>1, <1>3, <1>5, <1>6, <1>7 DEF HeaderSize

(* At the beginning of a frame the candidate is that frame.                *)
LEMMA AtFrame ==
    ASSUME FramerAssumptions, FramerInv, pos \in starts, received > 0
    PROVE  /\ Plausible
           /\ received >= HeaderSize => ~is_status
           /\ \A q \in gaps : arrived # q \/ Whole
           /\ Whole => CrcPasses /\ \A t \in starts : t <= pos \/ t >= pos + footprint
<1>1. PICK f \in GoodFrames : Occurs(f, stream, pos)
                              /\ \A t \in starts \cup gaps : t <= pos \/ t >= pos + Len(f)
  BY DEF FramerInv, Laid
<1>2. /\ f \in Seq(0 .. 255) /\ f[1] = 0 /\ f[3] >= 3 /\ f[4] < 128
      /\ Len(f) = f[3] + 3 /\ Len(f) >= 4
  BY DEF FramerAssumptions, FramesAssumption, MinLen, HeaderSize
<1>3. /\ received \in Nat /\ received = arrived - pos /\ pos \in Nat /\ arrived \in Nat
      /\ Len(f) \in Nat
  BY <1>2, LenProperties DEF FramerInv, FramerTypeOK, RingTruth
<1>4. f[3] \in 0 .. 255
  <2>1. 3 \in 1 .. Len(f)
    BY <1>2, <1>3
  <2> QED BY <1>2, <2>1, ElementOfSeq
<1>5. ASSUME NEW i \in 1 .. received, i <= Len(f) PROVE At(i - 1) = f[i]
  <2>1. At(i - 1) = stream[pos + i]
    BY ByteIs
  <2>2. i \in 1 .. Len(f)
    BY <1>3, <1>5
  <2> QED BY <1>1, <2>1, <2>2 DEF Occurs
<1>6. At(0) = 0
  <2>1. 1 \in 1 .. received /\ 1 <= Len(f) /\ 1 - 1 = 0
    BY <1>2, <1>3
  <2> QED BY <1>2, <1>5, <2>1
<1>7. ASSUME received >= 4 PROVE At(2) = f[3] /\ At(3) = f[4] /\ footprint = Len(f)
  <2>1. /\ 3 \in 1 .. received /\ 3 <= Len(f) /\ 3 - 1 = 2
        /\ 4 \in 1 .. received /\ 4 <= Len(f) /\ 4 - 1 = 3
    BY <1>2, <1>3, <1>7
  <2>2. At(2) = f[3] /\ At(3) = f[4]
    BY <1>5, <2>1
  <2> QED BY <1>2, <2>2 DEF footprint
<1>8. Plausible
  <2>1. CASE received < 4
    BY <1>6, <2>1 DEF Plausible, HeaderSize
  <2>2. CASE received >= 4
    BY <1>2, <1>6, <1>7, <2>2 DEF Plausible, MinLen
  <2> QED BY <1>3, <2>1, <2>2
<1>9. ASSUME received >= 4 PROVE ~is_status
  <2>1. f[4] \in 0 .. 255
    <3>1. 4 \in 1 .. Len(f)
      BY <1>2, <1>3
    <3> QED BY <1>2, <3>1, ElementOfSeq
  <2>2. At(3) = f[4]
    BY <1>7, <1>9
  <2>3. ~(f[4] >= 128)
    <3>1. \A v \in 0 .. 255 : v < 128 => ~(v >= 128)
      OBVIOUS
    <3> QED BY <1>2, <2>1, <3>1
  <2> QED BY <2>2, <2>3 DEF is_status
<1>10. ASSUME NEW q \in gaps, arrived = q PROVE Whole
  <2>1. received >= Len(f)
    BY <1>1, <1>3, <1>10
  <2>2. received >= 4
    BY <1>2, <1>3, <2>1
  <2> QED BY <1>7, <1>8, <2>1, <2>2 DEF Whole, HeaderIn, HeaderSize
<1>11. ASSUME Whole PROVE CrcPasses /\ \A t \in starts : t <= pos \/ t >= pos + footprint
  <2>1. received >= 4 /\ received >= footprint
    BY <1>11 DEF Whole, HeaderIn, HeaderSize
  <2>2. footprint = Len(f)
    BY <1>7, <2>1
  <2>3. \A i \in 1 .. Len(f) : At(i - 1) = f[i]
    BY <1>3, <1>5, <2>1, <2>2
  <2> QED BY <1>1, <2>2, <2>3 DEF CrcPasses
<1> QED BY <1>8, <1>9, <1>10, <1>11 DEF HeaderSize

(* The ladder moves on: what it passes is junk or has been verified.       *)
LEMMA MoveInv ==
    ASSUME FramerAssumptions, FramerInv, NEW n \in 1 .. received, Advance(n), UNCHANGED line,
           hunting' \in BOOLEAN, verified' \subseteq starts, verified \subseteq verified',
           pos \in starts => pos \in verified',
           \A s \in starts : s <= pos \/ s >= pos + n
    PROVE  FramerInv'
<1>1. /\ RingTruth' /\ anchor' \in 0 .. RingLen - 1 /\ pos' \in 0 .. arrived /\ pos' = pos + n
  BY AdvanceKeeps DEF FramerInv, FramerAssumptions
<1>2. /\ Laid' /\ starts' = starts /\ starts \subseteq 0 .. Len(stream)
      /\ pos \in Nat /\ received \in Nat
  <2>1. UNCHANGED <<stream, starts, gaps>> /\ stream \in Seq(0 .. 255)
    BY DEF line, FramerInv, Laid
  <2>2. Len(stream) \in Nat
    BY <2>1, LenProperties
  <2>3. Laid'
    BY <2>1 DEF FramerInv, Laid, CleanStream, Occurs, ReadsStatus
  <2> QED BY <2>1, <2>2, <2>3 DEF FramerInv, Laid, FramerTypeOK, RingTruth
<1>3. FramerTypeOK'
  BY <1>1, <1>2 DEF FramerInv, FramerTypeOK, line, Advance
<1>4. NothingSkipped'
  <2>1. ASSUME NEW s \in starts, s < pos + n PROVE s \in verified'
    <3>1. s \in Nat
      BY <1>2
    <3>2. s < pos \/ s = pos
      BY <1>2, <2>1, <3>1
    <3> QED BY <3>2 DEF FramerInv, NothingSkipped
  <2> QED BY <1>1, <1>2, <2>1 DEF NothingSkipped
<1> QED BY <1>1, <1>2, <1>3, <1>4 DEF FramerInv, NoPhantoms

LEMMA OneOn ==
    ASSUME FramerInv, received > 0
    PROVE  1 \in 1 .. received /\ \A s \in starts : s <= pos \/ s >= pos + 1
<1>1. received \in Nat /\ pos \in Nat /\ starts \subseteq Nat
  <2>1. stream \in Seq(0 .. 255) /\ starts \subseteq 0 .. Len(stream) - 1
    BY DEF FramerInv, Laid
  <2>2. Len(stream) \in Nat
    BY <2>1, LenProperties
  <2> QED BY <2>1, <2>2 DEF FramerInv, FramerTypeOK, RingTruth
<1> QED BY <1>1

LEMMA GivenUp ==
    ASSUME FramerAssumptions, FramerInv, Hunt \/ RejectedFrame \/ GiveUp PROVE FramerInv'
<1>1. received > 0 /\ Advance(1) /\ hunting' = TRUE /\ UNCHANGED <<line, verified>>
  <2>1. Whole => received > 0
    BY HeaderIs DEF Whole, HeaderIn, HeaderSize
  <2> QED BY <2>1 DEF Hunt, RejectedFrame, GiveUp
<1>2. pos \notin starts
  <2>1. SUFFICES ASSUME pos \in starts PROVE FALSE
    OBVIOUS
  <2>2. /\ Plausible /\ \A q \in gaps : arrived # q \/ Whole
        /\ Whole => CrcPasses
    BY <1>1, <2>1, AtFrame
  <2> QED BY <2>2 DEF Hunt, RejectedFrame, GiveUp
<1>3. verified \subseteq starts /\ verified' = verified
  BY <1>1 DEF FramerInv, NoPhantoms
<1> QED BY <1>1, <1>2, <1>3, OneOn, MoveInv

LEMMA WholeIs ==
    ASSUME FramerInv, Whole
    PROVE  /\ footprint \in 1 .. received /\ received >= HeaderSize
           /\ pos + footprint <= Len(stream) /\ pos \in 0 .. Len(stream) - 1
<1>1. received >= HeaderSize /\ received >= footprint
  BY DEF Whole, HeaderIn
<1>2. /\ footprint \in Nat \ {0} /\ pos + received <= Len(stream) /\ received \in Nat
      /\ pos \in 0 .. Len(stream) - 1
  BY <1>1, HeaderIs
<1>3. Len(stream) \in Nat
  BY LenProperties DEF FramerInv, Laid
<1> QED BY <1>1, <1>2, <1>3

LEMMA Counted == ASSUME FramerAssumptions, FramerInv, StatusFrame PROVE FramerInv'
<1>1. Whole /\ is_status /\ Advance(footprint) /\ UNCHANGED <<line, hunting, verified>>
  BY DEF StatusFrame
<1>2. /\ footprint \in 1 .. received /\ received >= HeaderSize
      /\ pos + footprint <= Len(stream) /\ pos \in 0 .. Len(stream) - 1
  BY <1>1, WholeIs
<1>3. /\ At(0) = stream[pos + 1] /\ At(2) = stream[pos + 3] /\ At(3) = stream[pos + 4]
      /\ footprint = stream[pos + 3] + 3 /\ pos + HeaderSize <= Len(stream)
      /\ received \in Nat
  BY <1>2, HeaderIs
<1>4. received > 0
  BY <1>2, <1>3
<1>5. pos \notin starts
  BY <1>1, <1>2, <1>4, AtFrame
<1>6. ReadsStatus(stream, pos)
  <2>1. At(0) = 0 /\ At(2) >= MinLen /\ At(3) >= 128
    <3>1. Plausible /\ ~(received < HeaderSize)
      BY <1>1, <1>2, <1>3 DEF Whole, HeaderIn, HeaderSize
    <3> QED BY <1>1, <3>1 DEF Plausible, is_status
  <2> QED BY <1>3, <2>1 DEF ReadsStatus
<1>7. \A s \in starts : pos < s => pos + stream[pos + 3] + 3 <= s
  BY <1>2, <1>6 DEF FramerInv, Laid, CleanStream
<1>8. starts \subseteq Nat /\ pos \in Nat /\ stream[pos + 3] \in 0 .. 255
  <2>1. stream \in Seq(0 .. 255) /\ starts \subseteq 0 .. Len(stream) - 1
    BY DEF FramerInv, Laid
  <2>2. Len(stream) \in Nat
    BY <2>1, LenProperties
  <2>3. pos + 3 \in 1 .. Len(stream)
    BY <1>2, <1>3, <2>2 DEF HeaderSize
  <2> QED BY <1>2, <2>1, <2>2, <2>3, ElementOfSeq
<1>9. \A s \in starts : s <= pos \/ s >= pos + footprint
  <2>1. ASSUME NEW s \in starts, ~(s <= pos) PROVE s >= pos + footprint
    <3>1. s \in Nat /\ pos < s
      BY <1>8, <2>1
    <3>2. pos + stream[pos + 3] + 3 <= s
      BY <1>7, <3>1
    <3>3. PICK v \in Nat : v = stream[pos + 3]
      BY <1>8
    <3>4. footprint = v + 3 /\ pos + v + 3 <= s
      BY <1>3, <3>2, <3>3
    <3> QED BY <1>8, <3>1, <3>3, <3>4
  <2> QED BY <2>1
<1>10. verified' = verified /\ verified \subseteq starts /\ hunting' \in BOOLEAN
  BY <1>1 DEF FramerInv, NoPhantoms, FramerTypeOK
<1> QED BY <1>1, <1>2, <1>5, <1>9, <1>10, MoveInv

LEMMA Resolved == ASSUME FramerAssumptions, FramerInv, VerifiedFrame PROVE FramerInv'
<1>1. /\ Whole /\ CrcPasses /\ Advance(footprint) /\ UNCHANGED line /\ hunting' = FALSE
      /\ verified' = verified \cup {pos}
  BY DEF VerifiedFrame
<1>2. /\ footprint \in 1 .. received /\ received >= HeaderSize
      /\ pos + footprint <= Len(stream) /\ pos \in 0 .. Len(stream) - 1
  BY <1>1, WholeIs
<1>3. PICK f \in GoodFrames : Len(f) = footprint /\ \A i \in 1 .. Len(f) : At(i - 1) = f[i]
  BY <1>1 DEF CrcPasses
<1>4. Occurs(f, stream, pos)
  <2>1. ASSUME NEW i \in 1 .. Len(f) PROVE stream[pos + i] = f[i]
    <3>1. i \in 1 .. received
      <4>1. received \in Nat
        BY DEF FramerInv, FramerTypeOK, RingTruth
      <4> QED BY <1>2, <1>3, <4>1
    <3> QED BY <1>3, <3>1, ByteIs
  <2> QED BY <1>2, <1>3, <2>1 DEF Occurs
<1>5. pos \in starts
  BY <1>2, <1>4 DEF FramerInv, Laid, CleanStream
<1>6. received > 0
  BY <1>2, HeaderIs DEF HeaderSize
<1>7. \A t \in starts : t <= pos \/ t >= pos + footprint
  BY <1>1, <1>5, <1>6, AtFrame
<1>8. verified' \subseteq starts /\ verified \subseteq verified' /\ pos \in verified'
  BY <1>1, <1>5 DEF FramerInv, NoPhantoms
<1> QED BY <1>1, <1>2, <1>7, <1>8, MoveInv

-----------------------------------------------------------------------------
(* The session, and the theorem                                            *)

LEMMA SessionIs ==
    ASSUME NEW g \in Seq(0 .. 255), NEW f1 \in Seq(0 .. 255), NEW f2 \in Seq(0 .. 255)
    PROVE  /\ Session(g, f1, f2) \in Seq(0 .. 255)
           /\ Len(Session(g, f1, f2)) = Len(g) + Len(f1) + Len(f2)
           /\ Occurs(f1, Session(g, f1, f2), Len(g))
           /\ Occurs(f2, Session(g, f1, f2), Len(g) + Len(f1))
<1> DEFINE h == g \o f1
           str == h \o f2
<1>1. /\ h \in Seq(0 .. 255) /\ Len(h) = Len(g) + Len(f1)
      /\ \A i \in 1 .. Len(h) : h[i] = IF i <= Len(g) THEN g[i] ELSE f1[i - Len(g)]
  BY ConcatProperties
<1>2. /\ str \in Seq(0 .. 255) /\ Len(str) = Len(h) + Len(f2)
      /\ \A i \in 1 .. Len(h) + Len(f2) : str[i] = IF i <= Len(h) THEN h[i] ELSE f2[i - Len(h)]
  BY <1>1, ConcatProperties
<1>3. Len(g) \in Nat /\ Len(f1) \in Nat /\ Len(f2) \in Nat
  BY LenProperties
<1>4. str = Session(g, f1, f2)
  BY DEF Session
<1> HIDE DEF h, str
<1>5. ASSUME NEW i \in 1 .. Len(f1) PROVE str[Len(g) + i] = f1[i]
  <2>1. /\ Len(g) + i \in 1 .. Len(h) + Len(f2) /\ Len(g) + i <= Len(h)
        /\ Len(g) + i \in 1 .. Len(h) /\ ~(Len(g) + i <= Len(g)) /\ Len(g) + i - Len(g) = i
    BY <1>1, <1>3
  <2> QED BY <1>1, <1>2, <2>1
<1>6. ASSUME NEW i \in 1 .. Len(f2) PROVE str[Len(h) + i] = f2[i]
  <2>1. /\ Len(h) + i \in 1 .. Len(h) + Len(f2) /\ ~(Len(h) + i <= Len(h))
        /\ Len(h) + i - Len(h) = i
    BY <1>1, <1>3
  <2> QED BY <1>2, <2>1
<1>7. Occurs(f1, str, Len(g))
  BY <1>1, <1>2, <1>3, <1>5 DEF Occurs
<1>8. Occurs(f2, str, Len(h))
  BY <1>1, <1>2, <1>3, <1>6 DEF Occurs
<1> QED BY <1>1, <1>2, <1>4, <1>7, <1>8

LEMMA FramerStarts == ASSUME FramerAssumptions, FramerInit PROVE FramerInv
<1>1. PICK g \in Garble, f1 \in GoodFrames, f2 \in GoodFrames, s1 \in BOOLEAN, s2 \in BOOLEAN :
          /\ stream = Session(g, f1, f2)
          /\ starts = Begins(g, f1)
          /\ gaps = (IF s1 THEN {Len(g)} ELSE {})
                    \cup (IF s2 THEN {Len(g) + Len(f1)} ELSE {})
                    \cup {Len(stream)}
  BY DEF FramerInit
<1>2. /\ f1 \in Seq(0 .. 255) /\ f2 \in Seq(0 .. 255) /\ g \in Seq(0 .. 255)
      /\ Len(f1) >= 4 /\ Len(f2) >= 4
      /\ CleanStream(Session(g, f1, f2), Begins(g, f1))
  BY DEF FramerAssumptions, FramesAssumption, StreamAssumption, HeaderSize
<1>3. /\ stream \in Seq(0 .. 255) /\ Len(stream) = Len(g) + Len(f1) + Len(f2)
      /\ Occurs(f1, stream, Len(g)) /\ Occurs(f2, stream, Len(g) + Len(f1))
  BY <1>1, <1>2, SessionIs
<1>4. Len(g) \in Nat /\ Len(f1) \in Nat /\ Len(f2) \in Nat /\ Len(stream) \in Nat
  BY <1>2, <1>3, LenProperties
<1>5. /\ starts = {Len(g), Len(g) + Len(f1)}
      /\ gaps \subseteq {Len(g), Len(g) + Len(f1), Len(stream)}
  BY <1>1 DEF Begins
<1>6. Laid
  <2>1. starts \subseteq 0 .. Len(stream) - 1 /\ gaps \subseteq Nat
    BY <1>2, <1>3, <1>4, <1>5, SMTT(20)
  <2>2. \A t \in starts \cup gaps : t \in {Len(g), Len(g) + Len(f1), Len(g) + Len(f1) + Len(f2)}
    BY <1>3, <1>5
  <2>3. \A t \in starts \cup gaps : t <= Len(g) \/ t >= Len(g) + Len(f1)
    BY <1>4, <2>2
  <2>4. \A t \in starts \cup gaps : t <= Len(g) + Len(f1) \/ t >= Len(g) + Len(f1) + Len(f2)
    BY <1>4, <2>2
  <2>5. \A s \in starts : \E f \in GoodFrames :
          Occurs(f, stream, s) /\ \A t \in starts \cup gaps : t <= s \/ t >= s + Len(f)
    BY <1>3, <1>5, <2>3, <2>4
  <2> QED BY <1>1, <1>2, <1>3, <2>1, <2>5 DEF Laid
<1>7. /\ RingLen \in Nat /\ RingLen > 4 /\ cursor \in 0 .. RingLen - 1 /\ anchor = cursor
      /\ arrived = 0 /\ pos = 0 /\ verified = {} /\ hunting = FALSE /\ covered = FALSE
      /\ ring \in [0 .. RingLen - 1 -> 0 .. 255]
  BY DEF FramerInit, FramerAssumptions, RingAssumption, HeaderSize
<1>8. received = 0
  BY <1>7, DistIs DEF received, FramerAssumptions
<1>9. FramerTypeOK /\ RingTruth
  <2>1. FramerTypeOK
    <3>1. pos \in 0 .. arrived /\ arrived \in 0 .. Len(stream) /\ verified \subseteq 0 .. Len(stream)
      BY <1>4, <1>7
    <3>2. hunting \in BOOLEAN /\ covered \in BOOLEAN
      BY <1>7
    <3> QED BY <1>7, <3>1, <3>2 DEF FramerTypeOK
  <2>2. received = arrived - pos /\ 1 .. received = {}
    BY <1>7, <1>8
  <2> QED BY <2>1, <2>2 DEF RingTruth
<1>10. NoPhantoms /\ NothingSkipped
  <2>1. ASSUME NEW s \in starts PROVE ~(s < 0)
    BY <1>4, <1>5
  <2> QED BY <1>7, <2>1 DEF NoPhantoms, NothingSkipped
<1> QED BY <1>6, <1>9, <1>10 DEF FramerInv

LEMMA FramerStep ==
    ASSUME FramerAssumptions, FramerInv, [FramerNext]_framerVars PROVE FramerInv'
<1>1. CASE Arrive
  <2>1. FramerTypeOK' /\ RingTruth' /\ UNCHANGED <<stream, starts, gaps, pos, verified>>
    BY <1>1, ArriveKeeps DEF FramerInv, FramerAssumptions, Laid, Arrive
  <2>2. Laid' /\ NoPhantoms' /\ NothingSkipped'
    BY <2>1 DEF FramerInv, Laid, NoPhantoms, NothingSkipped, CleanStream, Occurs, ReadsStatus
  <2> QED BY <2>1, <2>2 DEF FramerInv
<1>2. CASE Covered \/ UNCHANGED framerVars
  <2>1. /\ UNCHANGED <<stream, starts, gaps, ring, cursor, anchor, hunting, arrived, pos, verified>>
        /\ covered' \in BOOLEAN
    BY <1>2 DEF Covered, framerVars, line, FramerInv, FramerTypeOK
  <2>2. FramerTypeOK' /\ NoPhantoms' /\ NothingSkipped'
    BY <2>1 DEF FramerInv, FramerTypeOK, NoPhantoms, NothingSkipped
  <2>3. Laid'
    BY <2>1 DEF FramerInv, Laid, CleanStream, Occurs, ReadsStatus
  <2>4. RingTruth'
    BY <2>1 DEF FramerInv, RingTruth, received, dist, At, ring_wrap
  <2> QED BY <2>2, <2>3, <2>4 DEF FramerInv
<1>3. CASE Hunt \/ RejectedFrame \/ GiveUp
  BY <1>3, GivenUp
<1>4. CASE StatusFrame \/ VerifiedFrame
  BY <1>4, Counted, Resolved
<1> QED BY <1>1, <1>2, <1>3, <1>4 DEF FramerNext, Resolve

(* The servo's resolver is true to the stream, for every power-of-two ring, *)
(* every set of frames shorter than it and every garble: wrapping indices  *)
(* never alias, the hunt sacrifices junk only and passes no good frame it  *)
(* has not verified, and only frames that were sent are verified.          *)
THEOREM FramerTrue == ASSUME FramerAssumptions PROVE FramerSpec => []FramerSound
<1>1. FramerInit => FramerInv
  BY FramerStarts
<1>2. FramerInv /\ [FramerNext]_framerVars => FramerInv'
  BY FramerStep
<1>3. FramerInv => FramerSound
  BY DEF FramerInv, FramerSound
<1> QED BY <1>1, <1>2, <1>3, PTL DEF FramerSpec
=============================================================================
