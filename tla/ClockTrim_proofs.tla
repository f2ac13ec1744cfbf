--------------------------- MODULE ClockTrim_proofs ---------------------------
(***************************************************************************)
(* Safety of the clock discipline for every chip, train length, window     *)
(* size and trim limit.                                                    *)
(*                                                                         *)
(* The watchdog's coverage is inductive as it stands.  That a measurement  *)
(* saw one trim is not: it needs that the trims seen since the last        *)
(* correction are at most the present one, which only a train that began   *)
(* before the last verdict was polled may break, and that any other train  *)
(* runs with no verdict waiting.                                           *)
(***************************************************************************)
EXTENDS ClockTrim, FiniteSetTheorems, TLAPS

Cals == [left : Nat, total : Nat, valid : Nat, err : Int]
Drifts == [prev : BOOLEAN, seen : {"None", "Silent", "Solicited", "Many"},
           base : Int, based : BOOLEAN, berr : Int, bn : Nat,
           werr : Int, wn : Nat, ready : BOOLEAN]
Trims == [total : Int, step_ppm : Int, last_ppm : Int, last_steps : Int]

(* A live train counts at most the gaps it has seen.                       *)
CalInv == cal = NoCal \/ (cal \in Cals /\ cal.valid + cal.left <= cal.total)

(* The baseline is taken when its last pair is in, a window when full.     *)
DriftInv == /\ drift \in Drifts
            /\ drift.bn <= BasePairs /\ (~drift.based => drift.bn < BasePairs)
            /\ drift.wn < WinPairs

TrimInv == /\ trim \in Trims
           /\ trim.total \in -TotalMax .. TotalMax
           /\ trim.step_ppm \in StepMin .. StepMax
           /\ trim.last_steps \in -StepsMax .. StepsMax

WorldInv == /\ chip \in Int \X Int /\ warm \in Int /\ seam \in Int
            /\ cadence \in [err : Int, span : Nat]
            /\ pending_cal \in Gaps \cup {Absent}
            /\ cal_ready \in BOOLEAN /\ late \in BOOLEAN

(* The trims seen since the last correction.                               *)
SeenInv == ~late => /\ seenAt \subseteq {trim.total}
                    /\ cal # NoCal => ~cal_ready

IInv == CalInv /\ DriftInv /\ TrimInv /\ WorldInv /\ WatchdogCovers /\ SeenInv

-----------------------------------------------------------------------------
(* The arithmetic of the trim loop.                                        *)

LEMMA TruncInt == ASSUME NEW a \in Int, NEW b \in Nat \ {0} PROVE Trunc(a, b) \in Int
BY DEF Trunc

(* At most StepsMax steps, whatever the measurement says.                  *)
LEMMA StepsBounded ==
    ASSUME ClockAssumption, NEW p, NEW d
    PROVE  Steps(p, d) \in -StepsMax .. StepsMax
<1> DEFINE S == {k \in 0 .. StepsMax - 1 : 2 * Mag(p) >= (2 * k + 1) * d}
<1>1. StepsMax \in Nat \ {0}
  BY DEF ClockAssumption
<1>2. IsFiniteSet(0 .. StepsMax - 1) /\ Cardinality(0 .. StepsMax - 1) = StepsMax
  BY <1>1, FS_Interval
<1>3. S \subseteq 0 .. StepsMax - 1
  OBVIOUS
<1>4. IsFiniteSet(S) /\ Cardinality(S) <= StepsMax
  <2> HIDE DEF S
  <2> QED BY <1>2, <1>3, FS_Subset
<1>5. Cardinality(S) \in Nat
  BY <1>4, FS_CardinalityType
<1>6. Steps(p, d) = IF p < 0 THEN -Cardinality(S) ELSE Cardinality(S)
  BY DEF Steps
<1> HIDE DEF S
<1> QED BY <1>1, <1>4, <1>5, <1>6

(* A correction stays within the oscillator's range, and what it records   *)
(* as applied is what it moved.                                            *)
LEMMA WindowKeeps ==
    ASSUME ClockAssumption, TrimInv, NEW e \in Int, NEW n \in Nat
    PROVE  LET t == on_window(trim, e, n)
           IN  /\ t \in Trims
               /\ t.total \in -TotalMax .. TotalMax
               /\ t.step_ppm \in StepMin .. StepMax
               /\ t.last_steps \in -StepsMax .. StepsMax
<1>1. CASE n = 0
  BY <1>1 DEF on_window, TrimInv
<1>2. CASE n # 0
  <2> DEFINE p == Trunc(e, n)
             d == StepEffect(trim, p)
             s == Steps(p, d)
             u == Clip(trim.total + s, TotalMax)
  <2>1. p \in Int
    BY <1>2, TruncInt
  <2>2. d \in StepMin .. StepMax
    BY DEF StepEffect, TrimInv
  <2>3. s \in -StepsMax .. StepsMax
    BY StepsBounded
  <2>4. StepMin \in Nat /\ StepMax \in Nat /\ StepsMax \in Nat /\ TotalMax \in Nat
    BY DEF ClockAssumption
  <2>5. on_window(trim, e, n) =
            [total |-> u, step_ppm |-> d, last_ppm |-> p, last_steps |-> u - trim.total]
    BY <1>2 DEF on_window
  <2>6. trim.total \in -TotalMax .. TotalMax
    BY DEF TrimInv
  <2> HIDE DEF p, d, s
  <2>7. u \in -TotalMax .. TotalMax /\ u - trim.total \in -StepsMax .. StepsMax
    BY <2>3, <2>4, <2>6 DEF Clip
  <2> HIDE DEF u
  <2> QED BY <2>1, <2>2, <2>4, <2>5, <2>6, <2>7 DEF Trims
<1> QED BY <1>1, <1>2

LEMMA RestartKeeps ==
    ASSUME ClockAssumption
    PROVE  /\ Restarted \in Drifts /\ Restarted.bn <= BasePairs
           /\ Restarted.bn < BasePairs /\ Restarted.wn < WinPairs
<1>1. Restarted \in Drifts
  BY DEF Restarted, Drifts, Absent
<1>2. Restarted.bn = 0 /\ Restarted.wn = 0
  BY DEF Restarted
<1>3. BasePairs \in Nat \ {0} /\ WinPairs \in Nat \ {0}
  BY DEF ClockAssumption
<1> QED BY <1>1, <1>2, <1>3

LEMMA RestartKept == ASSUME ClockAssumption, drift' = Restarted PROVE DriftInv'
<1>1. drift'.bn = Restarted.bn /\ drift'.wn = Restarted.wn
  OBVIOUS
<1> HIDE DEF Restarted
<1> QED BY <1>1, RestartKeeps DEF DriftInv

LEMMA ErrInt == ASSUME ClockAssumption, WorldInv, TrimInv
                PROVE  Skew \in Int /\ Skew + seam \in Int /\ 16 * Gate \in Int
BY DEF Skew, WorldInv, TrimInv, Trims, ClockAssumption

-----------------------------------------------------------------------------
(* One lemma per action.                                                   *)

LEMMA InitInv == ASSUME ClockAssumption, ClockInit PROVE IInv
<1>1. CalInv /\ WatchdogCovers /\ SeenInv
  BY DEF ClockInit, CalInv, WatchdogCovers, SeenInv
<1>2. TrimInv
  BY DEF ClockInit, TrimInv, Trims, ClockAssumption
<1>3. WorldInv
  <2>1. chip \in Int \X Int /\ warm \in Int /\ seam \in Int
    BY DEF ClockInit, ClockAssumption
  <2>2. cadence \in [err : Int, span : Nat]
    BY DEF ClockInit
  <2>3. pending_cal = Absent /\ cal_ready = FALSE /\ late = FALSE
    BY DEF ClockInit
  <2> QED BY <2>1, <2>2, <2>3 DEF WorldInv
<1>4. DriftInv
  <2>1. drift = Restarted
    BY DEF ClockInit
  <2> QED BY <2>1, RestartKeeps DEF DriftInv
<1> QED BY <1>1, <1>2, <1>3, <1>4 DEF IInv

LEMMA AnnounceKeeps ==
    ASSUME ClockAssumption, IInv, NEW n \in Gaps, Announce(n) PROVE IInv'
BY DEF Announce, IInv, CalInv, DriftInv, TrimInv, WorldInv, WatchdogCovers, SeenInv, world

LEMMA TrainStartKeeps ==
    ASSUME ClockAssumption, IInv, TrainStart, UNCHANGED <<trim, world>> PROVE IInv'
<1>1. pending_cal \in Nat
  BY DEF IInv, WorldInv, TrainStart, ClockAssumption
<1>2. CalInv'
  BY <1>1 DEF TrainStart, CalInv, Cals
<1>3. DriftInv'
  BY RestartKept DEF TrainStart
<1>4. TrimInv' /\ WorldInv' /\ WatchdogCovers'
  BY DEF IInv, TrimInv, WorldInv, WatchdogCovers, TrainStart, world
<1>5. SeenInv'
  BY DEF IInv, WorldInv, SeenInv, TrainStart
<1> QED BY <1>2, <1>3, <1>4, <1>5 DEF IInv

LEMMA MarkKeeps ==
    ASSUME ClockAssumption, IInv, NEW e \in Int, cal # NoCal, Mark(e),
           UNCHANGED <<trim, world>>
    PROVE  IInv'
<1> DEFINE ok == Mag(e) <= Gate
           v == cal.valid + (IF ok THEN 1 ELSE 0)
           r == cal.err + (IF ok THEN e ELSE 0)
           l == IF cal.left = 0 THEN 0 ELSE cal.left - 1
           c == [cal EXCEPT !.valid = @ + (IF ok THEN 1 ELSE 0),
                            !.err = @ + (IF ok THEN e ELSE 0),
                            !.left = IF @ = 0 THEN 0 ELSE @ - 1]
<1>1. cal \in Cals /\ cal.valid + cal.left <= cal.total
  BY DEF IInv, CalInv
<1>2. c = [left |-> l, total |-> cal.total, valid |-> v, err |-> r]
  <2>1. c = [cal EXCEPT !.valid = v, !.err = r, !.left = l]
    BY <1>1 DEF Cals
  <2> HIDE DEF c, v, r, l
  <2> QED BY <1>1, <2>1 DEF Cals
<1>3. v \in Nat /\ r \in Int /\ l \in Nat /\ cal.total \in Nat
  BY <1>1 DEF Cals
<1>4. c \in Cals /\ (c.left # 0 => c.valid + c.left <= c.total)
  <2>1. l # 0 => v + l <= cal.total
    BY <1>1 DEF Cals
  <2> HIDE DEF v, r, l, c, ok
  <2> QED BY <1>2, <1>3, <2>1 DEF Cals
<1>5. /\ cal' = IF c.left = 0 THEN NoCal ELSE c
      /\ cal_ready' = (cal_ready \/ (c.left = 0 /\ 2 * c.valid >= c.total))
      /\ cadence' = IF c.left = 0 /\ 2 * c.valid >= c.total
                      THEN [err |-> c.err, span |-> c.valid] ELSE cadence
      /\ framer_at' = TRUE
      /\ UNCHANGED <<pending_cal, drift, seenAt, late>>
  BY DEF Mark
<1> HIDE DEF c
<1>6. CalInv' /\ WatchdogCovers'
  BY <1>4, <1>5 DEF CalInv, WatchdogCovers
<1>7. DriftInv' /\ TrimInv'
  BY <1>5 DEF IInv, DriftInv, TrimInv
<1>8. WorldInv'
  <2>1. cadence' \in [err : Int, span : Nat]
    BY <1>4, <1>5 DEF IInv, WorldInv, Cals
  <2>2. cal_ready' \in BOOLEAN
    BY <1>5 DEF IInv, WorldInv
  <2> QED BY <1>5, <2>1, <2>2 DEF IInv, WorldInv, world
<1>9. SeenInv'
  BY <1>4, <1>5 DEF IInv, SeenInv, WorldInv
<1> QED BY <1>6, <1>7, <1>8, <1>9 DEF IInv

LEMMA BreakKeeps == ASSUME ClockAssumption, IInv, on_cal_break PROVE IInv'
<1>1. CASE TrainStart
  BY <1>1, TrainStartKeeps DEF on_cal_break
<1>2. CASE pending_cal = Absent /\ (Mark(Skew) \/ Mark(16 * Gate))
  <2>1. cal # NoCal
    BY <1>2 DEF on_cal_break, cal_active
  <2> QED BY <1>2, <2>1, ErrInt, MarkKeeps DEF on_cal_break, IInv
<1>3. CASE Refire
  BY <1>3 DEF Refire, on_cal_break, tracker, world, IInv, CalInv, DriftInv, TrimInv,
              WorldInv, WatchdogCovers, SeenInv
<1> QED BY <1>1, <1>2, <1>3 DEF on_cal_break

LEMMA DeadlineKeeps ==
    ASSUME ClockAssumption, IInv, on_deadline \/ on_rescue_break PROVE IInv'
<1>1. CASE on_deadline
  BY <1>1 DEF on_deadline, world, IInv, CalInv, DriftInv, TrimInv, WorldInv,
              WatchdogCovers, SeenInv
<1>2. CASE on_rescue_break
  <2>1. DriftInv'
    BY <1>2, RestartKept DEF on_rescue_break
  <2> QED BY <1>2, <2>1
             DEF on_rescue_break, world, IInv, CalInv, TrimInv, WorldInv,
                 WatchdogCovers, SeenInv
<1> QED BY <1>1, <1>2

LEMMA VerifiedKeeps ==
    ASSUME ClockAssumption, IInv, NEW s \in BOOLEAN, note_verified(s) PROVE IInv'
<1>1. DriftInv'
  BY DEF note_verified, IInv, DriftInv, Drifts
<1> QED BY <1>1 DEF note_verified, world, IInv, CalInv, TrimInv, WorldInv,
                    WatchdogCovers, SeenInv

(* An accepted pair fills the baseline, then the window, by one.           *)
LEMMA PairedKeeps ==
    ASSUME ClockAssumption, NEW D \in Drifts, NEW e \in Int,
           D.bn <= BasePairs, ~D.based => D.bn < BasePairs, D.wn < WinPairs
    PROVE  LET W == Paired(D, e)
           IN  /\ W \in Drifts
               /\ W.bn <= BasePairs /\ (~W.based => W.bn < BasePairs)
               /\ W.wn <= WinPairs
<1>1. BasePairs \in Nat \ {0} /\ WinPairs \in Nat \ {0}
  BY DEF ClockAssumption
<1>2. CASE D.based
  <2>1. Paired(D, e) = [D EXCEPT !.werr = @ + (e - D.base), !.wn = @ + 1]
    BY <1>2 DEF Paired
  <2>2. D.werr + (e - D.base) \in Int /\ D.wn + 1 \in Nat /\ D.wn + 1 <= WinPairs
    BY <1>1 DEF Drifts
  <2>3. Paired(D, e) = [prev |-> D.prev, seen |-> D.seen, base |-> D.base, based |-> D.based,
                        berr |-> D.berr, bn |-> D.bn, werr |-> D.werr + (e - D.base),
                        wn |-> D.wn + 1, ready |-> D.ready]
    BY <2>1 DEF Drifts
  <2> QED BY <1>2, <2>2, <2>3 DEF Drifts
<1>3. CASE ~D.based
  <2> DEFINE B == [D EXCEPT !.berr = @ + e, !.bn = @ + 1]
  <2>1. B \in Drifts /\ B.bn <= BasePairs /\ B.wn = D.wn /\ B.based = D.based
    <3> DEFINE x == D.berr + e
               y == D.bn + 1
    <3>1. x \in Int /\ y \in Nat /\ y <= BasePairs
      BY <1>1, <1>3 DEF Drifts
    <3>2. B = [D EXCEPT !.berr = x, !.bn = y]
      BY DEF Drifts
    <3> HIDE DEF B, x, y
    <3>3. B = [prev |-> D.prev, seen |-> D.seen, base |-> D.base, based |-> D.based,
               berr |-> x, bn |-> y, werr |-> D.werr, wn |-> D.wn, ready |-> D.ready]
      BY <3>2 DEF Drifts
    <3> QED BY <3>1, <3>3 DEF Drifts
  <2>2. Paired(D, e) = IF B.bn >= BasePairs
            THEN [B EXCEPT !.based = TRUE, !.base = Trunc(B.berr, BasePairs)] ELSE B
    BY <1>3 DEF Paired
  <2>3. Trunc(B.berr, BasePairs) \in Int
    <3>1. B.berr \in Int
      BY <2>1 DEF Drifts
    <3> QED BY <1>1, <3>1, TruncInt
  <2> HIDE DEF B
  <2>4. CASE B.bn >= BasePairs
    <3>1. Paired(D, e) = [prev |-> B.prev, seen |-> B.seen, base |-> Trunc(B.berr, BasePairs),
                          based |-> TRUE, berr |-> B.berr, bn |-> B.bn, werr |-> B.werr,
                          wn |-> B.wn, ready |-> B.ready]
      BY <2>1, <2>2, <2>4 DEF Drifts
    <3>2. B.wn <= WinPairs
      BY <1>1, <2>1 DEF Drifts
    <3> QED BY <2>1, <2>3, <3>1, <3>2 DEF Drifts
  <2>5. CASE ~(B.bn >= BasePairs)
    <3>1. B.bn < BasePairs
      BY <1>1, <2>1, <2>5 DEF Drifts
    <3> QED BY <1>1, <2>1, <2>2, <2>5, <3>1 DEF Drifts
  <2> QED BY <2>4, <2>5
<1> QED BY <1>2, <1>3 DEF Drifts

LEMMA DriftBreakKeeps ==
    ASSUME ClockAssumption, IInv, NEW exact \in BOOLEAN, NEW e \in Int,
           on_drift_break(exact, e)
    PROVE  IInv'
<1> DEFINE D == [drift EXCEPT !.prev = TRUE, !.seen = "None"]
           pair == drift.prev /\ drift.seen = "Silent" /\ exact /\ Mag(e) <= Gate
           W == IF pair THEN Paired(D, e) ELSE D
<1>1. /\ D \in Drifts /\ D.bn <= BasePairs /\ (~D.based => D.bn < BasePairs)
      /\ D.wn < WinPairs
  BY DEF IInv, DriftInv, Drifts
<1>2. /\ W \in Drifts /\ W.bn <= BasePairs /\ (~W.based => W.bn < BasePairs)
      /\ W.wn <= WinPairs
  <2> HIDE DEF D
  <2>1. CASE pair
    BY <1>1, <2>1, PairedKeeps
  <2>2. CASE ~pair
    BY <1>1, <2>2 DEF Drifts, ClockAssumption
  <2> QED BY <2>1, <2>2
<1>3. /\ IF W.wn >= WinPairs THEN Handed(W) ELSE drift' = W /\ UNCHANGED cadence
      /\ seenAt' = IF pair THEN seenAt \cup {trim.total} ELSE seenAt
      /\ UNCHANGED <<pending_cal, cal, cal_ready, trim, framer_at, low, world, late>>
  BY DEF on_drift_break
<1> HIDE DEF W, pair
<1>4. DriftInv'
  <2>1. WinPairs \in Nat \ {0} /\ cal_ready \in BOOLEAN
    BY DEF ClockAssumption, IInv, WorldInv
  <2>2. CASE W.wn >= WinPairs
    <3>1. drift' = [W EXCEPT !.werr = 0, !.wn = 0, !.ready = @ \/ ~cal_ready]
      BY <1>3, <2>2 DEF Handed
    <3>2. (W.ready \/ ~cal_ready) \in BOOLEAN
      OBVIOUS
    <3>3. drift' = [prev |-> W.prev, seen |-> W.seen, base |-> W.base, based |-> W.based,
                    berr |-> W.berr, bn |-> W.bn, werr |-> 0, wn |-> 0,
                    ready |-> (W.ready \/ ~cal_ready)]
      BY <1>2, <3>1 DEF Drifts
    <3>4. drift' \in Drifts
      BY <1>2, <3>2, <3>3 DEF Drifts
    <3>5. drift'.bn = W.bn /\ drift'.based = W.based /\ drift'.wn = 0
      BY <3>3
    <3> QED BY <1>2, <2>1, <3>4, <3>5 DEF DriftInv
  <2>3. CASE ~(W.wn >= WinPairs)
    <3>1. drift' = W /\ W.wn < WinPairs
      BY <1>2, <1>3, <2>1, <2>3 DEF Drifts
    <3> QED BY <1>2, <3>1 DEF DriftInv
  <2> QED BY <2>2, <2>3
<1>5. cadence' \in [err : Int, span : Nat]
  BY <1>2, <1>3 DEF Handed, Drifts, IInv, WorldInv
<1>6. CalInv' /\ TrimInv' /\ WatchdogCovers' /\ SeenInv'
  BY <1>3 DEF IInv, CalInv, TrimInv, WatchdogCovers, SeenInv
<1>7. WorldInv'
  BY <1>3, <1>5 DEF IInv, WorldInv, world
<1> QED BY <1>4, <1>6, <1>7 DEF IInv

(* A verdict polled in time empties the trims seen; one polled late marks  *)
(* the train that runs.                                                    *)
LEMMA PollKeeps == ASSUME ClockAssumption, IInv, poll PROVE IInv'
<1>1. UNCHANGED <<pending_cal, cal, framer_at, low, world, late>>
  BY DEF poll
<1>2. cadence' = [err |-> 0, span |-> 0] /\ cal_ready' \in BOOLEAN
  BY DEF poll, PollCal, PollDrift, IInv, WorldInv
<1>3. CalInv' /\ WatchdogCovers'
  BY <1>1 DEF IInv, CalInv, WatchdogCovers
<1>4. WorldInv'
  BY <1>1, <1>2 DEF IInv, WorldInv, world
<1>5. TrimInv'
  <2>1. trim' = trim \/ trim' = on_window(trim, cadence.err, cadence.span)
    BY DEF poll, PollCal, PollDrift
  <2>2. cadence.err \in Int /\ cadence.span \in Nat
    BY DEF IInv, WorldInv
  <2>3. CASE trim' = trim
    BY <2>3 DEF IInv, TrimInv
  <2>4. CASE trim' = on_window(trim, cadence.err, cadence.span)
    BY <2>2, <2>4, WindowKeeps DEF IInv, TrimInv
  <2> QED BY <2>1, <2>3, <2>4
<1>6. DriftInv'
  <2>1. drift' = Restarted \/ drift' = [drift EXCEPT !.ready = FALSE]
    BY DEF poll, PollCal, PollDrift
  <2>2. CASE drift' = Restarted
    BY <2>2, RestartKept
  <2>3. CASE drift' = [drift EXCEPT !.ready = FALSE]
    BY <2>3 DEF IInv, DriftInv, Drifts
  <2> QED BY <2>1, <2>2, <2>3
<1>7. SeenInv'
  <2>1. CASE PollCal
    BY <1>1, <2>1 DEF PollCal, IInv, SeenInv
  <2>2. CASE PollDrift
    BY <1>1, <2>2 DEF PollDrift, IInv, SeenInv
  <2> QED BY <2>1, <2>2 DEF poll
<1> QED BY <1>3, <1>4, <1>5, <1>6, <1>7 DEF IInv

LEMMA WarmKeeps == ASSUME ClockAssumption, IInv, NEW w \in Warmth, Warm(w) PROVE IInv'
BY DEF Warm, tracker, IInv, CalInv, DriftInv, TrimInv, WorldInv, WatchdogCovers, SeenInv,
       ClockAssumption

LEMMA Inductive == ASSUME ClockAssumption, IInv, [ClockNext]_clockVars PROVE IInv'
<1>1. CASE \E exact, paused \in BOOLEAN : Pair(exact, paused)
  <2>1. PICK exact \in BOOLEAN, paused \in BOOLEAN : Pair(exact, paused)
    BY <1>1
  <2>2. PICK e \in Int : on_drift_break(exact, e)
    BY <2>1, ErrInt DEF Pair, IInv
  <2> QED BY <2>2, DriftBreakKeeps
<1>2. CASE UNCHANGED clockVars
  BY <1>2 DEF clockVars, tracker, world, IInv, CalInv, DriftInv, TrimInv, WorldInv,
              WatchdogCovers, SeenInv
<1> QED BY <1>1, <1>2, AnnounceKeeps, BreakKeeps, DeadlineKeeps, VerifiedKeeps, PollKeeps,
           WarmKeeps DEF ClockNext

LEMMA InvType == ASSUME ClockAssumption, IInv PROVE ClockTypeOK
<1>1. BasePairs \in Nat /\ WinPairs \in Nat
  BY DEF ClockAssumption
<1>2. cal = NoCal \/ (cal.left \in 0 .. cal.total /\ cal.valid \in 0 .. cal.total)
  BY DEF IInv, CalInv, Cals
<1>3. drift.bn \in 0 .. BasePairs /\ drift.wn \in 0 .. WinPairs - 1
  BY <1>1 DEF IInv, DriftInv, Drifts
<1> QED BY <1>2, <1>3 DEF ClockTypeOK, IInv, TrimInv, WorldInv

LEMMA InvOneClock == ASSUME IInv PROVE OneClock
<1>1. ASSUME ~late PROVE Cardinality(seenAt) <= 1
  <2>1. seenAt = {} \/ seenAt = {trim.total}
    BY <1>1 DEF IInv, SeenInv
  <2>2. Cardinality({}) = 0 /\ Cardinality({trim.total}) = 1
    BY FS_EmptySet, FS_Singleton
  <2>3. CASE seenAt = {}
    BY <2>2, <2>3
  <2>4. CASE seenAt = {trim.total}
    BY <2>2, <2>4
  <2> QED BY <2>1, <2>3, <2>4
<1> QED BY <1>1 DEF OneClock

(* For every chip, train length, window and trim limit: the trim and the   *)
(* tracker stay in range (trim.rs STEPS_MAX, TOTAL_MAX; clock.rs), a train *)
(* always has the deadline that ends it, and a measurement that the main   *)
(* loop polls in time was taken under one trim.                            *)
THEOREM ClockDisciplined ==
    ASSUME ClockAssumption
    PROVE  ClockSpec => [](ClockTypeOK /\ ClockSound)
<1>1. ClockInit => IInv
  BY InitInv
<1>2. IInv /\ [ClockNext]_clockVars => IInv'
  BY Inductive
<1>3. IInv => ClockTypeOK /\ ClockSound
  BY InvType, InvOneClock DEF IInv, ClockSound
<1> QED BY <1>1, <1>2, <1>3, PTL DEF ClockSpec

=============================================================================
