---------------------------- MODULE Motion_proofs ---------------------------
(***************************************************************************)
(* Proofs about Kernel, for every decimation, limit, persistence and set   *)
(* of inputs, and about the bench tools that drive it: the identification  *)
(* runner (RigPump), the calibration tool (Calibrate) and the gain writer  *)
(* (GainWriter), for every program, command line and number of losses.     *)
(*                                                                         *)
(* A tick is a chain of stages, each of which touches a few fields of the  *)
(* kernel.  A lemma per stage says which and how; the invariant after the  *)
(* tick is then put together from them.  The tools' invariants say where a *)
(* cleanup or a write of several registers stands: what lies behind its    *)
(* cursor is done.                                                         *)
(***************************************************************************)
EXTENDS Kernel, Calibrate, GainWriter, TLAPS

KernelFields == {"med", "slow", "te_prev", "run_prev", "mode_prev", "mask", "code", "oc", "bad",
          "seen", "perr", "stall", "stalled", "pend", "derate", "i_lim", "lo", "hi",
          "i_ref", "hold", "vel", "cur", "duty", "vbus", "fresh", "r", "stallT", "perrT"}

Bits == {"OC", "OVER_TEMP", "STALL", "POS_ERROR", "SENSOR", "UNDER_VOLT"}

(* R is K but for the fields in S.                                         *)
Same(K, R, S) == DOMAIN R = KernelFields /\ \A f \in KernelFields \ S : R[f] = K[f]

(* What raising faults may do: the code is the last kind to latch.         *)
Grown(K, R) ==
    /\ K.mask \subseteq R.mask
    /\ R.mask # K.mask => R.code \in R.mask \ K.mask
    /\ R.mask = K.mask => R.code = K.code

CodeOK(K) ==
    /\ K.mask \subseteq Bits
    /\ K.mask = {} <=> K.code = "NONE"
    /\ K.code # "NONE" => K.code \in K.mask

LEMMA Constants ==
    /\ DecimMed \in Nat /\ DecimSlow \in Nat /\ CurrentLimit \in Nat /\ DutyMax \in Nat
    /\ Floor \in Nat /\ DecimMed > 1 /\ DecimSlow > 0 /\ CurrentLimit > 0 /\ DutyMax > 0
    /\ Floor > 0 /\ StallYield \in 0 .. CurrentLimit
    /\ Goals \subseteq Int /\ VelErrs \subseteq -1 .. 1 /\ Amps \subseteq Nat
    /\ Rails \subseteq 0 .. 3 /\ Heats \subseteq 0 .. 2
    /\ Modes \subseteq {"OpenLoop", "Current", "Velocity", "Position"}
BY KernelAssumption

LEMMA SameTrans ==
    ASSUME NEW K, NEW R, NEW T, NEW S, NEW U, Same(K, R, S), Same(R, T, U)
    PROVE  Same(K, T, S \cup U)
BY DEF Same

LEMMA GrownTrans ==
    ASSUME NEW K, NEW R, NEW T, Grown(K, R), Grown(R, T)
    PROVE  Grown(K, T)
BY DEF Grown

LEMMA GrownSame ==
    ASSUME NEW K, NEW R, R.mask = K.mask, R.code = K.code
    PROVE  Grown(K, R)
BY DEF Grown

LEMMA GrownCode ==
    ASSUME NEW K, NEW R, CodeOK(K), Grown(K, R), R.mask \subseteq Bits
    PROVE  CodeOK(R)
<1>1. CASE R.mask = K.mask
  BY <1>1 DEF CodeOK, Grown
<1>2. CASE R.mask # K.mask
  <2>1. R.code \in R.mask
    BY <1>2 DEF Grown
  <2>2. R.code # "NONE" /\ R.mask # {}
    BY <2>1 DEF Bits
  <2> QED BY <2>1, <2>2 DEF CodeOK
<1> QED BY <1>1, <1>2

LEMMA RaiseIs ==
    ASSUME NEW K, NEW bit, DOMAIN K = KernelFields
    PROVE  /\ Same(K, raise(K, bit), {"mask", "code"}) /\ Grown(K, raise(K, bit))
           /\ raise(K, bit).mask = K.mask \cup {bit}
<1>1. CASE bit \in K.mask
  BY <1>1 DEF raise, Same, Grown
<1>2. CASE bit \notin K.mask
  <2> DEFINE R == [K EXCEPT !.mask = K.mask \cup {bit}, !.code = bit]
  <2>1. raise(K, bit) = R
    BY <1>2 DEF raise
  <2>2. Same(K, R, {"mask", "code"}) /\ R.mask = K.mask \cup {bit} /\ R.code = bit
    BY DEF Same, KernelFields
  <2> HIDE DEF R
  <2> QED BY <1>2, <2>1, <2>2 DEF Grown
<1> QED BY <1>1, <1>2

-----------------------------------------------------------------------------
(* Arithmetic.                                                             *)

LEMMA ClampIn ==
    ASSUME NEW z \in Int, NEW a \in Int, NEW b \in Int, a <= b
    PROVE  /\ Clamp(z, a, b) \in a .. b
           /\ z \in a .. b => Clamp(z, a, b) = z
           /\ z < a => Clamp(z, a, b) = a
           /\ z > b => Clamp(z, a, b) = b
BY DEF Clamp

LEMMA MinIs ==
    ASSUME NEW a \in Int, NEW b \in Int
    PROVE  Min({a, b}) = IF a <= b THEN a ELSE b
<1> DEFINE m == IF a <= b THEN a ELSE b
<1>1. m \in {a, b} /\ \A y \in {a, b} : m <= y
  OBVIOUS
<1>2. \A z \in {a, b} : (\A y \in {a, b} : z <= y) => z = m
  OBVIOUS
<1> QED BY <1>1, <1>2 DEF Min

LEMMA MaxIs ==
    ASSUME NEW a \in Int, NEW b \in Int
    PROVE  Max({a, b}) = IF a >= b THEN a ELSE b
<1> DEFINE m == IF a >= b THEN a ELSE b
<1>1. m \in {a, b} /\ \A y \in {a, b} : m >= y
  OBVIOUS
<1>2. \A z \in {a, b} : (\A y \in {a, b} : z >= y) => z = m
  OBVIOUS
<1> QED BY <1>1, <1>2 DEF Max

LEMMA MinOfThree ==
    ASSUME NEW a \in Nat, NEW b \in Nat, NEW c \in Nat
    PROVE  Min({a, b, c}) \in 0 .. a
<1> DEFINE S == {a, b, c}
           m == IF a <= b /\ a <= c THEN a ELSE IF b <= c THEN b ELSE c
<1>1. m \in S /\ (\A y \in S : m <= y) /\ m \in 0 .. a
  OBVIOUS
<1>2. \A z \in S : (\A y \in S : z <= y) => z = m
  OBVIOUS
<1>3. Min(S) = m
  BY <1>1, <1>2 DEF Min
<1> QED BY <1>1, <1>3

-----------------------------------------------------------------------------
(* The fields and their types.                                             *)

Typed(K) ==
    /\ DOMAIN K = KernelFields
    /\ K.mask \subseteq Bits
    /\ K.lo \in -CurrentLimit .. 0 /\ K.hi \in 0 .. CurrentLimit
    /\ K.i_ref \in -CurrentLimit .. CurrentLimit
    /\ K.duty \in -DutyMax .. DutyMax /\ K.cur \in -DutyMax .. DutyMax
    /\ K.vel \in -CurrentLimit .. CurrentLimit
    /\ K.med \in 0 .. DecimMed - 1 /\ K.slow \in 0 .. DecimSlow - 1
    /\ K.vbus \in -1 .. 3 /\ K.r \in 0 .. 2 /\ K.derate \in 0 .. CurrentLimit
    /\ K.i_lim \in Nat
    /\ K.te_prev \in BOOLEAN /\ K.run_prev \in BOOLEAN /\ K.hold \in BOOLEAN
    /\ K.pend \in BOOLEAN /\ K.fresh \in BOOLEAN
    /\ K.fresh => K.vbus >= 0

-----------------------------------------------------------------------------
(* The stages of a tick.                                                   *)

AckFields == {"mask", "code", "oc", "perr", "bad", "seen", "pend", "stalled", "stall"}

LEMMA AckIs ==
    ASSUME NEW K, DOMAIN K = KernelFields
    PROVE  /\ Same(K, Ack(K), AckFields \cup {"te_prev"})
           /\ Ack(K).te_prev = torque_enable
           /\ torque_enable /\ ~K.te_prev =>
                Ack(K).mask = {} /\ Ack(K).code = "NONE" /\ Ack(K).pend = FALSE
           /\ ~(torque_enable /\ ~K.te_prev) => Same(K, Ack(K), {"te_prev"})
<1> DEFINE A == IF torque_enable /\ ~K.te_prev THEN ack(K) ELSE K
<1>1. Same(K, ack(K), AckFields) /\ ack(K).mask = {} /\ ack(K).code = "NONE"
      /\ ack(K).pend = FALSE
  BY DEF ack, Same, KernelFields, AckFields
<1>2. /\ Same(K, A, AckFields)
      /\ torque_enable /\ ~K.te_prev => A.mask = {} /\ A.code = "NONE" /\ A.pend = FALSE
      /\ ~(torque_enable /\ ~K.te_prev) => A = K
  BY <1>1 DEF Same
<1>3. Ack(K) = [A EXCEPT !.te_prev = torque_enable]
  BY DEF Ack
<1> HIDE DEF A
<1>4. Same(A, Ack(K), {"te_prev"}) /\ Ack(K).te_prev = torque_enable
  BY <1>2, <1>3 DEF Same, KernelFields
<1>5. Same(K, Ack(K), AckFields \cup {"te_prev"})
  BY <1>2, <1>4, SameTrans
<1>6. Ack(K).mask = A.mask /\ Ack(K).code = A.code /\ Ack(K).pend = A.pend
  BY <1>4 DEF Same, KernelFields
<1> QED BY <1>2, <1>4, <1>5, <1>6

(* R is K but for the fields of S and, possibly, a raised bit.             *)
Raises(K, R, S, bit) ==
    /\ Same(K, R, S \cup {"mask", "code"}) /\ Grown(K, R)
    /\ R.mask \subseteq K.mask \cup {bit}

(* A detector writes its count, and may raise its bit.                     *)
LEMMA Detect ==
    ASSUME NEW K, NEW C, NEW S, NEW bit,
           Same(K, C, S), "mask" \notin S, "code" \notin S
    PROVE  Raises(K, C, S, bit) /\ Raises(K, raise(C, bit), S, bit)
<1>1. DOMAIN C = KernelFields /\ C.mask = K.mask /\ C.code = K.code
  BY DEF Same, KernelFields
<1>2. Grown(K, C) /\ Same(K, C, S \cup {"mask", "code"})
  BY <1>1 DEF Grown, Same
<1>3. /\ Same(C, raise(C, bit), {"mask", "code"}) /\ Grown(C, raise(C, bit))
      /\ raise(C, bit).mask = C.mask \cup {bit}
  BY <1>1, RaiseIs
<1>4. Grown(K, raise(C, bit))
  BY <1>2, <1>3, GrownTrans
<1>5. Same(K, raise(C, bit), S \cup {"mask", "code"})
  BY <1>3, SameTrans
<1> QED BY <1>1, <1>2, <1>3, <1>4, <1>5 DEF Raises

LEMMA OcIs ==
    ASSUME NEW K, NEW over, DOMAIN K = KernelFields
    PROVE  Raises(K, oc_sample(K, over), {"oc"}, "OC")
<1> DEFINE C(n) == [K EXCEPT !.oc = n]
<1>1. \A n : Same(K, C(n), {"oc"})
  BY DEF Same, KernelFields
<1>2. \/ oc_sample(K, over) = K
      \/ \E n : oc_sample(K, over) \in {C(n), raise(C(n), "OC")}
  BY DEF oc_sample
<1>3. Raises(K, K, {"oc"}, "OC")
  BY DEF Same, Grown, Raises
<1> HIDE DEF C
<1>4. ASSUME NEW n
      PROVE  /\ Raises(K, C(n), {"oc"}, "OC")
             /\ Raises(K, raise(C(n), "OC"), {"oc"}, "OC")
  <2>1. Same(K, C(n), {"oc"})
    BY <1>1
  <2> QED BY <2>1, Detect
<1> QED BY <1>2, <1>3, <1>4

LEMMA SensorIs ==
    ASSUME NEW K, NEW moved, DOMAIN K = KernelFields
    PROVE  Raises(K, sensor_sample(K, moved), {"seen", "bad"}, "SENSOR")
<1> DEFINE C(n) == [K EXCEPT !.seen = TRUE, !.bad = n]
<1>1. \A n : Same(K, C(n), {"seen", "bad"})
  BY DEF Same, KernelFields
<1>2. \/ sensor_sample(K, moved) = K
      \/ \E n : sensor_sample(K, moved) \in {C(n), raise(C(n), "SENSOR")}
  BY DEF sensor_sample
<1>3. Raises(K, K, {"seen", "bad"}, "SENSOR")
  BY DEF Same, Grown, Raises
<1> HIDE DEF C
<1>4. ASSUME NEW n
      PROVE  /\ Raises(K, C(n), {"seen", "bad"}, "SENSOR")
             /\ Raises(K, raise(C(n), "SENSOR"), {"seen", "bad"}, "SENSOR")
  <2>1. Same(K, C(n), {"seen", "bad"})
    BY <1>1
  <2> QED BY <2>1, Detect
<1> QED BY <1>2, <1>3, <1>4

LEMMA PosErrIs ==
    ASSUME NEW K, NEW over, DOMAIN K = KernelFields
    PROVE  Raises(K, pos_err_sample(K, over), {"perr"}, "POS_ERROR")
<1> DEFINE C(n) == [K EXCEPT !.perr = n]
<1>1. \A n : Same(K, C(n), {"perr"})
  BY DEF Same, KernelFields
<1>2. \/ pos_err_sample(K, over) = K
      \/ \E n : pos_err_sample(K, over) \in {C(n), raise(C(n), "POS_ERROR")}
  BY DEF pos_err_sample
<1>3. Raises(K, K, {"perr"}, "POS_ERROR")
  BY DEF Same, Grown, Raises
<1> HIDE DEF C
<1>4. ASSUME NEW n
      PROVE  /\ Raises(K, C(n), {"perr"}, "POS_ERROR")
             /\ Raises(K, raise(C(n), "POS_ERROR"), {"perr"}, "POS_ERROR")
  <2>1. Same(K, C(n), {"perr"})
    BY <1>1
  <2> QED BY <2>1, Detect
<1> QED BY <1>2, <1>3, <1>4

LEMMA RunEdgeIs ==
    ASSUME NEW K, NEW run \in BOOLEAN, DOMAIN K = KernelFields, K.run_prev \in BOOLEAN
    PROVE  LET R == RunEdge(K, run)
           IN /\ Same(K, R, {"cur", "vel", "i_ref", "hold", "run_prev", "mode_prev"})
              /\ R.run_prev = run /\ R.mode_prev = mode
              /\ R.hold \in {K.hold, FALSE}
              /\ run # K.run_prev =>
                   R.cur = 0 /\ R.vel = 0 /\ R.i_ref = 0 /\ R.hold = FALSE
              /\ run = K.run_prev => Same(K, R, {"hold", "mode_prev"})
              /\ run /\ mode # K.mode_prev => R.hold = FALSE
<1> DEFINE Z == [K EXCEPT !.cur = 0, !.vel = 0, !.i_ref = 0, !.hold = FALSE, !.run_prev = run]
           E == IF run = K.run_prev THEN K ELSE Z
           C == IF run /\ mode # E.mode_prev THEN [E EXCEPT !.hold = FALSE] ELSE E
           R == [C EXCEPT !.mode_prev = mode]
<1>1. /\ Same(K, Z, {"cur", "vel", "i_ref", "hold", "run_prev"})
      /\ Z.cur = 0 /\ Z.vel = 0 /\ Z.i_ref = 0 /\ Z.hold = FALSE /\ Z.run_prev = run
  BY DEF Same, KernelFields
<1> HIDE DEF Z
<1>2. /\ Same(K, E, {"cur", "vel", "i_ref", "hold", "run_prev"}) /\ E.run_prev = run
      /\ run # K.run_prev => E.cur = 0 /\ E.vel = 0 /\ E.i_ref = 0 /\ E.hold = FALSE
      /\ run = K.run_prev => E = K
      /\ E.hold \in {K.hold, FALSE} /\ E.mode_prev = K.mode_prev
  BY <1>1 DEF Same, KernelFields
<1> HIDE DEF E
<1>3. Same(E, C, {"hold"}) /\ C.hold \in {E.hold, FALSE}
      /\ (run /\ mode # E.mode_prev => C.hold = FALSE)
  BY <1>2 DEF Same, KernelFields
<1> HIDE DEF C
<1>4. Same(C, R, {"mode_prev"}) /\ R.mode_prev = mode
  BY <1>3 DEF Same, KernelFields
<1> HIDE DEF R
<1>5. Same(E, R, {"hold", "mode_prev"}) /\ R.hold = C.hold
  BY <1>3, <1>4 DEF Same, KernelFields
<1>6. Same(K, R, {"cur", "vel", "i_ref", "hold", "run_prev", "mode_prev"})
  BY <1>2, <1>5 DEF Same
<1>7. R.run_prev = E.run_prev /\ R.cur = E.cur /\ R.vel = E.vel /\ R.i_ref = E.i_ref
  BY <1>5 DEF Same, KernelFields
<1>8. RunEdge(K, run) = R
  BY DEF RunEdge, R, C, E, Z
<1>9. run # K.run_prev => R.hold = FALSE
  BY <1>2, <1>3, <1>5
<1> QED BY <1>2, <1>3, <1>4, <1>5, <1>6, <1>7, <1>8, <1>9

LEMMA ProfileIs ==
    ASSUME NEW K, NEW run \in BOOLEAN, NEW in, DOMAIN K = KernelFields
    PROVE  LET R == Profile(K, run, in)
           IN /\ Same(K, R, {"hold"}) /\ (~run => R = K)
              /\ run => R.hold \in BOOLEAN /\ (R.hold => mode = "Position" /\ in.hold)
<1>1. CASE run
  <2> DEFINE R == [K EXCEPT !.hold = mode = "Position" /\ in.hold]
  <2>1. Profile(K, run, in) = R
    BY <1>1 DEF Profile
  <2>2. Same(K, R, {"hold"}) /\ R.hold = (mode = "Position" /\ in.hold)
    BY DEF Same, KernelFields
  <2> HIDE DEF R
  <2>3. R.hold \in BOOLEAN /\ (R.hold => mode = "Position" /\ in.hold)
    BY <2>2
  <2> QED BY <1>1, <2>1, <2>2, <2>3
<1>2. CASE ~run
  BY <1>2 DEF Profile, Same
<1> QED BY <1>1, <1>2

LEMMA FoldIs ==
    ASSUME NEW K, NEW in, Typed(K)
    PROVE  LET R == fold(K, in)
           IN /\ Same(K, R, {"stall", "stalled", "pend", "i_lim", "hi", "lo"})
              /\ R.lo \in -CurrentLimit .. 0 /\ R.hi \in 0 .. CurrentLimit
              /\ R.i_lim \in Nat /\ R.pend \in BOOLEAN
              /\ K.i_ref = 0 /\ in.tau # "trip" => R.pend = K.pend
<1> DEFINE relax == K.stalled /\ in.tau = "low"
           pinned == K.i_lim # 0 /\ Abs(K.i_ref) >= K.i_lim
           n == IF pinned /\ in.slow
                  THEN Min({(IF relax THEN 0 ELSE K.stall) + 1, StallTicks}) ELSE 0
           trip == in.tau = "trip" \/ (n > 0 /\ n >= K.stallT)
           stalled == (K.stalled /\ ~relax) \/ (trip /\ stall_response = "Yield")
           lim == Min({CurrentLimit, K.derate, IF stalled THEN StallYield ELSE CurrentLimit})
           up == IF Polarity THEN "max" ELSE "min"
           hi == IF in.wall = up THEN 0 ELSE lim
           lo == IF in.wall \notin {"none", up} THEN 0 ELSE -lim
           pend == K.pend \/ (trip /\ stall_response = "Fault")
           R == [K EXCEPT !.stall = n, !.stalled = stalled, !.pend = pend, !.i_lim = lim,
                          !.hi = hi, !.lo = lo]
<1>1. lim \in 0 .. CurrentLimit
  <2> DEFINE c == IF stalled THEN StallYield ELSE CurrentLimit
  <2>1. CurrentLimit \in Nat /\ K.derate \in Nat
    BY Constants DEF Typed
  <2>2. c \in Nat
    BY Constants
  <2> HIDE DEF c
  <2>3. Min({CurrentLimit, K.derate, c}) \in 0 .. CurrentLimit
    BY <2>1, <2>2, MinOfThree
  <2> QED BY <2>3 DEF c
<1>2. K.i_ref = 0 /\ in.tau # "trip" => pend = K.pend
  <2> SUFFICES ASSUME K.i_ref = 0, in.tau # "trip" PROVE pend = K.pend
    OBVIOUS
  <2>1. ~pinned
    BY DEF Abs, Typed
  <2>2. n = 0
    BY <2>1
  <2> HIDE DEF n
  <2>3. ~trip
    BY <2>2
  <2> HIDE DEF trip
  <2> QED BY <2>3 DEF Typed
<1>3. fold(K, in) = R
  BY DEF fold
<1>4. hi \in 0 .. CurrentLimit /\ lo \in -CurrentLimit .. 0 /\ lim \in Nat
  <2> HIDE DEF lim
  <2> QED BY <1>1, Constants
<1>5. pend \in BOOLEAN
  OBVIOUS
<1> HIDE DEF n, stalled, lim, hi, lo, pend
<1>6. /\ Same(K, R, {"stall", "stalled", "pend", "i_lim", "hi", "lo"})
      /\ R.pend = pend /\ R.i_lim = lim /\ R.hi = hi /\ R.lo = lo
  BY DEF Same, KernelFields, Typed
<1> HIDE DEF R
<1> QED BY <1>2, <1>3, <1>4, <1>5, <1>6

LEMMA StallIs ==
    ASSUME NEW K, NEW run \in BOOLEAN, DOMAIN K = KernelFields
    PROVE  LET R == Stall(K, run)
           IN /\ Raises(K, R, {}, "STALL")
              /\ run /\ K.pend => "STALL" \in R.mask
              /\ ~(run /\ K.pend) => R = K
<1>1. Same(K, K, {}) /\ Raises(K, K, {}, "STALL")
  BY DEF Same, Grown, Raises
<1>2. Raises(K, raise(K, "STALL"), {}, "STALL")
  BY <1>1, Detect
<1>3. "STALL" \in raise(K, "STALL").mask
  BY RaiseIs
<1> QED BY <1>1, <1>2, <1>3 DEF Stall

(* The band's clip works back into the integrator: both end in range, and  *)
(* from a zeroed integrator neither goes further than one error.           *)
LEMMA VelStepIs ==
    ASSUME NEW K, NEW e \in -1 .. 1, Typed(K)
    PROVE  LET R == vel_step(K, e)
           IN /\ Same(K, R, {"i_ref", "vel"})
              /\ R.i_ref \in K.lo .. K.hi /\ R.vel \in -CurrentLimit .. CurrentLimit
              /\ K.vel = 0 => R.vel \in -1 .. 1
<1> DEFINE raw == K.vel + e
           i == Clamp(raw, K.lo, K.hi)
           side == Max({Abs(K.lo), Abs(K.hi)})
           v == Clamp(K.vel + e + (i - raw), -side, side)
           R == [K EXCEPT !.i_ref = i, !.vel = v]
<1>1. raw \in Int /\ K.lo \in Int /\ K.hi \in Int /\ K.lo <= 0 /\ K.hi >= 0
      /\ K.vel \in Int /\ e \in Int /\ -CurrentLimit <= K.lo /\ K.hi <= CurrentLimit
      /\ CurrentLimit \in Nat
  BY Constants DEF Typed
<1>2. i \in K.lo .. K.hi /\ (K.vel = 0 => i \in -1 .. 1)
  BY <1>1 DEF Clamp
<1>3. side \in 0 .. CurrentLimit
  <2>1. Abs(K.lo) \in Int /\ Abs(K.hi) \in Int /\ Abs(K.lo) >= 0 /\ Abs(K.hi) >= 0
        /\ Abs(K.lo) <= CurrentLimit /\ Abs(K.hi) <= CurrentLimit
    BY <1>1 DEF Abs
  <2>2. side = IF Abs(K.lo) >= Abs(K.hi) THEN Abs(K.lo) ELSE Abs(K.hi)
    BY <2>1, MaxIs
  <2> QED BY <2>1, <2>2
<1> HIDE DEF side, i
<1>4. K.vel + e + (i - raw) = i
  BY <1>1, <1>2
<1>5. v = Clamp(i, -side, side)
  BY <1>4
<1>6. v \in -CurrentLimit .. CurrentLimit /\ (K.vel = 0 => v \in -1 .. 1)
  BY <1>1, <1>2, <1>3, <1>5 DEF Clamp
<1>7. vel_step(K, e) = R
  BY DEF vel_step, i, side
<1> HIDE DEF v
<1>8. Same(K, R, {"i_ref", "vel"}) /\ R.i_ref = i /\ R.vel = v
  BY DEF Same, KernelFields, Typed
<1> HIDE DEF R
<1> QED BY <1>2, <1>6, <1>7, <1>8

LEMMA CommandIs ==
    ASSUME NEW K, NEW run \in BOOLEAN, NEW in, Typed(K), in.velErr \in -1 .. 1,
           mode \in {"OpenLoop", "Current", "Velocity", "Position"},
           run /\ K.hold => mode = "Position"
    PROVE  LET R == Command(K, run, in)
           IN /\ Same(K, R, {"i_ref", "vel"})
              /\ R.i_ref \in -CurrentLimit .. CurrentLimit
              /\ R.vel \in -CurrentLimit .. CurrentLimit
              /\ ~run => R = K
              /\ run /\ K.hold => R.i_ref = 0
              /\ run /\ mode # "Current" => R.i_ref \in K.lo .. K.hi
              /\ K.vel = 0 => R.vel \in -1 .. 1
<1> DEFINE Goal(R) ==
             /\ Same(K, R, {"i_ref", "vel"})
             /\ R.i_ref \in -CurrentLimit .. CurrentLimit
             /\ R.vel \in -CurrentLimit .. CurrentLimit
             /\ ~run => R = K
             /\ run /\ K.hold => R.i_ref = 0
             /\ run /\ mode # "Current" => R.i_ref \in K.lo .. K.hi
             /\ K.vel = 0 => R.vel \in -1 .. 1
<1>0. /\ DOMAIN K = KernelFields
      /\ K.lo \in Int /\ K.hi \in Int /\ K.lo <= 0 /\ K.hi >= 0 /\ CurrentLimit \in Nat
      /\ K.i_ref \in -CurrentLimit .. CurrentLimit /\ K.vel \in -CurrentLimit .. CurrentLimit
      /\ -CurrentLimit <= K.lo /\ K.hi <= CurrentLimit /\ K.hold \in BOOLEAN
  BY Constants DEF Typed
<1>1. ASSUME ~run PROVE Goal(Command(K, run, in))
  <2>1. Command(K, run, in) = K
    BY <1>1 DEF Command
  <2>2. Goal(K)
    BY <1>0, <1>1 DEF Same
  <2> HIDE DEF Goal
  <2> QED BY <2>1, <2>2
<1>2. ASSUME run, mode = "Position", K.hold
      PROVE  Goal(Command(K, run, in))
  <2> DEFINE R == [K EXCEPT !.i_ref = 0, !.vel = 0]
  <2>1. Command(K, run, in) = R
    BY <1>2 DEF Command
  <2>2. Same(K, R, {"i_ref", "vel"}) /\ R.i_ref = 0 /\ R.vel = 0
    BY <1>0 DEF Same, KernelFields
  <2> HIDE DEF R
  <2>3. Goal(R)
    BY <1>0, <1>2, <2>2
  <2> HIDE DEF Goal
  <2> QED BY <2>1, <2>3
<1>3. ASSUME run /\ mode \in {"Velocity", "Position"} /\ ~K.hold
      PROVE  Goal(Command(K, run, in))
  <2>1. Command(K, run, in) = vel_step(K, in.velErr)
    BY <1>3 DEF Command
  <2> DEFINE R == vel_step(K, in.velErr)
  <2>2. /\ Same(K, R, {"i_ref", "vel"})
        /\ R.i_ref \in K.lo .. K.hi /\ R.vel \in -CurrentLimit .. CurrentLimit
        /\ K.vel = 0 => R.vel \in -1 .. 1
    BY VelStepIs
  <2> HIDE DEF R
  <2>3. Goal(R)
    BY <1>0, <1>3, <2>2
  <2> HIDE DEF Goal
  <2> QED BY <2>1, <2>3 DEF R
<1>4. ASSUME run /\ mode = "Current"
      PROVE  Goal(Command(K, run, in))
  <2>1. Command(K, run, in) = K
    BY <1>4 DEF Command
  <2>2. Goal(K)
    BY <1>0, <1>4 DEF Same
  <2> HIDE DEF Goal
  <2> QED BY <2>1, <2>2
<1>5. ASSUME run /\ mode = "OpenLoop"
      PROVE  Goal(Command(K, run, in))
  <2> DEFINE R == [K EXCEPT !.i_ref = 0]
  <2>1. Command(K, run, in) = R
    BY <1>5 DEF Command
  <2>2. Same(K, R, {"i_ref", "vel"}) /\ R.i_ref = 0 /\ R.vel = K.vel
    BY <1>0 DEF Same, KernelFields
  <2> HIDE DEF R
  <2>3. Goal(R)
    BY <1>0, <1>5, <2>2
  <2> HIDE DEF Goal
  <2> QED BY <2>1, <2>3
<1>6. Goal(Command(K, run, in))
  <2> HIDE DEF Goal
  <2> QED BY <1>0, <1>1, <1>2, <1>3, <1>4, <1>5
<1> QED BY <1>6

LEMMA SupplyIs ==
    ASSUME NEW K, Typed(K), rail \in 0 .. 3
    PROVE  LET R == Supply(K)
           IN /\ Same(K, R, {"vbus", "fresh"}) /\ R.fresh \in BOOLEAN
              /\ R.vbus \in -1 .. 3 /\ (R.fresh => R.vbus >= 0)
              /\ \/ R = K
                 \/ R.fresh = TRUE /\ (rail = 3 => R.vbus = 3 \/ R.vbus = K.vbus + 1)
<1>1. CASE i_valid(K)
  <2> DEFINE w == IF K.vbus = -1 THEN rail ELSE Toward(K.vbus, rail)
             R == [K EXCEPT !.vbus = w, !.fresh = TRUE]
  <2>1. w \in 0 .. 3 /\ (rail = 3 => w = 3 \/ w = K.vbus + 1)
    BY DEF Toward, Typed
  <2>2. Supply(K) = R
    BY <1>1 DEF Supply
  <2> HIDE DEF w
  <2>3. Same(K, R, {"vbus", "fresh"}) /\ R.vbus = w /\ R.fresh = TRUE
    BY DEF Same, KernelFields, Typed
  <2> HIDE DEF R
  <2>4. R.vbus \in -1 .. 3 /\ R.vbus >= 0 /\ (rail = 3 => R.vbus = 3 \/ R.vbus = K.vbus + 1)
    BY <2>1, <2>3
  <2>5. R.fresh \in BOOLEAN
    BY <2>3
  <2> QED BY <2>2, <2>3, <2>4, <2>5
<1>2. CASE ~i_valid(K)
  <2>1. Supply(K) = K
    BY <1>2 DEF Supply
  <2> QED BY <2>1 DEF Same, Typed
<1> QED BY <1>1, <1>2

(* The SLOW chain raises its two faults, undervolt only on a fresh sample, *)
(* which it consumes.                                                      *)
SlowFields == {"r", "stallT", "perrT", "derate", "mask", "code", "fresh"}
LEMMA SlowIs ==
    ASSUME NEW K, NEW in, Typed(K), heat \in 0 .. 2
    PROVE  LET R == Slow(K, in)
           IN /\ Same(K, R, SlowFields)
              /\ Grown(K, R)
              /\ R.mask \subseteq K.mask \cup {"OVER_TEMP", "UNDER_VOLT"}
              /\ "UNDER_VOLT" \in R.mask \ K.mask => K.fresh /\ K.vbus < RailTop - 1
              /\ R.fresh = FALSE /\ R.r \in 0 .. 2 /\ R.derate \in 0 .. CurrentLimit
<1> DEFINE R1 == Thermometer(K, in)
           R2 == [R1 EXCEPT !.stallT = StallTicks, !.perrT = PosErrTicks]
           D == update_derate(R2)
           T == IF D.r >= 2 THEN raise(D, "OVER_TEMP") ELSE D
           V == IF T.fresh /\ T.vbus < RailTop - 1 THEN raise(T, "UNDER_VOLT") ELSE T
           R == [V EXCEPT !.fresh = FALSE]
<1>0. DOMAIN K = KernelFields /\ K.r \in 0 .. 2 /\ CurrentLimit \in Nat
  BY Constants DEF Typed
<1>1. Same(K, R1, {"r"}) /\ R1.r \in 0 .. 2
  <2>1. CASE i_valid(K) /\ in.slow
    <3> DEFINE w == Toward(K.r, heat)
               Q == [K EXCEPT !.r = w]
    <3>1. w \in 0 .. 2
      BY <1>0 DEF Toward
    <3>2. R1 = Q
      BY <2>1 DEF Thermometer
    <3> HIDE DEF w
    <3>3. Same(K, Q, {"r"}) /\ Q.r = w
      BY <1>0 DEF Same, KernelFields
    <3> HIDE DEF Q, R1
    <3> QED BY <3>1, <3>2, <3>3
  <2>2. CASE ~(i_valid(K) /\ in.slow)
    BY <1>0, <2>2 DEF Thermometer, Same
  <2> QED BY <2>1, <2>2
<1> HIDE DEF R1
<1>2. Same(R1, R2, {"stallT", "perrT"})
  BY <1>1 DEF Same, KernelFields
<1>3. Same(K, R2, {"r", "stallT", "perrT"}) /\ R2.r \in 0 .. 2
  BY <1>1, <1>2 DEF Same, KernelFields
<1> HIDE DEF R2
<1>4. Same(R2, D, {"derate"}) /\ D.derate \in 0 .. CurrentLimit
  <2> DEFINE w == IF R2.r >= 2 THEN 0 ELSE IF R2.r = 0 THEN CurrentLimit
                                               ELSE CurrentLimit \div 2
             Q == [R2 EXCEPT !.derate = w]
  <2>1. w \in 0 .. CurrentLimit
    BY <1>0, <1>3
  <2>2. D = Q
    BY DEF update_derate
  <2> HIDE DEF w
  <2>3. Same(R2, Q, {"derate"}) /\ Q.derate = w
    BY <1>3 DEF Same, KernelFields
  <2> HIDE DEF Q, D
  <2> QED BY <2>1, <2>2, <2>3
<1> HIDE DEF D
<1>5. /\ Same(K, D, {"r", "stallT", "perrT", "derate"}) /\ D.r \in 0 .. 2
      /\ D.derate \in 0 .. CurrentLimit
      /\ DOMAIN D = KernelFields /\ D.mask = K.mask /\ D.code = K.code
  BY <1>3, <1>4 DEF Same, KernelFields
<1>6. Raises(D, T, {}, "OVER_TEMP")
  <2>1. Same(D, D, {})
    BY <1>5 DEF Same
  <2>2. Raises(D, D, {}, "OVER_TEMP") /\ Raises(D, raise(D, "OVER_TEMP"), {}, "OVER_TEMP")
    BY <2>1, Detect
  <2> QED BY <2>2
<1> HIDE DEF T
<1>7. Raises(T, V, {}, "UNDER_VOLT") /\ (V = T \/ (T.fresh /\ T.vbus < RailTop - 1))
  <2>1. Same(T, T, {})
    BY <1>6 DEF Same, Raises
  <2>2. Raises(T, T, {}, "UNDER_VOLT") /\ Raises(T, raise(T, "UNDER_VOLT"), {}, "UNDER_VOLT")
    BY <2>1, Detect
  <2> QED BY <2>2
<1> HIDE DEF V
<1>8. Same(V, R, {"fresh"}) /\ R.fresh = FALSE
  BY <1>7 DEF Same, KernelFields, Raises
<1> HIDE DEF R
<1>9. Same(D, V, {"mask", "code"}) /\ Grown(D, V)
  <2>1. Same(D, T, {"mask", "code"}) /\ Same(T, V, {"mask", "code"})
    BY <1>6, <1>7 DEF Raises, Same
  <2>2. Grown(D, V)
    BY <1>6, <1>7, GrownTrans DEF Raises
  <2> QED BY <2>1, <2>2 DEF Same
<1>10. Same(K, R, SlowFields) /\ R.r \in 0 .. 2 /\ R.derate \in 0 .. CurrentLimit
       /\ R.mask = V.mask /\ R.code = V.code
  <2>1. Same(K, R, SlowFields)
    BY <1>5, <1>8, <1>9 DEF Same, SlowFields
  <2>2. R.r = D.r /\ R.derate = D.derate /\ R.mask = V.mask /\ R.code = V.code
    BY <1>8, <1>9 DEF Same, KernelFields
  <2> QED BY <1>5, <2>1, <2>2
<1>11. Grown(K, R)
  BY <1>5, <1>9, <1>10 DEF Grown
<1>12. T.fresh = K.fresh /\ T.vbus = K.vbus
  BY <1>5, <1>6 DEF Raises, Same, KernelFields
<1>13. Slow(K, in) = R
  BY DEF Slow, R, V, T, D, R2, R1
<1>14. R.mask \subseteq K.mask \cup {"OVER_TEMP", "UNDER_VOLT"}
  BY <1>5, <1>6, <1>7, <1>10 DEF Raises
<1>15. "UNDER_VOLT" \in R.mask \ K.mask => K.fresh /\ K.vbus < RailTop - 1
  BY <1>5, <1>6, <1>7, <1>10, <1>12 DEF Raises
<1> QED BY <1>8, <1>10, <1>11, <1>13, <1>14, <1>15

LEMMA CurStepIs ==
    ASSUME NEW K, NEW i \in Int, Typed(K)
    PROVE  LET R == cur_step(K, i)
           IN /\ Same(K, R, {"duty", "cur"})
              /\ R.duty \in -DutyMax .. DutyMax /\ R.cur \in -DutyMax .. DutyMax
              /\ K.cur = 0 => R.duty \in -1 .. 1
<1> DEFINE e == Clamp(K.i_ref - i, -1, 1)
           u == K.cur + e
           u_cl == Clamp(u, -DutyMax, DutyMax)
           c == Clamp(K.cur + e + (u_cl - u), -DutyMax, DutyMax)
           R == [K EXCEPT !.duty = u_cl, !.cur = c]
<1>1. K.i_ref \in Int /\ K.cur \in Int /\ DutyMax \in Nat /\ DutyMax > 0
  BY Constants DEF Typed
<1>2. e \in -1 .. 1
  BY <1>1 DEF Clamp
<1> HIDE DEF e
<1>3. u_cl \in -DutyMax .. DutyMax /\ (K.cur = 0 => u_cl \in -1 .. 1)
  BY <1>1, <1>2 DEF Clamp
<1> HIDE DEF u_cl
<1>4. c \in -DutyMax .. DutyMax
  BY <1>1, <1>2, <1>3 DEF Clamp
<1>5. cur_step(K, i) = R
  BY DEF cur_step, e, u_cl
<1> HIDE DEF c
<1>6. Same(K, R, {"duty", "cur"}) /\ R.duty = u_cl /\ R.cur = c
  BY DEF Same, KernelFields, Typed
<1> HIDE DEF R
<1> QED BY <1>3, <1>4, <1>5, <1>6

LEMMA MeasuredIs ==
    ASSUME NEW K, NEW in, in.amp \in Nat
    PROVE  Measured(K, in) \in Int
BY DEF Measured

(* What the drive of a closed mode does to the kernel.                     *)
Driven(K, R) ==
    /\ Same(K, R, {"duty", "cur", "i_ref"})
    /\ R.duty \in -DutyMax .. DutyMax /\ R.cur \in -DutyMax .. DutyMax
    /\ R.i_ref \in -CurrentLimit .. CurrentLimit
    /\ mode # "Current" => R.i_ref = K.i_ref
    /\ mode = "Current" => R.i_ref \in K.lo .. K.hi
    /\ K.cur = 0 => R.duty \in -1 .. 1

LEMMA ClosedLoopIs ==
    ASSUME NEW K, NEW in, Typed(K), goal \in Int, in.amp \in Nat
    PROVE  LET d == ClosedLoop(K, in)
           IN Driven(K, d.s) /\ d.c \in {"Coast", "Drive"}
<1> DEFINE g == Clamp(goal, K.lo, K.hi)
           C == IF mode = "Current" THEN [K EXCEPT !.i_ref = g] ELSE K
<1>1. DOMAIN K = KernelFields /\ K.lo \in Int /\ K.hi \in Int /\ K.lo <= 0 /\ 0 <= K.hi
      /\ -CurrentLimit <= K.lo /\ K.hi <= CurrentLimit /\ CurrentLimit \in Nat
      /\ K.i_ref \in -CurrentLimit .. CurrentLimit
      /\ DutyMax \in Nat /\ DutyMax > 0
  BY Constants DEF Typed
<1>2. g \in K.lo .. K.hi
  BY <1>1 DEF Clamp
<1> HIDE DEF g
<1>3. /\ Same(K, C, {"i_ref"}) /\ (mode # "Current" => C.i_ref = K.i_ref)
      /\ mode = "Current" => C.i_ref = g
  BY <1>1 DEF Same, KernelFields
<1> HIDE DEF C
<1>4. C.i_ref \in -CurrentLimit .. CurrentLimit
      /\ (mode = "Current" => C.i_ref \in K.lo .. K.hi)
  BY <1>1, <1>2, <1>3
<1>5. DOMAIN C = KernelFields /\ C.cur = K.cur /\ C.cur \in -DutyMax .. DutyMax
  BY <1>3 DEF Same, KernelFields, Typed
<1>6. ASSUME NEW R, Same(C, R, {"duty", "cur"}),
             R.duty \in -DutyMax .. DutyMax, R.cur \in -DutyMax .. DutyMax,
             C.cur = 0 => R.duty \in -1 .. 1
      PROVE  Driven(K, R)
  <2>1. R.i_ref = C.i_ref
    BY <1>6 DEF Same, KernelFields
  <2>2. Same(K, R, {"duty", "cur", "i_ref"})
    BY <1>3, <1>6 DEF Same
  <2> QED BY <1>3, <1>4, <1>5, <1>6, <2>1, <2>2 DEF Driven
<1>7. Driven(K, [C EXCEPT !.duty = 0])
  <2> DEFINE R == [C EXCEPT !.duty = 0]
  <2>1. Same(C, R, {"duty", "cur"}) /\ R.duty = 0 /\ R.cur = C.cur
    BY <1>5 DEF Same, KernelFields
  <2> HIDE DEF R
  <2>2. R.duty \in -DutyMax .. DutyMax /\ R.duty \in -1 .. 1
    BY <1>1, <2>1
  <2>3. Driven(K, R)
    BY <1>5, <1>6, <2>1, <2>2
  <2> QED BY <2>3 DEF R
<1>8. Driven(K, [C EXCEPT !.cur = 0, !.duty = 0])
  <2> DEFINE R == [C EXCEPT !.cur = 0, !.duty = 0]
  <2>1. Same(C, R, {"duty", "cur"}) /\ R.duty = 0 /\ R.cur = 0
    BY <1>5 DEF Same, KernelFields
  <2> HIDE DEF R
  <2>2. R.duty \in -DutyMax .. DutyMax /\ R.duty \in -1 .. 1 /\ R.cur \in -DutyMax .. DutyMax
    BY <1>1, <2>1
  <2>3. Driven(K, R)
    BY <1>6, <2>1, <2>2
  <2> QED BY <2>3 DEF R
<1>9. Driven(K, cur_step(C, Measured(K, in)))
  <2>1. Typed(C)
    BY <1>3, <1>4 DEF Typed, Same, KernelFields
  <2>2. Measured(K, in) \in Int
    BY MeasuredIs
  <2> DEFINE R == cur_step(C, Measured(K, in))
  <2>3. /\ Same(C, R, {"duty", "cur"})
        /\ R.duty \in -DutyMax .. DutyMax /\ R.cur \in -DutyMax .. DutyMax
        /\ C.cur = 0 => R.duty \in -1 .. 1
    BY <2>1, <2>2, CurStepIs
  <2> HIDE DEF R
  <2>4. Driven(K, R)
    BY <1>6, <2>3
  <2> QED BY <2>4 DEF R
<1> DEFINE D1 == [s |-> [C EXCEPT !.duty = 0], c |-> "Coast"]
           D2 == [s |-> [C EXCEPT !.cur = 0, !.duty = 0], c |-> "Drive"]
           D3 == [s |-> cur_step(C, Measured(K, in)), c |-> "Drive"]
<1>10. ClosedLoop(K, in) \in {D1, D2, D3}
  BY DEF ClosedLoop, C, g
<1>11. /\ D1.s = [C EXCEPT !.duty = 0] /\ D1.c = "Coast"
       /\ D2.s = [C EXCEPT !.cur = 0, !.duty = 0] /\ D2.c = "Drive"
       /\ D3.s = cur_step(C, Measured(K, in)) /\ D3.c = "Drive"
  OBVIOUS
<1> HIDE DEF D1, D2, D3
<1> QED BY <1>7, <1>8, <1>9, <1>10, <1>11

LEMMA DriveIs ==
    ASSUME NEW K, NEW run \in BOOLEAN, NEW in, Typed(K), goal \in Int, in.amp \in Nat
    PROVE  LET d == Drive(K, run, in)
           IN /\ d.c \in {"Disabled", "Coast", "Drive"}
              /\ d.c = "Disabled" <=> ~(run /\ K.mask = {})
              /\ Same(K, d.s, {"duty", "cur", "i_ref"})
              /\ d.s.duty \in -DutyMax .. DutyMax /\ d.s.cur \in -DutyMax .. DutyMax
              /\ d.s.i_ref \in -CurrentLimit .. CurrentLimit
              /\ ~(run /\ K.mask = {}) => Same(K, d.s, {"duty"})
              /\ mode # "Current" => d.s.i_ref = K.i_ref
              /\ run /\ K.mask = {} /\ mode = "Current" => d.s.i_ref \in K.lo .. K.hi
              /\ run /\ K.mask = {} /\ K.cur = 0 /\ mode # "OpenLoop" => d.s.duty \in -1 .. 1
<1>0. DOMAIN K = KernelFields /\ DutyMax \in Nat /\ K.cur \in -DutyMax .. DutyMax
      /\ K.i_ref \in -CurrentLimit .. CurrentLimit
  BY Constants DEF Typed
<1>1. CASE ~(run /\ K.mask = {})
  <2> DEFINE R == [K EXCEPT !.duty = 0]
             D == [s |-> R, c |-> "Disabled"]
  <2>1. Drive(K, run, in) = D
    BY <1>1 DEF Drive
  <2>2. Same(K, R, {"duty"}) /\ R.duty = 0 /\ R.cur = K.cur /\ R.i_ref = K.i_ref
    BY <1>0 DEF Same, KernelFields
  <2>3. D.s = R /\ D.c = "Disabled"
    OBVIOUS
  <2> HIDE DEF R, D
  <2>4. Same(K, R, {"duty", "cur", "i_ref"})
    BY <2>2 DEF Same
  <2>5. R.duty \in -DutyMax .. DutyMax
    BY <1>0, <2>2
  <2> QED BY <1>0, <1>1, <2>1, <2>2, <2>3, <2>4, <2>5
<1>2. CASE run /\ K.mask = {} /\ mode = "OpenLoop"
  <2> DEFINE g == Clamp(goal, -DutyMax, DutyMax)
             R == [K EXCEPT !.duty = g]
             D == [s |-> R, c |-> "Drive"]
  <2>0. g \in -DutyMax .. DutyMax
    BY <1>0 DEF Clamp
  <2>1. Drive(K, run, in) = D
    BY <1>2 DEF Drive
  <2> HIDE DEF g
  <2>2. Same(K, R, {"duty"}) /\ R.duty = g /\ R.cur = K.cur /\ R.i_ref = K.i_ref
    BY <1>0 DEF Same, KernelFields
  <2>3. D.s = R /\ D.c = "Drive"
    OBVIOUS
  <2> HIDE DEF R, D
  <2>4. Same(K, R, {"duty", "cur", "i_ref"})
    BY <2>2 DEF Same
  <2> QED BY <1>0, <1>2, <2>0, <2>1, <2>2, <2>3, <2>4
<1>3. CASE run /\ K.mask = {} /\ mode # "OpenLoop"
  <2> DEFINE d == ClosedLoop(K, in)
  <2>1. Drive(K, run, in) = d
    BY <1>3 DEF Drive
  <2>2. Driven(K, d.s) /\ d.c \in {"Coast", "Drive"}
    BY ClosedLoopIs
  <2> HIDE DEF d
  <2> QED BY <1>3, <2>1, <2>2 DEF Driven
<1> QED BY <1>1, <1>2, <1>3

-----------------------------------------------------------------------------
(* The MEDIUM chain.                                                       *)

(* What holds of the kernel's own state after a tick, and from the run     *)
(* edge of a tick on.                                                      *)
Core(K) ==
    /\ Typed(K) /\ CodeOK(K)
    /\ K.run_prev => K.te_prev
    /\ K.te_prev => K.run_prev \/ K.mask # {}
    /\ ~K.run_prev => K.hold = FALSE /\ K.i_ref = 0 /\ K.vel = 0 /\ K.cur = 0
    /\ K.hold => K.run_prev /\ K.mode_prev = "Position" /\ K.i_ref = 0
    /\ K.run_prev /\ K.pend => "STALL" \in K.mask

Band(K) == K.i_ref \in K.lo .. K.hi

(* An undervolt has come back at most as often as the estimate has risen.  *)
Rise(K, q) ==
    q \in 0 .. 2 /\ (rail = 3 => q <= K.vbus + (IF K.fresh THEN 0 ELSE 1))

(* The fields the chain writes after the command.                          *)
Late == {"vbus", "fresh", "seen", "bad", "perr", "r", "stallT", "perrT", "derate",
         "mask", "code", "slow", "med"}

LEMMA CoreLate ==
    ASSUME NEW K, NEW R, Core(K), Same(K, R, Late), Grown(K, R), Typed(R)
    PROVE  Core(R)
<1>1. /\ R.run_prev = K.run_prev /\ R.te_prev = K.te_prev /\ R.mode_prev = K.mode_prev
      /\ R.hold = K.hold /\ R.i_ref = K.i_ref /\ R.vel = K.vel /\ R.cur = K.cur
      /\ R.pend = K.pend
  BY DEF Same, KernelFields, Late
<1>2. CodeOK(R)
  BY GrownCode DEF Core, Typed
<1>3. K.mask \subseteq R.mask
  BY DEF Grown
<1> QED BY <1>1, <1>2, <1>3 DEF Core

LEMMA LastIs ==
    ASSUME NEW K, NEW in, Typed(K), heat \in 0 .. 2
    PROVE  LET R == IF K.slow + 1 >= DecimSlow THEN [Slow(K, in) EXCEPT !.slow = 0]
                                               ELSE [K EXCEPT !.slow = K.slow + 1]
           IN /\ Same(K, R, SlowFields \cup {"slow"}) /\ Grown(K, R) /\ Typed(R)
              /\ R.mask \subseteq K.mask \cup {"OVER_TEMP", "UNDER_VOLT"}
              /\ "UNDER_VOLT" \in R.mask \ K.mask =>
                   K.fresh /\ K.vbus < RailTop - 1 /\ R.fresh = FALSE
              /\ R.fresh \in {K.fresh, FALSE}
<1>0. DOMAIN K = KernelFields /\ K.slow \in 0 .. DecimSlow - 1 /\ DecimSlow \in Nat /\ DecimSlow > 0
  BY Constants DEF Typed
<1>1. CASE K.slow + 1 >= DecimSlow
  <2> DEFINE V == Slow(K, in)
             R == [V EXCEPT !.slow = 0]
  <2>1. /\ Same(K, V, SlowFields)
        /\ Grown(K, V)
        /\ V.mask \subseteq K.mask \cup {"OVER_TEMP", "UNDER_VOLT"}
        /\ "UNDER_VOLT" \in V.mask \ K.mask => K.fresh /\ K.vbus < RailTop - 1
        /\ V.fresh = FALSE /\ V.r \in 0 .. 2 /\ V.derate \in 0 .. CurrentLimit
    BY SlowIs
  <2> HIDE DEF V
  <2>2. Same(V, R, {"slow"}) /\ R.slow = 0
    BY <2>1 DEF Same, KernelFields
  <2> HIDE DEF R
  <2>3. R.mask = V.mask /\ R.code = V.code /\ R.fresh = V.fresh /\ R.r = V.r
        /\ R.derate = V.derate
    BY <2>2 DEF Same, KernelFields
  <2>4. Grown(K, R)
    BY <2>1, <2>3 DEF Grown
  <2>5. Same(K, R, SlowFields \cup {"slow"})
    BY <2>1, <2>2, SameTrans
  <2>6. R.slow \in 0 .. DecimSlow - 1
    BY <1>0, <2>2
  <2>7. R.mask \subseteq Bits
    BY <2>1, <2>3 DEF Typed, Bits
  <2>8. Typed(R)
    BY <2>1, <2>3, <2>5, <2>6, <2>7, ZenonT(40) DEF Typed, Same, KernelFields, SlowFields
  <2> QED BY <1>1, <2>1, <2>3, <2>4, <2>5, <2>8 DEF R, V
<1>2. CASE ~(K.slow + 1 >= DecimSlow)
  <2> DEFINE R == [K EXCEPT !.slow = K.slow + 1]
  <2>1. Same(K, R, {"slow"}) /\ R.slow = K.slow + 1
    BY <1>0 DEF Same, KernelFields
  <2> HIDE DEF R
  <2>2. R.mask = K.mask /\ R.code = K.code /\ R.fresh = K.fresh
    BY <2>1 DEF Same, KernelFields
  <2>3. R.slow \in 0 .. DecimSlow - 1
    BY <1>0, <1>2, <2>1
  <2>4. Same(K, R, SlowFields \cup {"slow"})
    BY <2>1 DEF Same
  <2>5. Typed(R)
    BY <2>1, <2>3 DEF Typed, Same, KernelFields
  <2> QED BY <1>2, <2>2, <2>4, <2>5, GrownSame DEF R
<1> QED BY <1>1, <1>2

(* A tick's inputs, and the block it reads.                                *)
Sampled(in) ==
    /\ in.velErr \in -1 .. 1 /\ in.amp \in Nat
    /\ mode \in {"OpenLoop", "Current", "Velocity", "Position"} /\ goal \in Int
    /\ rail \in 0 .. 3 /\ heat \in 0 .. 2 /\ torque_enable \in BOOLEAN

(* Up to the command: a pending stall has latched, a parked loop has a     *)
(* zero reference, and the others are in the new band.                     *)
Commanded(E, run, in) == Command(Stall(fold(Profile(E, run, in), in), run), run, in)

LEMMA CommandedIs ==
    ASSUME NEW E, NEW run \in BOOLEAN, NEW in, Sampled(in), Core(E), E.run_prev = run,
           E.mode_prev = mode, run => E.pend = FALSE
    PROVE  LET R == Commanded(E, run, in)
           IN /\ Same(E, R, {"hold", "stall", "stalled", "pend", "i_lim", "hi", "lo",
                             "mask", "code", "i_ref", "vel"})
              /\ Grown(E, R) /\ Core(R)
              /\ R.mask \subseteq E.mask \cup {"STALL"}
              /\ E.i_ref = 0 /\ in.tau # "trip" => R.mask = E.mask
              /\ Band(R) \/ (run /\ mode = "Current")
              /\ E.vel = 0 => R.vel \in -1 .. 1
<1> DEFINE P == Profile(E, run, in)
           F == fold(P, in)
           G == Stall(F, run)
           R == Command(G, run, in)
<1>0. Typed(E) /\ CodeOK(E) /\ DOMAIN E = KernelFields
  BY DEF Core, Typed
<1>1. /\ Same(E, P, {"hold"}) /\ (~run => P = E)
      /\ run => P.hold \in BOOLEAN /\ (P.hold => mode = "Position" /\ in.hold)
  BY <1>0, ProfileIs
<1> HIDE DEF P
<1>2. Typed(P) /\ DOMAIN P = KernelFields
  <2>1. CASE run
    BY <1>0, <1>1, <2>1 DEF Typed, Same, KernelFields
  <2>2. CASE ~run
    BY <1>0, <1>1, <2>2
  <2> QED BY <2>1, <2>2
<1>3. /\ Same(P, F, {"stall", "stalled", "pend", "i_lim", "hi", "lo"})
      /\ F.lo \in -CurrentLimit .. 0 /\ F.hi \in 0 .. CurrentLimit
      /\ F.i_lim \in Nat /\ F.pend \in BOOLEAN
      /\ P.i_ref = 0 /\ in.tau # "trip" => F.pend = P.pend
  BY <1>2, FoldIs
<1> HIDE DEF F
<1>4. Typed(F) /\ DOMAIN F = KernelFields
  BY <1>2, <1>3 DEF Typed, Same, KernelFields
<1>5. /\ Raises(F, G, {}, "STALL")
      /\ run /\ F.pend => "STALL" \in G.mask
      /\ ~(run /\ F.pend) => G = F
  BY <1>4, StallIs
<1> HIDE DEF G
<1>6. /\ P.i_ref = E.i_ref /\ P.pend = E.pend /\ P.mask = E.mask /\ P.code = E.code
      /\ F.mask = P.mask /\ F.code = P.code /\ F.hold = P.hold /\ F.i_ref = P.i_ref
      /\ P.vel = E.vel /\ F.vel = P.vel /\ P.cur = E.cur /\ F.cur = P.cur
  BY <1>1, <1>3 DEF Same, KernelFields
<1>7. /\ Same(F, G, {"mask", "code"}) /\ Grown(F, G) /\ G.mask \subseteq F.mask \cup {"STALL"}
  BY <1>5 DEF Raises, Same
<1>8. G.mask \subseteq Bits
  BY <1>0, <1>6, <1>7 DEF Typed, Bits
<1>9. Typed(G)
  BY <1>4, <1>7, <1>8 DEF Typed, Same, KernelFields
<1>10. G.hold = F.hold /\ G.vel = F.vel /\ G.i_ref = F.i_ref /\ G.cur = F.cur
       /\ G.pend = F.pend /\ G.lo = F.lo /\ G.hi = F.hi
  BY <1>7 DEF Same, KernelFields
<1>11. /\ Same(G, R, {"i_ref", "vel"})
       /\ R.i_ref \in -CurrentLimit .. CurrentLimit
       /\ R.vel \in -CurrentLimit .. CurrentLimit
       /\ ~run => R = G
       /\ run /\ G.hold => R.i_ref = 0
       /\ run /\ mode # "Current" => R.i_ref \in G.lo .. G.hi
       /\ G.vel = 0 => R.vel \in -1 .. 1
  BY <1>1, <1>6, <1>9, <1>10, CommandIs DEF Sampled
<1> HIDE DEF R
<1>12. Typed(R)
  BY <1>9, <1>11 DEF Typed, Same, KernelFields
<1>13. R.mask = G.mask /\ R.code = G.code /\ R.hold = G.hold /\ R.pend = G.pend
       /\ R.cur = G.cur /\ R.lo = G.lo /\ R.hi = G.hi
  BY <1>11 DEF Same, KernelFields
<1>14. Same(E, R, {"hold", "stall", "stalled", "pend", "i_lim", "hi", "lo",
                   "mask", "code", "i_ref", "vel"})
  <2>1. Same(E, F, {"hold", "stall", "stalled", "pend", "i_lim", "hi", "lo"})
    BY <1>1, <1>3 DEF Same
  <2>2. Same(F, R, {"mask", "code", "i_ref", "vel"})
    BY <1>7, <1>11 DEF Same
  <2> QED BY <2>1, <2>2 DEF Same
<1>15. Grown(E, R)
  BY <1>6, <1>7, <1>13 DEF Grown
<1>16. CodeOK(R)
  BY <1>0, <1>12, <1>15, GrownCode DEF Typed
<1>17. R.run_prev = run /\ R.te_prev = E.te_prev /\ R.mode_prev = mode
  BY <1>14 DEF Same, KernelFields
<1>18. R.hold => run /\ R.mode_prev = "Position" /\ R.i_ref = 0
  <2>1. CASE run
    BY <1>1, <1>6, <1>10, <1>11, <1>13, <1>17, <2>1
  <2>2. CASE ~run
    BY <1>1, <1>6, <1>10, <1>13, <2>2 DEF Core
  <2> QED BY <2>1, <2>2
<1>19. ~run => R.hold = FALSE /\ R.i_ref = 0 /\ R.vel = 0 /\ R.cur = 0
  BY <1>1, <1>6, <1>10, <1>11, <1>13 DEF Core
<1>20. run /\ R.pend => "STALL" \in R.mask
  BY <1>5, <1>10, <1>13
<1>21. E.mask \subseteq R.mask
  BY <1>15 DEF Grown
<1>22. Core(R)
  BY <1>12, <1>16, <1>17, <1>18, <1>19, <1>20, <1>21 DEF Core
<1>23. Band(R) \/ (run /\ mode = "Current")
  <2>1. CASE run /\ mode # "Current"
    BY <1>11, <1>13, <2>1 DEF Band
  <2>2. CASE ~run
    <3>1. R.i_ref = 0
      BY <1>19, <2>2
    <3> QED BY <1>12, <3>1, Constants DEF Band, Typed
  <2> QED BY <2>1, <2>2
<1>24. ASSUME E.i_ref = 0, in.tau # "trip"
       PROVE  R.mask = E.mask
  <2>1. F.pend = E.pend
    BY <1>3, <1>6, <1>24
  <2>2. ~(run /\ F.pend)
    BY <2>1
  <2> QED BY <1>5, <1>6, <1>13, <2>2
<1>25. R.mask \subseteq E.mask \cup {"STALL"}
  BY <1>6, <1>7, <1>13
<1>26. E.vel = 0 => R.vel \in -1 .. 1
  BY <1>6, <1>10, <1>11
<1> QED BY <1>14, <1>15, <1>22, <1>23, <1>24, <1>25, <1>26 DEF Commanded, R, G, F, P

(* The rest of the chain: it may raise faults, and leaves the loops alone. *)
MediumOf(E, R, run, in) ==
    /\ Core(R) /\ Grown(E, R)
    /\ R.run_prev = run /\ R.mode_prev = mode /\ R.te_prev = E.te_prev
    /\ R.med = E.med /\ R.cur = E.cur
    /\ Band(R) \/ (run /\ mode = "Current")
    /\ E.vel = 0 => R.vel \in -1 .. 1
    /\ E.i_ref = 0 /\ in.tau # "trip" => "STALL" \notin R.mask \ E.mask
    /\ \A q : Rise(E, q) =>
         Rise(R, IF rail = RailTop /\ "UNDER_VOLT" \in R.mask \ E.mask THEN q + 1 ELSE q)

LEMMA MediumIs ==
    ASSUME NEW E, NEW run \in BOOLEAN, NEW in, Sampled(in), Core(E), E.run_prev = run,
           E.mode_prev = mode, run => E.pend = FALSE
    PROVE  MediumOf(E, Medium(E, run, in), run, in)
<1> DEFINE A == Commanded(E, run, in)
           B == Supply(A)
           S == sensor_sample(B, in.jump)
           P == pos_err_sample(S, run /\ mode = "Position" /\ in.err)
           R == IF P.slow + 1 >= DecimSlow THEN [Slow(P, in) EXCEPT !.slow = 0]
                                           ELSE [P EXCEPT !.slow = P.slow + 1]
<1>0. Medium(E, run, in) = R
  BY DEF Medium, Commanded
<1>1. /\ Same(E, A, {"hold", "stall", "stalled", "pend", "i_lim", "hi", "lo",
                     "mask", "code", "i_ref", "vel"})
      /\ Grown(E, A) /\ Core(A)
      /\ A.mask \subseteq E.mask \cup {"STALL"}
      /\ E.i_ref = 0 /\ in.tau # "trip" => A.mask = E.mask
      /\ Band(A) \/ (run /\ mode = "Current")
      /\ E.vel = 0 => A.vel \in -1 .. 1
  BY CommandedIs
<1> HIDE DEF A
<1>2. Typed(A)
  BY <1>1 DEF Core
<1>3. /\ Same(A, B, {"vbus", "fresh"}) /\ B.fresh \in BOOLEAN
      /\ B.vbus \in -1 .. 3 /\ (B.fresh => B.vbus >= 0)
      /\ \/ B = A
         \/ B.fresh = TRUE /\ (rail = 3 => B.vbus = 3 \/ B.vbus = A.vbus + 1)
  BY <1>2, SupplyIs DEF Sampled
<1> HIDE DEF B
<1>4. Typed(B) /\ DOMAIN B = KernelFields /\ B.mask = A.mask /\ B.code = A.code
  BY <1>2, <1>3 DEF Typed, Same, KernelFields
<1>5. Raises(B, S, {"seen", "bad"}, "SENSOR")
  BY <1>4, SensorIs
<1> HIDE DEF S
<1>6. Typed(S) /\ DOMAIN S = KernelFields
  <2>1. S.mask \subseteq Bits
    BY <1>4, <1>5 DEF Raises, Typed, Bits
  <2> QED BY <1>4, <1>5, <2>1 DEF Raises, Typed, Same, KernelFields
<1>7. Raises(S, P, {"perr"}, "POS_ERROR")
  BY <1>6, PosErrIs
<1> HIDE DEF P
<1>8. Typed(P)
  <2>1. P.mask \subseteq Bits
    BY <1>6, <1>7 DEF Raises, Typed, Bits
  <2> QED BY <1>6, <1>7, <2>1 DEF Raises, Typed, Same, KernelFields
<1>9. /\ Same(P, R, SlowFields \cup {"slow"}) /\ Grown(P, R) /\ Typed(R)
      /\ R.mask \subseteq P.mask \cup {"OVER_TEMP", "UNDER_VOLT"}
      /\ "UNDER_VOLT" \in R.mask \ P.mask =>
           P.fresh /\ P.vbus < RailTop - 1 /\ R.fresh = FALSE
      /\ R.fresh \in {P.fresh, FALSE}
  BY <1>8, LastIs DEF Sampled
<1> HIDE DEF R
<1>10. Same(A, R, Late)
  <2>1. Same(B, S, Late) /\ Same(S, P, Late) /\ Same(P, R, Late) /\ Same(A, B, Late)
    BY <1>3, <1>5, <1>7, <1>9 DEF Same, Late, SlowFields, Raises
  <2> QED BY <2>1 DEF Same
<1>11. Grown(A, R)
  <2>1. Grown(A, B)
    BY <1>4, GrownSame
  <2>2. Grown(A, S)
    BY <1>5, <2>1, GrownTrans DEF Raises
  <2>3. Grown(A, P)
    BY <1>7, <2>2, GrownTrans DEF Raises
  <2> QED BY <1>9, <2>3, GrownTrans
<1>12. Core(R)
  BY <1>1, <1>9, <1>10, <1>11, CoreLate
<1>13. Grown(E, R)
  BY <1>1, <1>11, GrownTrans
<1>14. /\ A.run_prev = run /\ A.mode_prev = mode /\ A.te_prev = E.te_prev
       /\ A.cur = E.cur /\ A.vbus = E.vbus /\ A.fresh = E.fresh
  BY <1>1 DEF Same, KernelFields
<1>15. /\ R.run_prev = run /\ R.mode_prev = mode /\ R.te_prev = E.te_prev /\ R.cur = E.cur
       /\ R.vel = A.vel /\ R.i_ref = A.i_ref /\ R.lo = A.lo /\ R.hi = A.hi
  BY <1>10, <1>14 DEF Same, KernelFields, Late
<1>16. R.med = E.med
  <2>1. A.med = E.med /\ B.med = A.med
    BY <1>1, <1>3 DEF Same, KernelFields
  <2>2. S.med = B.med /\ P.med = S.med /\ R.med = P.med
    BY <1>5, <1>7, <1>9 DEF Raises, Same, KernelFields, SlowFields
  <2> QED BY <2>1, <2>2
<1>17. Band(R) \/ (run /\ mode = "Current")
  BY <1>1, <1>15 DEF Band
<1>18. P.mask \subseteq A.mask \cup {"SENSOR", "POS_ERROR"}
  BY <1>4, <1>5, <1>7 DEF Raises
<1>19. E.i_ref = 0 /\ in.tau # "trip" => "STALL" \notin R.mask \ E.mask
  BY <1>1, <1>9, <1>18
<1>20. P.vbus = B.vbus /\ P.fresh = B.fresh /\ R.vbus = P.vbus
  BY <1>5, <1>7, <1>9 DEF Raises, Same, KernelFields, SlowFields
<1>21. ASSUME NEW q, Rise(E, q)
       PROVE  Rise(R, IF rail = RailTop /\ "UNDER_VOLT" \in R.mask \ E.mask
                        THEN q + 1 ELSE q)
  <2>0. Rise(A, q)
    BY <1>14, <1>21 DEF Rise
  <2>1. Rise(B, q)
    <3>1. CASE B = A
      BY <2>0, <3>1
    <3>2. CASE B.fresh = TRUE /\ (rail = 3 => B.vbus = 3 \/ B.vbus = A.vbus + 1)
      <4>1. B.fresh
        BY <3>2
      <4>2. rail = 3 => q <= B.vbus
        BY <1>2, <2>0, <3>2 DEF Rise, Typed
      <4>3. (IF B.fresh THEN 0 ELSE 1) = 0
        BY <4>1
      <4> QED BY <1>3, <2>0, <4>2, <4>3 DEF Rise
    <3> QED BY <1>3, <3>1, <3>2
  <2>2. Rise(P, q) /\ P.vbus \in -1 .. 3
    BY <1>3, <1>20, <2>1 DEF Rise
  <2>3. q \in 0 .. 2 /\ (rail = 3 => q <= R.vbus + 1) /\ (R.fresh /\ rail = 3 => q <= R.vbus)
    <3>1. q \in 0 .. 2 /\ (rail = 3 => q <= P.vbus + 1) /\ (P.fresh /\ rail = 3 => q <= P.vbus)
      BY <2>2 DEF Rise
    <3>2. R.fresh => P.fresh
      BY <1>9
    <3> QED BY <1>20, <3>1, <3>2
  <2>4. Rise(R, q)
    <3>1. R.vbus \in Int
      BY <1>20, <2>2
    <3>2. CASE R.fresh
      BY <2>3, <3>1, <3>2 DEF Rise
    <3>3. CASE ~R.fresh
      BY <2>3, <3>1, <3>3 DEF Rise
    <3> QED BY <3>2, <3>3
  <2>5. CASE rail = RailTop /\ "UNDER_VOLT" \in R.mask \ E.mask
    <3>1. "UNDER_VOLT" \notin P.mask
      BY <1>1, <1>18, <2>5
    <3>2. P.fresh /\ P.vbus < RailTop - 1 /\ R.fresh = FALSE
      BY <1>9, <2>5, <3>1
    <3>3. q <= P.vbus
      BY <2>2, <2>5, <3>2 DEF Rise, RailTop
    <3>4. q + 1 \in 0 .. 2 /\ q + 1 <= R.vbus + 1
      BY <1>20, <2>2, <2>3, <3>2, <3>3 DEF RailTop
    <3>5. ~R.fresh
      BY <3>2
    <3>6. Rise(R, q + 1)
      BY <3>4, <3>5 DEF Rise
    <3> QED BY <2>5, <3>6
  <2> QED BY <2>4, <2>5
<1>22. E.vel = 0 => R.vel \in -1 .. 1
  BY <1>1, <1>15
<1> QED BY <1>0, <1>12, <1>13, <1>15, <1>16, <1>17, <1>19, <1>21, <1>22 DEF MediumOf

-----------------------------------------------------------------------------
(* The tick.                                                               *)

(* Up to the run edge: a drive that runs has no pending stall and, unless  *)
(* it ran before, zeroed loops; a torque edge is the one way out of a      *)
(* fault.                                                                  *)
LEMMA EdgeIs ==
    ASSUME NEW K, NEW over, Core(K), Band(K) \/ K.mask # {}, torque_enable \in BOOLEAN
    PROVE  LET A == oc_sample(Ack(K), over)
               run == Run(A)
               E == RunEdge(A, run)
           IN /\ run \in BOOLEAN /\ Core(E) /\ Band(E)
              /\ E.run_prev = run /\ E.mode_prev = mode /\ E.te_prev = torque_enable
              /\ Grown(Ack(K), E) /\ E.mask \subseteq Ack(K).mask \cup {"OC"}
              /\ E.med = K.med /\ E.vbus = K.vbus /\ E.fresh = K.fresh
              /\ run => E.pend = FALSE
              /\ K.i_ref = 0 => E.i_ref = 0
              /\ run /\ (K.run_prev => K.mask # {}) => E.vel = 0 /\ E.cur = 0
<1> DEFINE B == Ack(K)
           A == oc_sample(B, over)
           run == Run(A)
           E == RunEdge(A, run)
           edge == torque_enable /\ ~K.te_prev
<1>0. Typed(K) /\ CodeOK(K) /\ DOMAIN K = KernelFields
  BY DEF Core, Typed
<1>1. /\ Same(K, B, AckFields \cup {"te_prev"}) /\ B.te_prev = torque_enable
      /\ edge => B.mask = {} /\ B.code = "NONE" /\ B.pend = FALSE
      /\ ~edge => Same(K, B, {"te_prev"})
  BY <1>0, AckIs
<1> HIDE DEF B
<1>2. ~edge => B.mask = K.mask /\ B.code = K.code /\ B.pend = K.pend
  BY <1>1 DEF Same, KernelFields
<1>3. B.mask \subseteq K.mask /\ CodeOK(B) /\ B.pend \in BOOLEAN /\ B.mask \subseteq Bits
  <2>1. CASE edge
    BY <1>1, <2>1 DEF CodeOK
  <2>2. CASE ~edge
    BY <1>0, <1>2, <2>2 DEF CodeOK, Typed
  <2> QED BY <2>1, <2>2
<1>4. Typed(B) /\ DOMAIN B = KernelFields
  BY <1>0, <1>1, <1>3 DEF Typed, Same, KernelFields, AckFields
<1>5. Raises(B, A, {"oc"}, "OC")
  BY <1>4, OcIs
<1> HIDE DEF A
<1>6. Typed(A) /\ DOMAIN A = KernelFields /\ CodeOK(A)
  <2>1. A.mask \subseteq Bits
    BY <1>3, <1>5 DEF Raises, Bits
  <2>2. CodeOK(A)
    BY <1>3, <1>5, <2>1, GrownCode DEF Raises
  <2> QED BY <1>4, <1>5, <2>1, <2>2 DEF Raises, Typed, Same, KernelFields
<1>7. run \in BOOLEAN /\ (run <=> torque_enable /\ A.mask = {})
  BY DEF Run
<1> HIDE DEF run
<1>8. /\ Same(A, E, {"cur", "vel", "i_ref", "hold", "run_prev", "mode_prev"})
      /\ E.run_prev = run /\ E.mode_prev = mode
      /\ E.hold \in {A.hold, FALSE}
      /\ run # A.run_prev => E.cur = 0 /\ E.vel = 0 /\ E.i_ref = 0 /\ E.hold = FALSE
      /\ run = A.run_prev => Same(A, E, {"hold", "mode_prev"})
      /\ run /\ mode # A.mode_prev => E.hold = FALSE
  BY <1>6, <1>7, RunEdgeIs DEF Typed
<1> HIDE DEF E
<1>9. /\ A.run_prev = K.run_prev /\ A.hold = K.hold /\ A.mode_prev = K.mode_prev
      /\ A.cur = K.cur /\ A.vel = K.vel /\ A.i_ref = K.i_ref /\ A.lo = K.lo /\ A.hi = K.hi
      /\ A.med = K.med /\ A.vbus = K.vbus /\ A.fresh = K.fresh
      /\ A.te_prev = torque_enable /\ A.pend = B.pend
  BY <1>1, <1>5 DEF Raises, Same, KernelFields, AckFields
<1>10. /\ E.te_prev = A.te_prev /\ E.pend = A.pend /\ E.mask = A.mask /\ E.code = A.code
       /\ E.lo = A.lo /\ E.hi = A.hi /\ E.med = A.med /\ E.vbus = A.vbus /\ E.fresh = A.fresh
  BY <1>8 DEF Same, KernelFields
<1>11. run = A.run_prev => E.cur = K.cur /\ E.vel = K.vel /\ E.i_ref = K.i_ref
  BY <1>8, <1>9 DEF Same, KernelFields
<1>12. B.mask \subseteq A.mask
  BY <1>5 DEF Raises, Grown
<1>13. run => B.mask = {}
  BY <1>7, <1>12
<1>14. run /\ ~edge => K.te_prev /\ K.mask = {} /\ K.run_prev
  BY <1>0, <1>2, <1>7, <1>13 DEF Core, Typed
<1>15. run => E.pend = FALSE
  <2>1. CASE edge
    BY <1>1, <1>9, <1>10, <2>1
  <2>2. CASE ~edge
    <3> SUFFICES ASSUME run PROVE E.pend = FALSE
      OBVIOUS
    <3>1. ~K.pend
      BY <1>14, <2>2 DEF Core
    <3> QED BY <1>0, <1>2, <1>9, <1>10, <2>2, <3>1 DEF Typed
  <2> QED BY <2>1, <2>2
<1>16. run /\ K.run_prev => K.mask = {}
  <2>1. K.run_prev => ~edge
    BY DEF Core
  <2> QED BY <1>14, <2>1
<1>17. ~run => E.hold = FALSE /\ E.i_ref = 0 /\ E.vel = 0 /\ E.cur = 0
  <2>1. CASE run # A.run_prev
    BY <1>8, <2>1
  <2>2. CASE run = A.run_prev
    BY <1>8, <1>9, <1>11, <2>2 DEF Core
  <2> QED BY <2>1, <2>2
<1>18. K.i_ref = 0 => E.i_ref = 0
  BY <1>8, <1>11
<1>19. E.hold => run /\ mode = "Position" /\ E.i_ref = 0
  <2> SUFFICES ASSUME E.hold PROVE run /\ mode = "Position" /\ E.i_ref = 0
    OBVIOUS
  <2>1. run = A.run_prev /\ E.hold = A.hold
    BY <1>8
  <2>2. K.hold
    BY <1>9, <2>1
  <2>3. K.run_prev /\ K.mode_prev = "Position" /\ K.i_ref = 0
    BY <2>2 DEF Core
  <2>4. run
    BY <1>9, <2>1, <2>3
  <2> QED BY <1>8, <1>9, <1>18, <2>3, <2>4
<1>20. Typed(E)
  <2>1. /\ E.cur \in -DutyMax .. DutyMax
        /\ E.vel \in -CurrentLimit .. CurrentLimit
        /\ E.i_ref \in -CurrentLimit .. CurrentLimit
    <3>1. CASE run # A.run_prev
      BY <1>8, <3>1, Constants
    <3>2. CASE run = A.run_prev
      BY <1>0, <1>11, <3>2 DEF Typed
    <3> QED BY <3>1, <3>2
  <2>2. E.hold \in BOOLEAN /\ E.run_prev \in BOOLEAN
    BY <1>6, <1>7, <1>8 DEF Typed
  <2> QED BY <1>6, <1>8, <2>1, <2>2 DEF Typed, Same, KernelFields
<1>21. CodeOK(E)
  BY <1>6, <1>10 DEF CodeOK
<1>22. Core(E)
  BY <1>7, <1>8, <1>9, <1>10, <1>15, <1>17, <1>19, <1>20, <1>21 DEF Core
<1>23. Band(E)
  <2>1. CASE run /\ K.run_prev
    <3>1. Band(K)
      BY <1>16, <2>1
    <3>2. E.i_ref = K.i_ref
      BY <1>0, <1>7, <1>9, <1>11, <2>1 DEF Typed
    <3> QED BY <1>9, <1>10, <3>1, <3>2 DEF Band
  <2>2. CASE ~(run /\ K.run_prev)
    <3>1. E.i_ref = 0
      BY <1>0, <1>7, <1>8, <1>9, <1>17, <2>2 DEF Typed
    <3> QED BY <1>20, <3>1, Constants DEF Band, Typed
  <2> QED BY <2>1, <2>2
<1>24. Grown(B, E) /\ E.mask \subseteq B.mask \cup {"OC"}
  BY <1>5, <1>10 DEF Raises, Grown
<1>25. run /\ (K.run_prev => K.mask # {}) => E.vel = 0 /\ E.cur = 0
  BY <1>8, <1>9, <1>16
<1> QED BY <1>7, <1>8, <1>9, <1>10, <1>15, <1>18, <1>22, <1>23, <1>24, <1>25
        DEF E, run, A, B

LEMMA TickIs ==
    ASSUME NEW in, Sampled(in), Core(k), Band(k) \/ k.mask # {}
    PROVE  LET d == Step(in)
           IN /\ Core(d.s) /\ (Band(d.s) \/ d.s.mask # {})
              /\ d.c \in {"Disabled", "Coast", "Drive"}
              /\ d.c = "Disabled" <=> ~(d.s.run_prev /\ d.s.mask = {})
              /\ Grown(Ack(k), d.s)
              /\ \A q : Rise(k, q) =>
                   Rise(d.s, IF rail = RailTop /\ "UNDER_VOLT" \in d.s.mask \ Ack(k).mask
                               THEN q + 1 ELSE q)
              /\ k.i_ref = 0 /\ (IsMedium => in.tau # "trip")
                   => "STALL" \notin d.s.mask \ Ack(k).mask
              /\ /\ k.run_prev => k.mask # {}
                 /\ d.c # "Disabled" /\ mode # "OpenLoop"
                 => d.s.vel \in -1 .. 1 /\ d.s.duty \in -1 .. 1
<1> DEFINE B == Ack(k)
           A == oc_sample(B, in.over)
           run == Run(A)
           E == RunEdge(A, run)
           M == IF E.med + 1 >= DecimMed THEN [Medium(E, run, in) EXCEPT !.med = 0]
                                         ELSE [E EXCEPT !.med = E.med + 1]
           d == Drive(M, run, in)
           s == d.s
           fresh == run /\ (k.run_prev => k.mask # {})
<1>0. Step(in) = d
  BY DEF Step
<1>1. /\ run \in BOOLEAN /\ Core(E) /\ Band(E)
      /\ E.run_prev = run /\ E.mode_prev = mode /\ E.te_prev = torque_enable
      /\ Grown(B, E) /\ E.mask \subseteq B.mask \cup {"OC"}
      /\ E.med = k.med /\ E.vbus = k.vbus /\ E.fresh = k.fresh
      /\ run => E.pend = FALSE
      /\ k.i_ref = 0 => E.i_ref = 0
      /\ fresh => E.vel = 0 /\ E.cur = 0
  BY EdgeIs DEF Sampled
<1> HIDE DEF B, A, run, E
<1>2. Typed(E) /\ DOMAIN E = KernelFields /\ E.med \in 0 .. DecimMed - 1
  BY <1>1 DEF Core, Typed
<1>3. \A q : Rise(k, q) => Rise(E, q)
  BY <1>1 DEF Rise
<1> DEFINE Good(R) ==
      /\ Core(R) /\ Grown(E, R) /\ R.run_prev = run /\ R.mode_prev = mode
      /\ Band(R) \/ (run /\ mode = "Current")
      /\ fresh => R.vel \in -1 .. 1 /\ R.cur = 0
      /\ E.i_ref = 0 /\ (IsMedium => in.tau # "trip") => "STALL" \notin R.mask \ E.mask
      /\ \A q : Rise(E, q) =>
           Rise(R, IF rail = RailTop /\ "UNDER_VOLT" \in R.mask \ E.mask THEN q + 1 ELSE q)
<1>4. ASSUME NEW R, NEW Q, NEW m \in 0 .. DecimMed - 1, Good(R), Q = [R EXCEPT !.med = m]
      PROVE  Good(Q)
  <2>0. DOMAIN R = KernelFields
    BY <1>4 DEF Core, Typed
  <2>1. Same(R, Q, {"med"}) /\ Q.med = m
    BY <1>4, <2>0 DEF Same, KernelFields
  <2>2. Typed(Q)
    BY <1>4, <2>1 DEF Core, Typed, Same, KernelFields
  <2>3. /\ Q.mask = R.mask /\ Q.code = R.code /\ Q.vel = R.vel /\ Q.cur = R.cur
        /\ Q.i_ref = R.i_ref /\ Q.lo = R.lo /\ Q.hi = R.hi /\ Q.vbus = R.vbus
        /\ Q.fresh = R.fresh /\ Q.run_prev = R.run_prev /\ Q.mode_prev = R.mode_prev
    BY <2>1 DEF Same, KernelFields
  <2>4. Grown(R, Q) /\ Same(R, Q, Late)
    BY <2>1, <2>3 DEF Grown, Same, Late
  <2>5. Core(Q) /\ Grown(E, Q)
    BY <1>4, <2>2, <2>4, CoreLate, GrownTrans
  <2>6. Band(Q) <=> Band(R)
    BY <2>3 DEF Band
  <2>7. \A q : Rise(R, q) => Rise(Q, q)
    BY <2>3 DEF Rise
  <2> QED BY <1>4, <2>3, <2>5, <2>6, <2>7
<1>5. Good(M)
  <2>1. CASE E.med + 1 >= DecimMed
    <3> DEFINE R == Medium(E, run, in)
    <3>0. /\ run \in BOOLEAN /\ Core(E) /\ E.run_prev = run /\ E.mode_prev = mode
          /\ run => E.pend = FALSE
      BY <1>1
    <3>1. MediumOf(E, R, run, in)
      BY <3>0, MediumIs
    <3> HIDE DEF R
    <3>2. IsMedium
      BY <1>1, <2>1 DEF IsMedium
    <3>3. Good(R)
      BY <1>1, <3>1, <3>2 DEF MediumOf
    <3>4. M = [R EXCEPT !.med = 0] /\ 0 \in 0 .. DecimMed - 1
      BY <2>1, Constants DEF R
    <3> HIDE DEF Good, M
    <3> QED BY <1>4, <3>3, <3>4
  <2>2. CASE ~(E.med + 1 >= DecimMed)
    <3>1. Grown(E, E)
      BY DEF Grown
    <3>2. fresh => E.vel \in -1 .. 1
      BY <1>1
    <3>3. Good(E)
      BY <1>1, <3>1, <3>2 DEF MediumOf
    <3>4. M = [E EXCEPT !.med = E.med + 1]
      BY <2>2
    <3>5. E.med + 1 \in 0 .. DecimMed - 1
      BY <1>2, <2>2, Constants
    <3> HIDE DEF Good, M
    <3> QED BY <1>4, <3>3, <3>4, <3>5
  <2> QED BY <2>1, <2>2
<1> HIDE DEF M
<1>6. Typed(M)
  BY <1>5 DEF Core
<1>7. /\ d.c \in {"Disabled", "Coast", "Drive"}
      /\ d.c = "Disabled" <=> ~(run /\ M.mask = {})
      /\ Same(M, s, {"duty", "cur", "i_ref"})
      /\ s.duty \in -DutyMax .. DutyMax /\ s.cur \in -DutyMax .. DutyMax
      /\ s.i_ref \in -CurrentLimit .. CurrentLimit
      /\ ~(run /\ M.mask = {}) => Same(M, s, {"duty"})
      /\ mode # "Current" => s.i_ref = M.i_ref
      /\ run /\ M.mask = {} /\ mode = "Current" => s.i_ref \in M.lo .. M.hi
      /\ run /\ M.mask = {} /\ M.cur = 0 /\ mode # "OpenLoop" => s.duty \in -1 .. 1
  BY <1>1, <1>6, DriveIs DEF Sampled
<1> HIDE DEF d
<1>8. /\ s.mask = M.mask /\ s.code = M.code /\ s.run_prev = M.run_prev
      /\ s.te_prev = M.te_prev /\ s.mode_prev = M.mode_prev /\ s.hold = M.hold
      /\ s.vel = M.vel /\ s.pend = M.pend /\ s.lo = M.lo /\ s.hi = M.hi
      /\ s.vbus = M.vbus /\ s.fresh = M.fresh
  BY <1>7 DEF Same, KernelFields
<1>9. ~(run /\ M.mask = {}) => s.i_ref = M.i_ref /\ s.cur = M.cur
  BY <1>7 DEF Same, KernelFields
<1>10. Typed(s)
  BY <1>6, <1>7 DEF Typed, Same, KernelFields
<1>11. Core(s)
  <2>1. CodeOK(s)
    BY <1>5, <1>8 DEF Core, CodeOK
  <2>2. ~s.run_prev => s.hold = FALSE /\ s.i_ref = 0 /\ s.vel = 0 /\ s.cur = 0
    BY <1>5, <1>8, <1>9 DEF Core
  <2>3. s.hold => s.run_prev /\ s.mode_prev = "Position" /\ s.i_ref = 0
    BY <1>5, <1>7, <1>8 DEF Core
  <2> QED BY <1>5, <1>8, <1>10, <2>1, <2>2, <2>3 DEF Core
<1>12. Band(s) \/ s.mask # {}
  <2>1. CASE mode # "Current"
    BY <1>5, <1>7, <1>8, <2>1 DEF Band
  <2>2. CASE mode = "Current" /\ run
    BY <1>7, <1>8, <2>2 DEF Band
  <2>3. CASE ~run
    BY <1>5, <1>8, <1>9, <2>3 DEF Band
  <2> QED BY <1>1, <2>1, <2>2, <2>3
<1>13. Grown(B, s)
  <2>1. Grown(B, M)
    BY <1>1, <1>5, GrownTrans
  <2> QED BY <1>8, <2>1 DEF Grown
<1>14. B.mask \subseteq E.mask
  BY <1>1 DEF Grown
<1>15. "UNDER_VOLT" \in s.mask \ B.mask <=> "UNDER_VOLT" \in M.mask \ E.mask
  BY <1>1, <1>8, <1>14
<1>16. ASSUME NEW q, Rise(k, q)
       PROVE  Rise(s, IF rail = RailTop /\ "UNDER_VOLT" \in s.mask \ B.mask
                        THEN q + 1 ELSE q)
  <2>1. Rise(E, q)
    BY <1>3, <1>16
  <2>2. Rise(M, IF rail = RailTop /\ "UNDER_VOLT" \in s.mask \ B.mask THEN q + 1 ELSE q)
    <3>1. Rise(M, IF rail = RailTop /\ "UNDER_VOLT" \in M.mask \ E.mask THEN q + 1 ELSE q)
      BY <1>5, <2>1
    <3> QED BY <1>15, <3>1
  <2>3. \A n : Rise(M, n) => Rise(s, n)
    BY <1>8 DEF Rise
  <2> QED BY <2>2, <2>3
<1>17. k.i_ref = 0 /\ (IsMedium => in.tau # "trip") => "STALL" \notin s.mask \ B.mask
  BY <1>1, <1>5, <1>8
<1>18. (k.run_prev => k.mask # {}) /\ d.c # "Disabled" /\ mode # "OpenLoop"
         => s.vel \in -1 .. 1 /\ s.duty \in -1 .. 1
  BY <1>5, <1>7, <1>8
<1>19. d.c = "Disabled" <=> ~(s.run_prev /\ s.mask = {})
  BY <1>5, <1>7, <1>8
<1> QED BY <1>0, <1>7, <1>11, <1>12, <1>13, <1>16, <1>17, <1>18, <1>19 DEF B

-----------------------------------------------------------------------------
(* The specification.                                                      *)

(* The inductive invariant.                                                *)
IInv ==
    /\ Core(k) /\ (Band(k) \/ k.mask # {}) /\ Rise(k, retries)
    /\ torque_enable \in BOOLEAN /\ mode \in Modes /\ goal \in Goals
    /\ rail \in Rails /\ heat \in Heats
    /\ cmd \in {"Disabled", "Coast", "Drive"}
    /\ cmd = "Disabled" <=> ~(k.run_prev /\ k.mask = {})
    /\ acked \in BOOLEAN /\ (acked \/ k.mask # {})
    /\ parked => k.hold

LEMMA InitIInv == Init => IInv
<1> SUFFICES ASSUME Init PROVE IInv
  OBVIOUS
<1> DEFINE K == Kernel_new
<1>1. k = K /\ cmd = "Disabled" /\ retries = 0 /\ acked = TRUE /\ parked = FALSE
      /\ torque_enable = FALSE
      /\ mode \in Modes /\ goal \in Goals /\ rail \in Rails /\ heat \in Heats
  BY DEF Init
<1>2. DOMAIN K = KernelFields
  BY DEF Kernel_new, KernelFields
<1>3. /\ K.med = DecimMed - 1 /\ K.slow = DecimSlow - 1 /\ K.te_prev = FALSE
      /\ K.run_prev = FALSE /\ K.mask = {} /\ K.code = "NONE" /\ K.pend = FALSE
      /\ K.derate = CurrentLimit /\ K.i_lim = 0 /\ K.lo = 0 /\ K.hi = 0 /\ K.i_ref = 0
      /\ K.hold = FALSE /\ K.vel = 0 /\ K.cur = 0 /\ K.duty = 0 /\ K.vbus = -1
      /\ K.fresh = FALSE /\ K.r = 0
  BY DEF Kernel_new
<1> HIDE DEF K
<1>4. Typed(K)
  <2>1. K.te_prev \in BOOLEAN /\ K.run_prev \in BOOLEAN /\ K.hold \in BOOLEAN
        /\ K.pend \in BOOLEAN /\ K.fresh \in BOOLEAN /\ ~K.fresh /\ K.mask \subseteq Bits
    BY <1>3
  <2>2. /\ K.lo \in -CurrentLimit .. 0 /\ K.hi \in 0 .. CurrentLimit
        /\ K.i_ref \in -CurrentLimit .. CurrentLimit
        /\ K.duty \in -DutyMax .. DutyMax /\ K.cur \in -DutyMax .. DutyMax
        /\ K.vel \in -CurrentLimit .. CurrentLimit
        /\ K.med \in 0 .. DecimMed - 1 /\ K.slow \in 0 .. DecimSlow - 1
        /\ K.vbus \in -1 .. 3 /\ K.r \in 0 .. 2 /\ K.derate \in 0 .. CurrentLimit
        /\ K.i_lim \in Nat
    BY <1>3, Constants
  <2> QED BY <1>2, <2>1, <2>2 DEF Typed
<1>5. CodeOK(K)
  BY <1>3 DEF CodeOK
<1>6. Core(K)
  BY <1>3, <1>4, <1>5 DEF Core
<1>7. Band(K)
  BY <1>3 DEF Band
<1>8. Rise(K, 0)
  <2>1. ~K.fresh
    BY <1>3
  <2> QED BY <1>3, <2>1 DEF Rise
<1> QED BY <1>1, <1>3, <1>6, <1>7, <1>8 DEF IInv

LEMMA FrameIs ==
    ASSUME NEW f \in Frames
    PROVE  f.velErr \in -1 .. 1
<1>1. CASE IsMedium
  <2>1. f.velErr \in VelErrs
    BY <1>1 DEF Frames
  <2> QED BY <2>1, Constants
<1>2. CASE ~IsMedium
  BY <1>2 DEF Frames, Idle
<1> QED BY <1>1, <1>2

(* One tick of the kernel, by the result of its chain.                     *)
Ticked(d, in) ==
    /\ k' = d.s /\ cmd' = d.c
    /\ acked' = ((acked \/ (torque_enable /\ ~k.te_prev)) /\ d.s.mask = {})
    /\ parked' = IF IsMedium THEN d.s.hold /\ Run(Ack(k)) /\ in.tau # "trip"
                             ELSE parked /\ d.s.hold
    /\ retries' = IF rail = RailTop /\ "UNDER_VOLT" \in d.s.mask \ Ack(k).mask
                   THEN Min({retries + 1, RailTop}) ELSE retries
    /\ UNCHANGED <<lifecycle, plant>>

LEMMA TickTaken ==
    ASSUME IInv, on_tick
    PROVE  \E in : Sampled(in) /\ Ticked(Step(in), in)
<1> DEFINE Frame(over, amp, f) ==
             [jump |-> f.jump, err |-> f.err, tau |-> f.tau, slow |-> f.slow,
              velErr |-> f.velErr, hold |-> f.hold, wall |-> f.wall,
              over |-> over, amp |-> amp]
           Body(d, in) ==
             /\ k' = d.s /\ cmd' = d.c
             /\ acked' = ((acked \/ (torque_enable /\ ~k.te_prev)) /\ d.s.mask = {})
             /\ parked' = IF IsMedium THEN d.s.hold /\ Run(Ack(k)) /\ in.tau # "trip"
                                      ELSE parked /\ d.s.hold
             /\ retries' = IF rail = RailTop /\ "UNDER_VOLT" \in d.s.mask \ Ack(k).mask
                            THEN Min({retries + 1, RailTop}) ELSE retries
<1>0. /\ \E over \in Overs, amp \in Amps, f \in Frames :
           Body(Step(Frame(over, amp, f)), Frame(over, amp, f))
      /\ UNCHANGED <<lifecycle, plant>>
  BY DEF on_tick
<1>1. PICK over \in Overs, amp \in Amps, f \in Frames :
        Body(Step(Frame(over, amp, f)), Frame(over, amp, f))
  BY <1>0
<1> DEFINE in == Frame(over, amp, f)
<1>2. in.velErr = f.velErr /\ in.amp = amp
  OBVIOUS
<1> HIDE DEF Frame
<1>3. Ticked(Step(in), in)
  BY <1>0, <1>1 DEF Ticked
<1> HIDE DEF in
<1>4. in.velErr \in -1 .. 1 /\ in.amp \in Nat
  BY <1>2, FrameIs, Constants
<1>5. Sampled(in)
  BY <1>4, Constants DEF Sampled, IInv
<1> QED BY <1>3, <1>5

LEMMA TickIInv ==
    ASSUME IInv, on_tick
    PROVE  IInv'
<1>1. PICK in : Sampled(in) /\ Ticked(Step(in), in)
  BY TickTaken
<1> DEFINE d == Step(in)
           q == IF rail = RailTop /\ "UNDER_VOLT" \in d.s.mask \ Ack(k).mask
                  THEN retries + 1 ELSE retries
<1>2. /\ Core(d.s) /\ (Band(d.s) \/ d.s.mask # {})
      /\ d.c \in {"Disabled", "Coast", "Drive"}
      /\ d.c = "Disabled" <=> ~(d.s.run_prev /\ d.s.mask = {})
      /\ Grown(Ack(k), d.s)
      /\ Rise(d.s, q)
  BY <1>1, TickIs DEF IInv
<1> HIDE DEF d
<1>3. Ticked(d, in)
  BY <1>1 DEF d
<1>4. retries' = q
  <2>1. CASE rail = RailTop /\ "UNDER_VOLT" \in d.s.mask \ Ack(k).mask
    <3>1. retries + 1 \in 0 .. 2 /\ retries \in 0 .. 2
      BY <1>2, <2>1 DEF Rise, IInv
    <3>2. Min({retries + 1, 3}) = retries + 1
      BY <3>1, MinIs
    <3> QED BY <1>3, <2>1, <3>2 DEF Ticked, RailTop
  <2>2. CASE ~(rail = RailTop /\ "UNDER_VOLT" \in d.s.mask \ Ack(k).mask)
    BY <1>3, <2>2 DEF Ticked
  <2> QED BY <2>1, <2>2
<1> HIDE DEF q
<1>5. k' = d.s /\ cmd' = d.c
  BY <1>3 DEF Ticked
<1>6. torque_enable' = torque_enable /\ mode' = mode /\ goal' = goal /\ rail' = rail
      /\ heat' = heat
  BY <1>3 DEF Ticked, lifecycle, plant
<1>7. Core(k)' /\ (Band(k)' \/ k'.mask # {}) /\ Rise(k, retries)'
  BY <1>2, <1>4, <1>5, <1>6
     DEF Core, Typed, CodeOK, Band, Rise
<1>8. acked' \in BOOLEAN /\ (acked' \/ k'.mask # {})
  <2>1. acked' = ((acked \/ (torque_enable /\ ~k.te_prev)) /\ d.s.mask = {})
    BY <1>3 DEF Ticked
  <2>2. ~(torque_enable /\ ~k.te_prev) => Ack(k).mask = k.mask
    BY AckIs, ZenonT(40) DEF IInv, Core, Typed, Same, KernelFields
  <2>3. Ack(k).mask \subseteq d.s.mask
    BY <1>2 DEF Grown
  <2> QED BY <1>5, <2>1, <2>2, <2>3 DEF IInv
<1>9. parked' => k'.hold
  BY <1>3, <1>5 DEF Ticked
<1> QED BY <1>2, <1>5, <1>6, <1>7, <1>8, <1>9 DEF IInv

LEMMA OtherIInv ==
    ASSUME IInv, Write \/ Plant \/ UNCHANGED vars
    PROVE  IInv'
<1>1. k' = k /\ cmd' = cmd /\ acked' = acked /\ parked' = parked
  BY DEF Write, Plant, vars
<1>2. torque_enable' \in BOOLEAN /\ mode' \in Modes /\ goal' \in Goals
  BY DEF Write, WriteTorque, WriteMode, WriteGoal, Plant, vars, lifecycle, IInv
<1>3. rail' \in Rails /\ heat' \in Heats
  BY DEF Write, Plant, vars, plant, IInv
<1>4. (rail' = rail /\ retries' = retries) \/ retries' = 0
  BY DEF Write, Plant, vars, plant
<1>5. Rise(k, retries)'
  <2>1. CASE rail' = rail /\ retries' = retries
    BY <1>1, <2>1 DEF IInv, Rise
  <2>2. CASE retries' = 0
    <3>1. k.vbus \in -1 .. 3 /\ (k.fresh => k.vbus >= 0)
      BY DEF IInv, Core, Typed
    <3>2. 0 <= k.vbus + (IF k.fresh THEN 0 ELSE 1)
      <4>1. CASE k.fresh
        BY <3>1, <4>1
      <4>2. CASE ~k.fresh
        BY <3>1, <4>2
      <4> QED BY <4>1, <4>2
    <3> QED BY <1>1, <2>2, <3>2 DEF Rise
  <2> QED BY <1>4, <2>1, <2>2
<1>6. Core(k)' /\ (Band(k)' \/ k'.mask # {})
  BY <1>1 DEF IInv, Core, Typed, CodeOK, Band
<1> QED BY <1>1, <1>2, <1>3, <1>5, <1>6 DEF IInv

LEMMA NextIInv == IInv /\ [Next]_vars => IInv'
BY TickIInv, OtherIInv DEF Next

LEMMA IInvSafe == IInv => KernelSafe
<1> SUFFICES ASSUME IInv PROVE KernelSafe
  OBVIOUS
<1>1. Core(k) /\ Typed(k) /\ CodeOK(k) /\ Rise(k, retries)
  BY DEF IInv, Core
<1>2. TypeOK
  BY <1>1 DEF TypeOK, Typed, Bits, RailTop, IInv
<1>3. InBand
  BY DEF InBand, IInv, Band
<1>4. NoStaleStall
  BY <1>1 DEF NoStaleStall, Core
<1>5. AckedBeforeDrive
  BY <1>1 DEF AckedBeforeDrive, CodeOK, IInv
<1>6. UndervoltEnds
  BY <1>1 DEF UndervoltEnds, Rise, RailTop
<1> QED BY <1>2, <1>3, <1>4, <1>5, <1>6 DEF KernelSafe

(* Whatever the host writes between ticks and whatever a frame shows: the  *)
(* reference of a driving loop is in the band of the walls, the thermal    *)
(* derate and the stall fold; nothing drives between a fault and its       *)
(* acknowledgement; a stall that pended with the torque off never trips    *)
(* the next enable; an undervolt on a healthy rail comes back at most      *)
(* while the estimate climbs (kernel/mod.rs on_tick, faults.rs, limits.rs, *)
(* vbus.rs).                                                               *)
THEOREM SafeKernel == Spec => []KernelSafe
<1>1. Init => IInv
  BY InitIInv
<1>2. IInv /\ [Next]_vars => IInv'
  BY NextIInv
<1>3. IInv => KernelSafe
  BY IInvSafe
<1> QED BY <1>1, <1>2, <1>3, PTL DEF Spec

(* What a step of the kernel may never do, whichever of the tick's chains  *)
(* it runs: hide a fault behind a standing one (faults.rs), start a closed *)
(* drive from a stale integrator (current.rs, velocity.rs), or trip the    *)
(* stall timer of a parked servo (limits.rs).                              *)
THEOREM StepsKernel == Spec => KernelSteps
<1>1. Init => IInv
  BY InitIInv
<1>2. IInv /\ [Next]_vars => IInv'
  BY NextIInv
<1> DEFINE Latest == k.mask \subseteq k'.mask /\ k'.mask # k.mask
                       /\ (k.te_prev \/ ~torque_enable) => k'.code \in k'.mask \ k.mask
           Bumpless == cmd = "Disabled" /\ cmd' = "Drive" /\ mode' # "OpenLoop"
                         => Abs(k'.duty) <= 1 /\ Abs(k'.vel) <= 1
           Parks == parked /\ parked' => "STALL" \notin k'.mask \ k.mask
<1>3. IInv /\ [Next]_vars => [Latest /\ Bumpless /\ Parks]_vars
  <2> SUFFICES ASSUME IInv, Next PROVE Latest /\ Bumpless /\ Parks
    OBVIOUS
  <2>1. CASE Write \/ Plant
    <3>1. k' = k /\ cmd' = cmd
      BY <2>1 DEF Write, Plant
    <3> QED BY <3>1
  <2>2. CASE on_tick
    <3>1. PICK in : Sampled(in) /\ Ticked(Step(in), in)
      BY <2>2, TickTaken
    <3> DEFINE d == Step(in)
    <3>2. /\ Grown(Ack(k), d.s)
          /\ k.i_ref = 0 /\ (IsMedium => in.tau # "trip")
               => "STALL" \notin d.s.mask \ Ack(k).mask
          /\ /\ k.run_prev => k.mask # {}
             /\ d.c # "Disabled" /\ mode # "OpenLoop"
             => d.s.vel \in -1 .. 1 /\ d.s.duty \in -1 .. 1
      BY <3>1, TickIs DEF IInv
    <3> HIDE DEF d
    <3>3. Ticked(d, in)
      BY <3>1 DEF d
    <3>4. k' = d.s /\ cmd' = d.c /\ mode' = mode
      BY <3>3 DEF Ticked, lifecycle
    <3>5. /\ ~(torque_enable /\ ~k.te_prev) => Ack(k).mask = k.mask
          /\ torque_enable /\ ~k.te_prev => Ack(k).mask = {}
      BY AckIs, ZenonT(40) DEF IInv, Core, Typed, Same, KernelFields
    <3>6. Latest
      BY <3>2, <3>4, <3>5 DEF Grown
    <3>7. Bumpless
      <4> SUFFICES ASSUME cmd = "Disabled", cmd' = "Drive", mode' # "OpenLoop"
                   PROVE  Abs(k'.duty) <= 1 /\ Abs(k'.vel) <= 1
        OBVIOUS
      <4>1. k.run_prev => k.mask # {}
        BY DEF IInv
      <4>2. d.s.vel \in -1 .. 1 /\ d.s.duty \in -1 .. 1
        BY <3>2, <3>4, <4>1
      <4> QED BY <3>4, <4>2 DEF Abs
    <3>8. Parks
      <4> SUFFICES ASSUME parked, parked' PROVE "STALL" \notin k'.mask \ k.mask
        OBVIOUS
      <4>1. k.i_ref = 0
        BY DEF IInv, Core
      <4>2. IsMedium => in.tau # "trip"
        BY <3>3 DEF Ticked
      <4> QED BY <3>2, <3>4, <3>5, <4>1, <4>2
    <3> QED BY <3>6, <3>7, <3>8
  <2> QED BY <2>1, <2>2 DEF Next
<1>4. [Latest /\ Bumpless /\ Parks]_vars => [Latest]_vars /\ [Bumpless]_vars /\ [Parks]_vars
  OBVIOUS
<1> QED BY <1>1, <1>2, <1>3, <1>4, PTL
        DEF Spec, KernelSteps, CodeIsLatest, BumplessEnable, HoldNeverStalls

-----------------------------------------------------------------------------
(* The gain writer: while a write or a save is under way the fields behind  *)
(* the cursor hold the fit, so SAVE is reached with all of them.            *)

GainInv ==
    /\ ram \in [GainFields -> {"old", "fit"}]
    /\ file.image \in [GainFields -> {"old", "fit"}]
    /\ flash \in {Old, Fit}
    /\ at \in 1 .. Len(Fields)
    /\ order \in {"write", "save"} /\ step = "snap" => at = 1
    /\ order \in {"write", "save"} /\ step \in {"put", "check"} =>
           \A i \in 1 .. at - 1 : ram[Fields[i]] = "fit"
    /\ order = "save" /\ step \in {"torque", "commit"} => ram = Fit

LEMMA FieldsFacts ==
    /\ Len(Fields) \in Nat /\ Len(Fields) > 0
    /\ \A i \in 1 .. Len(Fields) : Fields[i] \in GainFields
    /\ \A f \in GainFields : \E i \in 1 .. Len(Fields) : f = Fields[i]
BY GainAssumption DEF GainFields

LEMMA ImageTypes ==
    /\ Old \in [GainFields -> {"old", "fit"}] /\ Fit \in [GainFields -> {"old", "fit"}]
    /\ \A f \in GainFields : Fit[f] = "fit"
BY DEF Old, Fit

LEMMA GainStarts == GainInit => GainInv
BY FieldsFacts, ImageTypes DEF GainInit, GainInv

LEMMA GainStays == GainInv /\ [GainNext]_gainVars => GainInv'
<1> SUFFICES ASSUME GainInv, [GainNext]_gainVars PROVE GainInv'
  OBVIOUS
<1>1. CASE StartCommand
  BY <1>1, FieldsFacts DEF GainInv, StartCommand
<1>2. CASE SnapshotGains
  BY <1>2, FieldsFacts DEF GainInv, SnapshotGains, LoseOne, Finish
<1>3. CASE PutField
  <2>1. Fields[at] \in GainFields
    BY FieldsFacts DEF GainInv
  <2>2. Wanted[Fields[at]] \in {"old", "fit"}
    BY <2>1, ImageTypes DEF GainInv, Wanted
  <2>3. order \in {"write", "save"} => Wanted[Fields[at]] = "fit"
    BY <2>1, ImageTypes DEF Wanted
  <2>4. PICK v \in {"old", "fit"} : v = Wanted[Fields[at]]
    BY <2>2
  <2>5. ram' \in {ram, [ram EXCEPT ![Fields[at]] = v]}
    BY <1>3, <2>4 DEF PutField
  <2>6. ram' \in [GainFields -> {"old", "fit"}]
    BY <2>1, <2>4, <2>5 DEF GainInv
  <2>7. UNCHANGED <<flash, file, at>> /\ step = "put" /\ step' \in {"put", "check"}
        /\ (order' = order \/ order' = "idle")
    BY <1>3 DEF PutField, Finish
  <2>8. ASSUME order' \in {"write", "save"}
        PROVE  \A i \in 1 .. at - 1 : ram'[Fields[i]] = "fit"
    <3> TAKE i \in 1 .. at - 1
    <3>1. order \in {"write", "save"} /\ v = "fit"
      BY <2>3, <2>4, <2>7, <2>8
    <3>2. ram[Fields[i]] = "fit"
      BY <3>1, <2>7 DEF GainInv
    <3>3. Fields[i] \in GainFields
      BY FieldsFacts DEF GainInv
    <3> QED
      BY <2>1, <2>5, <3>1, <3>2, <3>3 DEF GainInv
  <2> QED
    BY <2>6, <2>7, <2>8 DEF GainInv
<1>4. CASE CheckField
  <2>1. Fields[at] \in GainFields /\ at \in 1 .. Len(Fields) /\ Len(Fields) \in Nat
    BY FieldsFacts DEF GainInv
  <2>2. UNCHANGED <<ram, flash, file>> /\ step = "check"
    BY <1>4 DEF CheckField
  <2>3. order \in {"write", "save"} => Wanted[Fields[at]] = "fit"
    BY <2>1, ImageTypes DEF Wanted
  <2>4. CASE LoseOne /\ Finish("err") /\ UNCHANGED <<at, step>>
    BY <2>2, <2>4 DEF GainInv, Finish
  <2>5. CASE ram[Fields[at]] = Wanted[Fields[at]] /\ at < Len(Fields)
             /\ at' = at + 1 /\ step' = "put" /\ order' = order
    <3>1. order \in {"write", "save"} => \A i \in 1 .. at : ram[Fields[i]] = "fit"
      BY <2>1, <2>2, <2>3, <2>5 DEF GainInv
    <3> QED
      BY <2>1, <2>2, <2>5, <3>1 DEF GainInv
  <2>6. CASE ram[Fields[at]] = Wanted[Fields[at]] /\ ~(at < Len(Fields))
             /\ order = "save" /\ at' = at /\ step' = "torque" /\ order' = order
    <3>1. \A i \in 1 .. Len(Fields) : ram[Fields[i]] = "fit"
      BY <2>1, <2>2, <2>3, <2>6 DEF GainInv
    <3>2. \A f \in GainFields : ram[f] = Fit[f]
      BY <3>1, FieldsFacts, ImageTypes
    <3>3. ram = Fit
      BY <3>2, ImageTypes DEF GainInv
    <3> QED
      BY <2>1, <2>2, <2>6, <3>3 DEF GainInv
  <2>7. CASE Finish("ok") /\ UNCHANGED <<at, step>>
    BY <2>2, <2>7 DEF GainInv, Finish
  <2> QED
    BY <1>4, <2>4, <2>5, <2>6, <2>7 DEF CheckField
<1>5. CASE TorqueOff
  BY <1>5 DEF GainInv, TorqueOff, LoseOne, Finish
<1>6. CASE Commit
  BY <1>6 DEF GainInv, Commit, LoseOne, Finish
<1>7. CASE PowerCycle
  BY <1>7, ImageTypes DEF GainInv, PowerCycle
<1>8. CASE UNCHANGED gainVars
  BY <1>8 DEF GainInv, gainVars
<1> QED
  BY <1>1, <1>2, <1>3, <1>4, <1>5, <1>6, <1>7, <1>8 DEF GainNext

(* SAVE never stores a mixture of old and fitted gains, whichever           *)
(* transactions are lost and whichever commands the operator runs           *)
(* (rig/snapshot.rs, ident/mod.rs).                                         *)
THEOREM SavesUnmixed == GainSpec => []SavedUnmixed
<1>1. GainInit => GainInv
  BY GainStarts
<1>2. GainInv /\ [GainNext]_gainVars => GainInv'
  BY GainStays
<1>3. GainInv => SavedUnmixed
  BY DEF GainInv, SavedUnmixed
<1> QED
  BY <1>1, <1>2, <1>3, PTL DEF GainSpec

-----------------------------------------------------------------------------
(* The identification runner: with_guard's writes, seen from the one it is  *)
(* at.  While none was missed the registers behind it are zero; with one    *)
(* missed, torque and the goals back each other up.                         *)

Goalless == servo.duty = 0 /\ servo.cur = 0 /\ servo.vel = 0

Forced ==
    /\ missed = 0 =>
           /\ count > 1 => servo.duty = 0
           /\ count > 2 => servo.cur = 0
           /\ count > 3 => servo.vel = 0
           /\ count > 4 => servo.torque = 0
    /\ missed < 2 /\ count > 4 => servo.torque = 0 \/ Goalless

Rested == {"start", "run", "check", "exit"}

RigInv ==
    /\ servo = [r \in DOMAIN ServoRest |-> servo[r]]
    /\ missed \in Nat
    /\ pc = "guard" => count \in 1 .. 6 /\ after \in {"exit", "check", "run"} /\ Forced
    /\ pc \in Rested /\ missed < 2 => servo.torque = 0 \/ Goalless

LEMMA ServoRegs ==
    DOMAIN ServoRest = {"mode", "torque", "duty", "cur", "vel", "tel", "telmask"}
BY DEF ServoRest

LEMMA PutKeeps ==
    ASSUME NEW S, NEW c, S = [r \in DOMAIN ServoRest |-> S[r]]
    PROVE  Put(S, c) = [r \in DOMAIN ServoRest |-> Put(S, c)[r]]
BY DEF Put

LEMMA PutSets ==
    ASSUME NEW S, NEW g \in DOMAIN ServoRest, NEW v, S = [r \in DOMAIN ServoRest |-> S[r]]
    PROVE  /\ Put(S, WriteTo(g, v))[g] = v
           /\ \A r \in DOMAIN ServoRest \ {g} : Put(S, WriteTo(g, v))[r] = S[r]
BY DEF Put, WriteTo

LEMMA RigStarts == RigInit => RigInv
<1> SUFFICES ASSUME RigInit PROVE RigInv
  OBVIOUS
<1>1. PICK m \in {0, 2} : servo = [ServoRest EXCEPT !.mode = m]
  BY DEF RigInit
<1>2. servo = [r \in DOMAIN ServoRest |-> servo[r]] /\ servo.torque = 0
  BY <1>1 DEF ServoRest
<1> QED
  BY <1>2 DEF RigInit, RigInv, Rested

(* A write that ends in the pump or in with_guard, whatever it wrote.       *)
LEMMA DrivenStep ==
    ASSUME RigInv, NEW c, servo' \in {servo, Put(servo, c)},
           \/ pc' \notin Rested \cup {"guard"} /\ missed' = missed
           \/ pc' = "guard" /\ count' = 1 /\ missed' = 0 /\ after' \in {"exit", "check", "run"}
    PROVE  RigInv'
<1>1. servo' = [r \in DOMAIN ServoRest |-> servo'[r]]
  BY PutKeeps DEF RigInv
<1> QED
  BY <1>1 DEF RigInv, Forced, Rested

LEMMA GuardStays == RigInv /\ WithGuard => RigInv'
<1> SUFFICES ASSUME RigInv, WithGuard PROVE RigInv'
  OBVIOUS
<1>1. PICK ok \in BOOLEAN, applied \in BOOLEAN :
         /\ WriteReg(SafeWrites[count], ok, applied)
         /\ missed' = IF applied THEN missed ELSE missed + 1
  BY DEF WithGuard
<1>2. pc = "guard" /\ count \in 1 .. 6 /\ missed \in Nat /\ Forced
      /\ after \in {"exit", "check", "run"} /\ after' = after
      /\ servo = [r \in DOMAIN ServoRest |-> servo[r]]
  BY DEF RigInv, WithGuard
<1>3. servo' = IF applied THEN Put(servo, SafeWrites[count]) ELSE servo
  BY <1>1 DEF WriteReg
<1>4. servo' = [r \in DOMAIN ServoRest |-> servo'[r]]
  BY <1>2, <1>3, PutKeeps
<1>5. (IF count = 6 THEN pc' = after /\ count' = 0 ELSE pc' = pc /\ count' = count + 1)
  BY DEF WithGuard, SafeWrites
<1>6. CASE ~applied
  <2>1. servo' = servo /\ missed' = missed + 1
    BY <1>1, <1>3, <1>6
  <2>2. CASE count = 6
    BY <1>2, <1>4, <1>5, <2>1, <2>2 DEF RigInv, Forced, Goalless, Rested
  <2>3. CASE count # 6
    BY <1>2, <1>4, <1>5, <2>1, <2>3 DEF RigInv, Forced, Goalless, Rested
  <2> QED
    BY <2>2, <2>3
<1>7. CASE applied
  <2>0. missed' = missed /\ servo' = Put(servo, SafeWrites[count])
    BY <1>1, <1>3, <1>7
  <2>1. CASE count = 1
    <3>1. servo' = Put(servo, WriteTo("duty", 0))
      BY <2>0, <2>1 DEF SafeWrites
    <3>2. servo'.duty = 0
      BY <3>1, <1>2, PutSets, ServoRegs
    <3> QED
      BY <1>2, <1>4, <1>5, <2>0, <2>1, <3>2 DEF RigInv, Forced, Goalless, Rested
  <2>2. CASE count = 2
    <3>1. servo' = Put(servo, WriteTo("cur", 0))
      BY <2>0, <2>2 DEF SafeWrites
    <3>2. servo'.cur = 0 /\ servo'.duty = servo.duty
      BY <3>1, <1>2, PutSets, ServoRegs
    <3> QED
      BY <1>2, <1>4, <1>5, <2>0, <2>2, <3>2 DEF RigInv, Forced, Goalless, Rested
  <2>3. CASE count = 3
    <3>1. servo' = Put(servo, WriteTo("vel", 0))
      BY <2>0, <2>3 DEF SafeWrites
    <3>2. servo'.vel = 0 /\ servo'.duty = servo.duty /\ servo'.cur = servo.cur
      BY <3>1, <1>2, PutSets, ServoRegs
    <3> QED
      BY <1>2, <1>4, <1>5, <2>0, <2>3, <3>2 DEF RigInv, Forced, Goalless, Rested
  <2>4. CASE count = 4
    <3>1. servo' = Put(servo, WriteTo("torque", 0))
      BY <2>0, <2>4 DEF SafeWrites
    <3>2. servo'.torque = 0 /\ servo'.duty = servo.duty /\ servo'.cur = servo.cur
          /\ servo'.vel = servo.vel
      BY <3>1, <1>2, PutSets, ServoRegs
    <3> QED
      BY <1>2, <1>4, <1>5, <2>0, <2>4, <3>2 DEF RigInv, Forced, Goalless, Rested
  <2>5. CASE count \in {5, 6}
    <3>1. PICK g \in {"tel", "telmask"} : servo' = Put(servo, WriteTo(g, 0))
      BY <2>0, <2>5 DEF SafeWrites
    <3>2. servo'.torque = servo.torque /\ servo'.duty = servo.duty /\ servo'.cur = servo.cur
          /\ servo'.vel = servo.vel
      BY <3>1, <1>2, PutSets, ServoRegs
    <3> QED
      BY <1>2, <1>4, <1>5, <2>0, <2>5, <3>2 DEF RigInv, Forced, Goalless, Rested
  <2> QED
    BY <1>2, <2>1, <2>2, <2>3, <2>4, <2>5
<1> QED
  BY <1>6, <1>7

LEMMA RigStays == RigInv /\ [RigNext]_rigVars => RigInv'
<1> SUFFICES ASSUME RigInv, [RigNext]_rigVars PROVE RigInv'
  OBVIOUS
<1> DEFINE Off == pc' \notin Rested \cup {"guard"} /\ missed' = missed
           In == pc' = "guard" /\ count' = 1 /\ missed' = 0
                 /\ after' \in {"exit", "check", "run"}
<1>1. CASE PumpInterrupted
  <2>1. servo' = servo /\ In
    BY <1>1 DEF PumpInterrupted, Leave
  <2> QED
    BY <2>1, DrivenStep
<1>2. CASE PumpWrite
  <2>1. PICK c : servo' \in {servo, Put(servo, c)} /\ (Off \/ In)
    <3> DEFINE s == GuardedStep(Head(prog), guard, x, pending)
    <3>1. servo' \in {servo, Put(servo, s.cmd)}
      BY <1>2 DEF PumpWrite
    <3>2. Off \/ In
      BY <1>2 DEF PumpWrite, Leave, Rested
    <3> QED
      BY <3>1, <3>2
  <2> QED
    BY <2>1, DrivenStep
<1>3. CASE PumpRead
  <2>1. servo' = servo /\ (Off \/ In)
    BY <1>3 DEF PumpRead, Leave, Rested
  <2> QED
    BY <2>1, DrivenStep
<1>4. CASE PumpPause
  <2>1. servo' = servo /\ Off
    BY <1>4 DEF PumpPause, Rested
  <2> QED
    BY <2>1, DrivenStep
<1>5. CASE PumpDone
  <2>1. servo' = servo /\ In
    BY <1>5 DEF PumpDone, Leave
  <2> QED
    BY <2>1, DrivenStep
<1>6. CASE WithGuard
  BY <1>6, GuardStays
<1>7. CASE StartExperiment
  <2>1. servo' = servo /\ missed' = missed /\ pc = "start"
        /\ pc' \in {"pump", "recenterMode", "exit"}
    BY <1>7 DEF StartExperiment, StartPump
  <2> QED
    BY <2>1 DEF RigInv, Forced, Goalless, Rested
<1>8. ASSUME NEW c, NEW next, next \notin Rested \cup {"guard"}, RecenterWrite(c, next),
             count' = IF pc' = "guard" THEN 1 ELSE count
      PROVE  RigInv'
  <2>1. servo' \in {servo, Put(servo, c)}
    BY <1>8 DEF RecenterWrite, WriteReg
  <2>2. Off \/ In
    BY <1>8 DEF RecenterWrite, Rested
  <2> QED
    BY <2>1, <2>2, DrivenStep
<1>9. CASE RecenterMode
  BY <1>8, <1>9 DEF RecenterMode, Rested
<1>10. CASE RecenterTorque
  BY <1>8, <1>10 DEF RecenterTorque, Rested
<1>11. CASE RecenterDuty
  BY <1>8, <1>11 DEF RecenterDuty, Rested
<1>12. CASE RecenterRead
  <2>1. servo' = servo /\ (Off \/ In)
    BY <1>12 DEF RecenterRead, Leave, Rested
  <2> QED
    BY <2>1, DrivenStep
<1>13. CASE RunExperiment
  <2>1. servo' = servo /\ Off
    BY <1>13 DEF RunExperiment, StartPump, Rested
  <2> QED
    BY <2>1, DrivenStep
<1>14. CASE CheckAbort
  <2>1. servo' = servo /\ missed' = missed /\ pc = "check" /\ pc' \in {"exit", "start"}
    BY <1>14 DEF CheckAbort
  <2> QED
    BY <2>1 DEF RigInv, Forced, Goalless, Rested
<1>15. CASE Move \/ Window \/ TelFrame \/ CtrlC \/ UNCHANGED rigVars
  <2>1. UNCHANGED <<servo, missed, pc, count, after>>
    BY <1>15 DEF Move, Window, TelFrame, CtrlC, rigVars
  <2> QED
    BY <2>1 DEF RigInv, Forced, Goalless, Rested
<1> QED
  BY <1>1, <1>2, <1>3, <1>4, <1>5, <1>6, <1>7, <1>9, <1>10, <1>11, <1>12, <1>13, <1>14,
     <1>15 DEF RigNext, Tool

(* Whichever way a drive path of an identification run ends, the motor is   *)
(* not driven afterwards, unless two of with_guard's own writes never       *)
(* reached the servo (ident/mod.rs with_guard): for every program, envelope *)
(* and bound on the lost transactions.                                      *)
THEOREM RigExitsSafe == RigSpec => []SafeExit
<1>1. RigInit => RigInv
  BY RigStarts
<1>2. RigInv /\ [RigNext]_rigVars => RigInv'
  BY RigStays
<1>3. RigInv => SafeExit
  BY DEF RigInv, SafeExit, MotorDrive, Goalless, Rested
<1> QED
  BY <1>1, <1>2, <1>3, PTL DEF RigSpec

-----------------------------------------------------------------------------
(* The calibration tool.  Wherever it is not driving, torque and duty back  *)
(* each other up unless both of park's writes were lost; nothing it does    *)
(* sets the goals of the closed loops; and the table is written from the    *)
(* front of the plan to its end before SAVE.                                *)

Blank == [r \in Regs |-> -1]

\* A plan names each of its registers once.
PlanOK(p) ==
    /\ \E S : p \in Seq(S)
    /\ \A i \in DOMAIN p : p[i][1] \in Regs
    /\ \A i, j \in DOMAIN p : p[i][1] = p[j][1] => i = j

\* The entries of p that are no longer in rest are in t.
WrittenSoFar(p, rest, t) ==
    /\ PlanOK(p)
    /\ (\E S : rest \in Seq(S)) /\ Len(rest) <= Len(p)
    /\ \A i \in 1 .. Len(rest) : rest[i] = p[Len(p) - Len(rest) + i]
    /\ \A i \in 1 .. Len(p) - Len(rest) : t[p[i][1]] = p[i][2]

\* The end-stop finder and the sweep, by their phases.
EndstopPhases == {"ModeWrite", "TorqueOn", "SeekSet", "SeekRead", "SeekEval", "RestOff",
                  "RestPause", "FinishDuty", "FinishTorque", "Finished"}
SweepPhases == {"MaskOn", "EnaOn", "ModeWrite", "TorqueOn", "CaptureDuty", "CapturePause",
                "ZeroDuty", "TorqueOff", "EnaOff", "MaskOff", "Finished"}
Guards == {"Run", "DutyOff", "TorqueOff", "Finished"}

Running(e, X) ==
    /\ "phase" \in DOMAIN X
    /\ \/ e = "endstop" /\ X.phase \in EndstopPhases
       \/ e = "sweep" /\ X.phase \in SweepPhases

\* Of torque and duty, one is off; the closed loops have no goal.
Resting == missed < 2 => servo.torque = 0 \/ servo.duty = 0
NoGoal == servo.cur = 0 /\ servo.vel = 0

Parked == {"start", "check", "here", "anchor", "snapshot", "write", "save"}
Ended == {"write", "save", "exit"}

CalInv ==
    /\ servo = [r \in DOMAIN ServoRest |-> servo[r]]
    /\ NoGoal
    /\ lost \in Nat /\ missed \in Nat
    /\ table = [r \in Regs |-> table[r]]
    /\ pc = "pump" => Len(prog) > 0 /\ guard \in Guards /\ Running(Head(prog), x)
    /\ pc \in Parked => Resting
    /\ pc = "guard" => /\ count \in 1 .. 2 /\ after \in {"check", "exit", "anchor"}
                       /\ count = 2 /\ missed = 0 => servo.duty = 0
    /\ pc \notin Ended => table = Blank
    /\ pc # "exit" => nv = Blank
    /\ pc = "snapshot" => WrittenSoFar(planned, plan, table)
    /\ pc = "write" => WrittenSoFar(planned, plan, table)
    /\ pc = "save" => WrittenSoFar(planned, <<>>, table)
    /\ SaveIsWhole

LEMMA CalStarts == CalInit => CalInv
<1> SUFFICES ASSUME CalInit PROVE CalInv
  OBVIOUS
<1>1. servo = [r \in DOMAIN ServoRest |-> servo[r]] /\ servo.torque = 0 /\ NoGoal
  BY DEF CalInit, ServoRest, NoGoal
<1> QED
  BY <1>1 DEF CalInit, RigInit, CalInv, Blank, SaveIsWhole, Parked, Resting

(* What either pumped run commands: never a goal of a closed loop.          *)
Tame(e, s) == Running(e, s.x) /\ s.cmd.reg \notin {"cur", "vel"}

LEMMA ToIs ==
    ASSUME NEW e, NEW X, "phase" \in DOMAIN X, NEW c, c.reg \notin {"cur", "vel"},
           NEW p, \/ e = "endstop" /\ p \in EndstopPhases
                  \/ e = "sweep" /\ p \in SweepPhases
    PROVE  Tame(e, To(X, p, c))
<1>1. To(X, p, c).x = [X EXCEPT !.phase = p] /\ To(X, p, c).cmd = c
  BY DEF To
<1>2. "phase" \in DOMAIN [X EXCEPT !.phase = p] /\ [X EXCEPT !.phase = p].phase = p
  OBVIOUS
<1> QED
  BY <1>1, <1>2 DEF Tame, Running

LEMMA RegsOf ==
    /\ \A v : /\ WriteTo("duty", v).reg = "duty" /\ WriteTo("torque", v).reg = "torque"
             /\ WriteTo("mode", v).reg = "mode" /\ WriteTo("tel", v).reg = "tel"
             /\ WriteTo("telmask", v).reg = "telmask"
    /\ Read.reg \notin {"cur", "vel"} /\ Pause.reg \notin {"cur", "vel"}
    /\ Done.reg \notin {"cur", "vel"}
<1>1. \A v : /\ WriteTo("duty", v).reg = "duty" /\ WriteTo("torque", v).reg = "torque"
            /\ WriteTo("mode", v).reg = "mode" /\ WriteTo("tel", v).reg = "tel"
            /\ WriteTo("telmask", v).reg = "telmask"
  BY DEF WriteTo
<1>2. Read.reg = "" /\ Pause.reg = "" /\ Done.reg = ""
  BY Zenon DEF Read, Pause, Done
<1>3. "" \notin {"cur", "vel"}
  BY Zenon
<1> QED
  BY <1>1, <1>2, <1>3, Zenon

LEMMA EndstopIs ==
    ASSUME NEW X, NEW o, "phase" \in DOMAIN X, X.phase \in EndstopPhases
    PROVE  Tame("endstop", EndstopStep(X, o))
<1> DEFINE R(Y) == "phase" \in DOMAIN Y
<1>1. R(ResetMotionTrack(X)) /\ R(TrackStill(X, o)) /\ R([X EXCEPT !.n = 1])
      /\ R([TrackStill(X, o) EXCEPT !.rail[X.n + 1] = o.pos])
  BY DEF ResetMotionTrack, TrackStill
<1>2. EndstopStep(X, o) \in
         {To(X, "TorqueOn", WriteTo("mode", 0)), To(X, "SeekSet", WriteTo("torque", 1)),
          To(ResetMotionTrack(X), "SeekRead", WriteTo("duty", Dir(X))),
          To(X, "SeekEval", Read), To(TrackStill(X, o), "SeekRead", Pause),
          To([TrackStill(X, o) EXCEPT !.rail[X.n + 1] = o.pos], "RestOff", Pause),
          To(X, "RestPause", WriteTo("duty", 0)), To([X EXCEPT !.n = 1], "SeekSet", Pause),
          To(X, "FinishDuty", Pause), To(X, "FinishTorque", WriteTo("duty", 0)),
          To(X, "Finished", WriteTo("torque", 0)), To(X, "Finished", Done)}
  BY DEF EndstopStep, EndstopPhases
<1>3. \A Y, p : R(Y) /\ p \in EndstopPhases =>
         /\ Tame("endstop", To(Y, p, Pause))
         /\ Tame("endstop", To(Y, p, Read)) /\ Tame("endstop", To(Y, p, Done))
         /\ \A v : /\ Tame("endstop", To(Y, p, WriteTo("mode", v)))
                  /\ Tame("endstop", To(Y, p, WriteTo("torque", v)))
                  /\ Tame("endstop", To(Y, p, WriteTo("duty", v)))
  BY RegsOf, ToIs
<1> QED
  BY <1>1, <1>2, <1>3 DEF EndstopPhases

LEMMA SweepIs ==
    ASSUME NEW X, NEW o, "phase" \in DOMAIN X, X.phase \in SweepPhases
    PROVE  Tame("sweep", SweepStep(X, o))
<1>1. SweepStep(X, o) \in
         {To(X, "EnaOn", WriteTo("telmask", 1)), To(X, "ModeWrite", WriteTo("tel", 1)),
          To(X, "TorqueOn", WriteTo("mode", 0)), To(X, "CaptureDuty", WriteTo("torque", 1)),
          To(X, "CapturePause", WriteTo("duty", X.first)), To(X, "ZeroDuty", Pause),
          To(X, "TorqueOff", WriteTo("duty", 0)), To(X, "EnaOff", WriteTo("torque", 0)),
          To(X, "MaskOff", WriteTo("tel", 0)), To(X, "Finished", WriteTo("telmask", 0)),
          To(X, "Finished", Done)}
  BY DEF SweepStep, SweepPhases
<1>2. \A p \in SweepPhases :
         /\ Tame("sweep", To(X, p, Pause)) /\ Tame("sweep", To(X, p, Done))
         /\ \A v : /\ Tame("sweep", To(X, p, WriteTo("mode", v)))
                  /\ Tame("sweep", To(X, p, WriteTo("torque", v)))
                  /\ Tame("sweep", To(X, p, WriteTo("duty", v)))
                  /\ Tame("sweep", To(X, p, WriteTo("tel", v)))
                  /\ Tame("sweep", To(X, p, WriteTo("telmask", v)))
  BY RegsOf, ToIs
<1> QED
  BY <1>1, <1>2 DEF SweepPhases

LEMMA CommandsIs ==
    ASSUME NEW e, NEW g \in Guards, NEW X, NEW o, Running(e, X)
    PROVE  Tame(e, GuardedStep(e, g, X, o)) /\ GuardedStep(e, g, X, o).g \in Guards
<1> DEFINE s == ExperimentStep(e, X, o)
           t == GuardedStep(e, g, X, o)
<1>1. Tame(e, s)
  <2>1. CASE e = "endstop"
    BY <2>1, EndstopIs DEF Running, ExperimentStep
  <2>2. CASE e = "sweep"
    BY <2>2, SweepIs DEF Running, ExperimentStep
  <2> QED
    BY <2>1, <2>2 DEF Running
<1>2. \/ t = [g |-> "TorqueOff", x |-> X, cmd |-> WriteTo("duty", 0)]
      \/ t = [g |-> "Finished", x |-> X, cmd |-> WriteTo("torque", 0)]
      \/ t = [g |-> "Finished", x |-> X, cmd |-> Done]
      \/ t = [g |-> "Run", x |-> s.x, cmd |-> s.cmd]
  BY DEF GuardedStep, Guards
<1> HIDE DEF s, t
<1>3. t.g \in Guards
  BY <1>2 DEF Guards
<1>4. t.x = X \/ t.x = s.x
  BY <1>2
<1>5. t.cmd.reg \notin {"cur", "vel"} \/ t.cmd = s.cmd
  BY <1>2, RegsOf
<1>6. Tame(e, t)
  BY <1>1, <1>4, <1>5 DEF Tame
<1> QED
  BY <1>3, <1>6 DEF t

LEMMA DrainedRuns ==
    ASSUME NEW e, NEW Y, Running(e, Y)
    PROVE  Running(e, Drained(Y))
<1>1. Drained(Y) \in {Y, [Y EXCEPT !.kept = @ \cup frames]}
  BY DEF Drained, PushTel
<1>2. "phase" \in DOMAIN Drained(Y) /\ Drained(Y).phase = Y.phase
  BY <1>1 DEF Running
<1> QED
  BY <1>2 DEF Running

LEMMA PutOther ==
    ASSUME NEW S, NEW c, NEW r \in DOMAIN ServoRest, r # c.reg,
           S = [q \in DOMAIN ServoRest |-> S[q]]
    PROVE  Put(S, c)[r] = S[r]
BY DEF Put

LEMMA NoGoalStays ==
    ASSUME CalInv, NEW c, c.reg \notin {"cur", "vel"}, servo' \in {servo, Put(servo, c)}
    PROVE  NoGoal' /\ servo' = [r \in DOMAIN ServoRest |-> servo'[r]]
<1>1. servo = [r \in DOMAIN ServoRest |-> servo[r]] /\ NoGoal
  BY DEF CalInv
<1>2. Put(servo, c) = [r \in DOMAIN ServoRest |-> Put(servo, c)[r]]
      /\ Put(servo, c).cur = servo.cur /\ Put(servo, c).vel = servo.vel
  BY <1>1, PutKeeps, PutOther, ServoRegs
<1> QED
  BY <1>1, <1>2 DEF NoGoal

LEMMA WrittenStart ==
    ASSUME NEW p, NEW t, PlanOK(p)
    PROVE  WrittenSoFar(p, p, t)
BY DEF WrittenSoFar, PlanOK

LEMMA WrittenNext ==
    ASSUME NEW p, NEW rest, NEW t, WrittenSoFar(p, rest, t), rest # <<>>,
           t = [r \in Regs |-> t[r]]
    PROVE  WrittenSoFar(p, Tail(rest), [t EXCEPT ![Head(rest)[1]] = Head(rest)[2]])
<1> DEFINE n == Len(p)
           m == Len(rest)
           u == [t EXCEPT ![Head(rest)[1]] = Head(rest)[2]]
<1>1. PICK S, T : p \in Seq(S) /\ rest \in Seq(T)
  BY DEF WrittenSoFar, PlanOK
<1>2. n \in Nat /\ m \in Nat /\ m > 0 /\ m <= n /\ DOMAIN p = 1 .. n
  BY <1>1 DEF WrittenSoFar
<1>3. Tail(rest) \in Seq(T) /\ Len(Tail(rest)) = m - 1
      /\ \A i \in 1 .. m - 1 : Tail(rest)[i] = rest[i + 1]
  BY <1>1, <1>2
<1>4. Head(rest) = p[n - m + 1]
  <2>1. Head(rest) = rest[1] /\ 1 \in 1 .. m
    BY <1>1, <1>2
  <2> QED
    BY <2>1 DEF WrittenSoFar
<1>5. \A i \in 1 .. m - 1 : Tail(rest)[i] = p[n - (m - 1) + i]
  <2> TAKE i \in 1 .. m - 1
  <2>1. i + 1 \in 1 .. m /\ n - m + (i + 1) = n - (m - 1) + i
    BY <1>2
  <2>2. rest[i + 1] = p[n - m + (i + 1)]
    BY <2>1 DEF WrittenSoFar
  <2> QED
    BY <1>3, <2>1, <2>2
<1>6. \A i \in 1 .. n - (m - 1) : u[p[i][1]] = p[i][2]
  <2> TAKE i \in 1 .. n - (m - 1)
  <2>1. i \in DOMAIN p /\ n - m + 1 \in DOMAIN p
    BY <1>2
  <2>2. p[i][1] \in Regs /\ p[n - m + 1][1] \in Regs
    BY <2>1 DEF WrittenSoFar, PlanOK
  <2>3. CASE i = n - m + 1
    BY <1>4, <2>2, <2>3
  <2>4. CASE i # n - m + 1
    <3>1. p[i][1] # p[n - m + 1][1]
      BY <2>1, <2>4 DEF WrittenSoFar, PlanOK
    <3>2. i \in 1 .. n - m
      BY <1>2, <2>4
    <3>3. t[p[i][1]] = p[i][2]
      BY <3>2 DEF WrittenSoFar
    <3> QED
      BY <1>4, <2>2, <3>1, <3>3
  <2> QED
    BY <2>3, <2>4
<1>7. m - 1 <= n
  BY <1>2
<1> QED
  BY <1>3, <1>5, <1>6, <1>7 DEF WrittenSoFar

LEMMA WrittenAll ==
    ASSUME NEW p, NEW t, WrittenSoFar(p, <<>>, t)
    PROVE  \A i \in DOMAIN p : t[p[i][1]] = p[i][2]
<1>1. PICK S : p \in Seq(S)
  BY DEF WrittenSoFar, PlanOK
<1>2. Len(p) \in Nat /\ DOMAIN p = 1 .. Len(p) /\ Len(p) - 0 = Len(p) /\ Len(<<>>) = 0
  BY <1>1
<1> QED
  BY <1>2 DEF WrittenSoFar

LEMMA PlanJoins ==
    ASSUME NEW p, NEW q, PlanOK(p), PlanOK(q),
           \A i \in DOMAIN p, j \in DOMAIN q : p[i][1] # q[j][1]
    PROVE  PlanOK(p \o q)
<1> DEFINE n == Len(p)
           m == Len(q)
           r == p \o q
<1>1. PICK S, T : p \in Seq(S) /\ q \in Seq(T)
  BY DEF PlanOK
<1>2. n \in Nat /\ m \in Nat /\ DOMAIN p = 1 .. n /\ DOMAIN q = 1 .. m
  BY <1>1
<1>3. p \in Seq(S \cup T) /\ q \in Seq(S \cup T)
  BY <1>1
<1>4. r \in Seq(S \cup T) /\ Len(r) = n + m
      /\ \A i \in 1 .. n + m : r[i] = IF i <= n THEN p[i] ELSE q[i - n]
  BY <1>3
<1>5. DOMAIN r = 1 .. n + m
  BY <1>4
<1>6. \A i \in 1 .. n + m : \/ i \in DOMAIN p /\ i <= n /\ r[i] = p[i]
                            \/ i - n \in DOMAIN q /\ i > n /\ r[i] = q[i - n]
  BY <1>2, <1>4
<1> HIDE DEF r
<1>7. \A i \in DOMAIN r : r[i][1] \in Regs
  BY <1>5, <1>6 DEF PlanOK
<1>8. \A i, j \in DOMAIN r : r[i][1] = r[j][1] => i = j
  <2> TAKE i, j \in DOMAIN r
  <2> HAVE r[i][1] = r[j][1]
  <2>1. i \in Nat /\ j \in Nat /\ n \in Nat
    BY <1>2, <1>5
  <2>2. CASE i <= n /\ j <= n
    BY <1>5, <1>6, <2>1, <2>2 DEF PlanOK
  <2>3. CASE i > n /\ j > n
    <3>1. i - n \in DOMAIN q /\ r[i] = q[i - n]
      BY <1>5, <1>6, <2>1, <2>3
    <3>3. j - n \in DOMAIN q /\ r[j] = q[j - n]
      BY <1>5, <1>6, <2>1, <2>3
    <3>2. i - n = j - n
      BY <3>1, <3>3 DEF PlanOK
    <3> QED
      BY <2>1, <3>2
  <2>4. CASE i <= n /\ j > n
    BY <1>5, <1>6, <2>1, <2>4
  <2>5. CASE i > n /\ j <= n
    BY <1>5, <1>6, <2>1, <2>5
  <2> QED
    BY <2>1, <2>2, <2>3, <2>4, <2>5
<1> QED
  BY <1>4, <1>7, <1>8 DEF PlanOK, r

\* The two shapes of a plan, whatever the values in them.
LEMMA PlanShape ==
    ASSUME NEW a, NEW lut \in BOOLEAN
    PROVE  PlanOK(Plan(a, lut))
<1> DEFINE M == << <<"pmin", cal.lo>>, <<"pmax", cal.hi>>,
                   <<"smin", SoftToCount(SoftAngles(a).lo, a)>>,
                   <<"smax", SoftToCount(SoftAngles(a).hi, a)>>,
                   <<"pol", IF cal.pol = 1 THEN 1 ELSE 0>>,
                   <<"amin", a.lo>>, <<"amax", a.hi>>, <<"gear", a.gear>> >>
           L == << <<"lutmin", cal.lo>>, <<"lutmax", cal.hi>>, <<"lutcorr", 1>> >>
<1>1. Plan(a, lut) = IF lut THEN M \o L ELSE M
  BY DEF Plan, PotLut
<1>2. PlanOK(M)
  <2> DEFINE S == {M[i] : i \in 1 .. 8}
  <2>1. M \in Seq(S)
    OBVIOUS
  <2>2. (\A i \in DOMAIN M : M[i][1] \in Regs)
        /\ \A i, j \in DOMAIN M : M[i][1] = M[j][1] => i = j
    BY DEF Regs
  <2> HIDE DEF M
  <2>3. \E R : M \in Seq(R)
    BY <2>1
  <2> QED
    BY <2>2, <2>3 DEF PlanOK
<1>3. PlanOK(L)
  <2> DEFINE S == {L[i] : i \in 1 .. 3}
  <2>1. L \in Seq(S)
    OBVIOUS
  <2>2. (\A i \in DOMAIN L : L[i][1] \in Regs)
        /\ \A i, j \in DOMAIN L : L[i][1] = L[j][1] => i = j
    BY DEF Regs
  <2> HIDE DEF L
  <2>3. \E R : L \in Seq(R)
    BY <2>1
  <2> QED
    BY <2>2, <2>3 DEF PlanOK
<1>4. \A i \in DOMAIN M, j \in DOMAIN L : M[i][1] # L[j][1]
  OBVIOUS
<1> HIDE DEF M, L
<1> QED
  BY <1>1, <1>2, <1>3, <1>4, PlanJoins

LEMMA ParkStays ==
    CalInv /\ CalPark => CalInv' /\ (pc' # "guard" => Resting')
<1> SUFFICES ASSUME CalInv, CalPark PROVE CalInv' /\ (pc' # "guard" => Resting')
  OBVIOUS
<1>1. PICK ok \in BOOLEAN, applied \in BOOLEAN :
         /\ WriteReg(ParkWrites[count], ok, applied)
         /\ missed' = IF applied THEN missed ELSE missed + 1
  BY DEF CalPark
<1>2. /\ pc = "guard" /\ count \in 1 .. 2 /\ after \in {"check", "exit", "anchor"}
      /\ after' = after /\ servo = [r \in DOMAIN ServoRest |-> servo[r]]
      /\ lost \in Nat /\ missed \in Nat
      /\ (count = 2 /\ missed = 0 => servo.duty = 0) /\ UNCHANGED calVars
  BY DEF CalInv, CalPark
<1>3. /\ servo' = IF applied THEN Put(servo, ParkWrites[count]) ELSE servo
      /\ lost' \in Nat /\ missed' \in Nat
  BY <1>1, <1>2 DEF WriteReg
<1>4. servo' = [r \in DOMAIN ServoRest |-> servo'[r]] /\ NoGoal'
  <2>1. ParkWrites[count].reg \notin {"cur", "vel"}
    BY <1>2 DEF ParkWrites, WriteTo
  <2> QED
    BY <1>3, <2>1, NoGoalStays
<1>5. table = Blank /\ nv = Blank /\ UNCHANGED <<table, nv, planned, plan>> /\ SaveIsWhole'
      /\ table' = [r \in Regs |-> table'[r]]
  BY <1>2 DEF CalInv, calVars, SaveIsWhole, Blank, Ended
<1>6. CASE count = 1
  <2>1. pc' = "guard" /\ count' = 2 /\ ParkWrites[count] = WriteTo("duty", 0)
    BY <1>2, <1>6 DEF CalPark, ParkWrites
  <2>2. missed' = 0 => servo'.duty = 0
    BY <1>1, <1>2, <1>3, <2>1, PutSets, ServoRegs
  <2> QED
    BY <1>2, <1>3, <1>4, <1>5, <2>1, <2>2 DEF CalInv, Parked
<1>7. CASE count = 2
  <2>1. pc' = after /\ ParkWrites[count] = WriteTo("torque", 0)
    BY <1>7 DEF CalPark, ParkWrites
  <2>2. Resting'
    <3>1. CASE applied
      BY <1>2, <1>3, <2>1, <3>1, PutSets, ServoRegs DEF Resting
    <3>2. CASE ~applied
      BY <1>1, <1>2, <1>3, <1>7, <3>2 DEF Resting
    <3> QED
      BY <3>1, <3>2
  <2> QED
    BY <1>2, <1>3, <1>4, <1>5, <2>1, <2>2 DEF CalInv, Parked
<1> QED
  BY <1>2, <1>6, <1>7

(* A step of a loop that drives, or of the pump: it stays among them, or    *)
(* leaves through the parking writes, or bails out after a loss.            *)
LEMMA LoopStays ==
    ASSUME CalInv, NEW c, servo' \in {servo, Put(servo, c)}, c.reg \notin {"cur", "vel"},
           lost' \in Nat, missed' \in Nat,
           pc \notin Ended, UNCHANGED <<table, nv, planned>>,
           pc' = "pump" => Len(prog') > 0 /\ guard' \in Guards /\ Running(Head(prog'), x'),
           \/ pc' \notin Parked \cup Ended \cup {"guard"}
           \/ pc' = "guard" /\ count' = 1 /\ after' \in {"check", "exit", "anchor"}
           \/ pc' = "exit"
    PROVE  CalInv'
<1>1. servo' = [r \in DOMAIN ServoRest |-> servo'[r]] /\ NoGoal'
  BY NoGoalStays
<1>2. table' = Blank /\ nv' = Blank
  BY DEF CalInv, Ended
<1>3. SaveIsWhole'
  BY <1>2 DEF SaveIsWhole, Blank
<1>4. table' = [r \in Regs |-> table'[r]]
  BY DEF CalInv
<1> QED
  BY <1>1, <1>2, <1>3, <1>4 DEF CalInv, Parked, Ended

(* A step that leaves the servo alone and goes from rest to rest, or to a   *)
(* loop, before anything is written.                                        *)
LEMMA RestStays ==
    ASSUME CalInv, UNCHANGED <<servo, missed>>, lost' \in Nat, pc \in Parked,
           pc \notin Ended, UNCHANGED <<table, nv, planned>>,
           pc' = "pump" => Len(prog') > 0 /\ guard' \in Guards /\ Running(Head(prog'), x'),
           pc' \notin {"guard", "snapshot", "write", "save"}
    PROVE  CalInv'
<1>1. SaveIsWhole'
  BY DEF CalInv, SaveIsWhole, Blank, Ended
<1> QED
  BY <1>1 DEF CalInv, Parked, Ended, Resting, NoGoal

(* Both pumped runs start in their first phase.                             *)
LEMMA PumpedStart ==
    ASSUME NEW e \in {"endstop", "sweep"}, NEW f, StartPumped(e, f)
    PROVE  pc' = "pump" /\ Len(prog') > 0 /\ guard' \in Guards /\ Running(Head(prog'), x')
<1>1. Fresh(e) \in {FreshAt("ModeWrite"), FreshAt("MaskOn")}
      /\ (e = "endstop" => Fresh(e) = FreshAt("ModeWrite"))
      /\ (e = "sweep" => Fresh(e) = FreshAt("MaskOn"))
  BY DEF Fresh, EndstopNew, SweepNew
<1>2. "phase" \in DOMAIN Fresh(e)
  BY <1>1 DEF FreshAt
<1>3. "phase" \in DOMAIN x' /\ x'.phase = Fresh(e).phase
  BY <1>2 DEF StartPumped
<1>4. Fresh(e).phase = IF e = "endstop" THEN "ModeWrite" ELSE "MaskOn"
  BY <1>1 DEF FreshAt
<1> QED
  BY <1>3, <1>4 DEF StartPumped, Running, EndstopPhases, SweepPhases, Guards

LEMMA TorqueOffRests ==
    ASSUME CalInv, pc \in Parked, missed' = missed,
           servo' \in {servo, Put(servo, WriteTo("torque", 0))}
    PROVE  Resting'
<1>1. servo = [r \in DOMAIN ServoRest |-> servo[r]] /\ Resting
  BY DEF CalInv
<1>2. CASE servo' = servo
  BY <1>1, <1>2 DEF Resting
<1>3. CASE servo' = Put(servo, WriteTo("torque", 0))
  <2>1. servo'.torque = 0
    BY <1>1, <1>3, PutSets, ServoRegs
  <2> QED
    BY <2>1 DEF Resting
<1> QED
  BY <1>2, <1>3

LEMMA CalStays == CalInv /\ [CalNext]_allVars => CalInv'
<1> SUFFICES ASSUME CalInv, [CalNext]_allVars PROVE CalInv'
  OBVIOUS
<1>0. lost \in Nat /\ missed \in Nat
  BY DEF CalInv
<1> DEFINE Away == pc' \notin Parked \cup Ended \cup {"guard"}
           In == pc' = "guard" /\ count' = 1 /\ after' \in {"check", "exit", "anchor"}
           Runs == pc' = "pump" => Len(prog') > 0 /\ guard' \in Guards
                                   /\ Running(Head(prog'), x')
<1>a. Pause.reg \notin {"cur", "vel"}
  BY RegsOf
<1>1. CASE Sense
  <2>1. UNCHANGED <<servo, missed, table, nv, planned>> /\ pc = "start"
        /\ pc' \in {"exit", "pump"} /\ lost' \in {lost, lost + 1}
    BY <1>1 DEF Sense, LoseRead, Bail, StartPumped, calVars
  <2>2. Runs
    BY <1>1, PumpedStart DEF Sense, Bail
  <2> QED
    BY <1>0, <2>1, <2>2, RestStays DEF Parked, Ended
<1>2. CASE CalPump
  <2>1. pc = "pump" /\ UNCHANGED <<table, nv, planned>>
    BY <1>2 DEF CalPump, calVars, PumpInterrupted, PumpWrite, PumpRead, PumpPause, PumpDone
  <2> DEFINE s == GuardedStep(Head(prog), guard, x, pending)
  <2>2. /\ Len(prog) > 0 /\ s.g \in Guards /\ s.cmd.reg \notin {"cur", "vel"}
        /\ Running(Head(prog), s.x) /\ Running(Head(prog), Drained(s.x))
    <3>1. Len(prog) > 0 /\ guard \in Guards /\ Running(Head(prog), x)
      BY <2>1 DEF CalInv
    <3>2. s.g \in Guards /\ Running(Head(prog), s.x) /\ s.cmd.reg \notin {"cur", "vel"}
      BY <3>1, CommandsIs DEF Tame
    <3> HIDE DEF s
    <3> QED
      BY <3>1, <3>2, DrainedRuns
  <2> HIDE DEF s
  <2>3. CASE PumpInterrupted
    <3>1. servo' = servo /\ In /\ lost' = lost /\ missed' = 0
      BY <2>3 DEF PumpInterrupted, Leave
    <3> QED
      BY <1>0, <1>a, <2>1, <3>1, LoopStays DEF Ended
  <2>4. CASE PumpWrite
    <3>1. servo' \in {servo, Put(servo, s.cmd)} /\ lost' \in {lost, lost + 1}
          /\ missed' \in {missed, 0}
      BY <2>4 DEF PumpWrite, Leave, s
    <3>2. Away \/ In
      BY <2>4 DEF PumpWrite, Leave, Parked, Ended
    <3>3. pc' = "pump" => prog' = prog /\ guard' = s.g /\ x' = Drained(s.x)
      BY <2>4 DEF PumpWrite, Leave, s
    <3> QED
      BY <1>0, <2>1, <2>2, <3>1, <3>2, <3>3, LoopStays DEF Ended
  <2>5. CASE PumpRead
    <3>1. servo' = servo /\ (Away \/ In) /\ lost' \in {lost, lost + 1}
          /\ missed' \in {missed, 0}
      BY <2>5 DEF PumpRead, Leave, LoseRead, Parked, Ended
    <3>2. pc' = "pump" => prog' = prog /\ guard' = s.g /\ x' = Drained(s.x)
      BY <2>5 DEF PumpRead, Leave, s
    <3> QED
      BY <1>0, <1>a, <2>1, <2>2, <3>1, <3>2, LoopStays DEF Ended
  <2>6. CASE PumpPause
    <3>1. servo' = servo /\ Away /\ lost' = lost /\ missed' = missed
      BY <2>6 DEF PumpPause, Parked, Ended
    <3>2. prog' = prog /\ guard' = s.g /\ x' = Drained(s.x)
      BY <2>6 DEF PumpPause, s
    <3> QED
      BY <1>0, <1>a, <2>1, <2>2, <3>1, <3>2, LoopStays DEF Ended
  <2>7. CASE PumpDone
    <3>1. servo' = servo /\ In /\ lost' = lost /\ missed' = 0
      BY <2>7 DEF PumpDone, Leave
    <3> QED
      BY <1>0, <1>a, <2>1, <3>1, LoopStays DEF Ended
  <2> QED
    BY <1>2, <2>3, <2>4, <2>5, <2>6, <2>7 DEF CalPump
<1>3. CASE CalPark
  BY <1>3, ParkStays
<1>4. CASE EndstopDone
  <2>1. UNCHANGED <<servo, missed, table, nv, planned, lost>> /\ pc = "check"
        /\ pc' \in {"exit", "here", "reMode"}
    BY <1>4 DEF EndstopDone, Bail
  <2> QED
    BY <1>0, <2>1, RestStays DEF Parked, Ended
<1>5. CASE SweepDone
  <2>1. UNCHANGED <<servo, missed, table, nv, planned, lost>> /\ pc = "check"
        /\ pc' = "reMode"
    BY <1>5 DEF SweepDone, calVars
  <2> QED
    BY <1>0, <2>1, RestStays DEF Parked, Ended
<1>6. CASE LoopWrite
  <2>1. PICK w \in LoopWrites, ok \in BOOLEAN, applied \in BOOLEAN :
           /\ pc = w.at
           /\ WriteReg(w.cmd, ok, applied)
           /\ IF ok THEN pc' = w.next /\ failed' = failed ELSE Bail
    BY <1>6 DEF LoopWrite
  <2>2. w.at \notin Parked \cup Ended /\ w.next \notin Parked \cup Ended \cup {"guard", "pump"}
        /\ w.cmd.reg \notin {"cur", "vel"}
    BY DEF LoopWrites, LoopPut, Parked, Ended, WriteTo
  <2>3. servo' \in {servo, Put(servo, w.cmd)} /\ lost' \in Nat
    BY <1>0, <2>1 DEF WriteReg
  <2>4. (Away \/ pc' = "exit") /\ pc' # "pump"
    BY <2>1, <2>2 DEF Bail
  <2>5. UNCHANGED <<table, nv, planned, missed>>
    BY <1>6 DEF LoopWrite
  <2> QED
    BY <1>0, <2>1, <2>2, <2>3, <2>4, <2>5, LoopStays
<1>7. CASE LoopRead
  <2>1. UNCHANGED <<servo, missed, table, nv, planned>> /\ pc \notin Ended
    BY <1>7 DEF LoopRead, Ended
  <2>2. lost' \in Nat /\ pc' \in {"exit", "probeStop", "probeDrive", "probeOff"}
    BY <1>0, <1>7 DEF LoopRead, LoseRead, Bail
  <2> QED
    BY <1>0, <1>a, <2>1, <2>2, LoopStays DEF Parked, Ended
<1>8. CASE StopCheck
  <2>1. UNCHANGED <<servo, table, nv, planned, lost>> /\ pc \notin Ended /\ (Away \/ In)
        /\ pc' # "pump" /\ missed' \in {missed, 0}
    BY <1>8 DEF StopCheck, Park, Leave, Parked, Ended, calVars
  <2> QED
    BY <1>0, <1>a, <2>1, LoopStays
<1>9. CASE DriveTo
  <2>1. UNCHANGED <<servo, table, nv, planned>> /\ pc = "toLoop"
    BY <1>9 DEF DriveTo
  <2>2. lost' \in Nat /\ (Away \/ In \/ pc' = "exit") /\ pc' # "pump"
        /\ missed' \in {missed, 0}
    BY <1>0, <1>9 DEF DriveTo, LoseRead, Bail, Park, Leave, Parked, Ended
  <2> QED
    BY <1>0, <1>a, <2>1, <2>2, LoopStays DEF Ended
<1>10. CASE StartSweep
  <2>1. UNCHANGED <<servo, missed, table, nv, planned, lost>> /\ pc = "sweep"
    BY <1>10 DEF StartSweep, calVars
  <2>2. Runs /\ pc' = "pump"
    BY <1>10, PumpedStart DEF StartSweep
  <2> QED
    BY <1>0, <1>a, <2>1, <2>2, LoopStays DEF Parked, Ended
<1>11. CASE Recenter
  <2>1. UNCHANGED <<servo, table, nv, planned>> /\ pc = "reLoop"
    BY <1>11 DEF Recenter
  <2>2. lost' \in Nat /\ (Away \/ In \/ pc' = "exit") /\ pc' # "pump"
        /\ missed' \in {missed, 0}
    BY <1>0, <1>11 DEF Recenter, LoseRead, Bail, Park, Leave, Parked, Ended
  <2> QED
    BY <1>0, <1>a, <2>1, <2>2, LoopStays DEF Ended
<1>12. CASE ResolveAnchor
  <2>1. UNCHANGED <<servo, missed, table, nv, lost>> /\ pc = "anchor"
        /\ table = Blank /\ nv = Blank
    BY <1>12 DEF ResolveAnchor, CalInv, Ended
  <2>2. SaveIsWhole'
    BY <2>1 DEF SaveIsWhole, Blank
  <2>3. CASE pc' = "exit"
    BY <2>1, <2>2, <2>3 DEF CalInv, Parked, Ended, NoGoal
  <2>4. CASE pc' # "exit"
    <3>1. PICK revs \in BOOLEAN, lut \in BOOLEAN :
             plan' = Plan(Anchor(revs), lut) /\ planned' = plan' /\ pc' = "snapshot"
      BY <1>12, <2>4 DEF ResolveAnchor
    <3>2. WrittenSoFar(planned', plan', table')
      BY <3>1, PlanShape, WrittenStart
    <3> QED
      BY <2>1, <2>2, <3>1, <3>2 DEF CalInv, Parked, Ended, NoGoal, Resting
  <2> QED
    BY <2>3, <2>4
<1>13. CASE TakeSnapshot
  <2>1. UNCHANGED <<servo, missed, table, nv, plan, planned>> /\ pc = "snapshot"
        /\ pc' \in {"exit", "write"} /\ lost' \in {lost, lost + 1}
    BY <1>13 DEF TakeSnapshot, LoseRead, Bail, calVars
  <2>2. SaveIsWhole'
    BY <2>1 DEF CalInv, SaveIsWhole
  <2> QED
    BY <1>0, <2>1, <2>2 DEF CalInv, Parked, Ended, NoGoal, Resting
<1>14. CASE WriteTable
  <2>0. UNCHANGED <<servo, missed, nv, planned>> /\ pc = "write" /\ plan # <<>>
        /\ nv = Blank /\ WrittenSoFar(planned, plan, table)
        /\ table = [r \in Regs |-> table[r]]
    BY <1>14 DEF WriteTable, CalInv
  <2>1. PICK ok \in BOOLEAN, applied \in BOOLEAN :
           /\ ok => applied
           /\ IF ok THEN lost' = lost ELSE lost < MaxLost /\ lost' = lost + 1
           /\ table' = IF applied THEN [table EXCEPT ![Head(plan)[1]] = Head(plan)[2]]
                       ELSE table
           /\ IF ok THEN plan' = Tail(plan) /\ UNCHANGED <<pc, failed>>
              ELSE Bail /\ plan' = plan
    BY <1>14 DEF WriteTable
  <2>2. SaveIsWhole'
    BY <2>0 DEF SaveIsWhole, Blank
  <2>3. table' = [r \in Regs |-> table'[r]]
    BY <2>0, <2>1
  <2>4. CASE ok
    <3>1. WrittenSoFar(planned', plan', table')
      BY <2>0, <2>1, <2>4, WrittenNext
    <3> QED
      BY <2>0, <2>1, <2>2, <2>3, <2>4, <3>1 DEF CalInv, Parked, Ended, NoGoal, Resting
  <2>5. CASE ~ok
    BY <1>0, <2>0, <2>1, <2>2, <2>3, <2>5 DEF CalInv, Parked, Ended, NoGoal, Bail
  <2> QED
    BY <2>4, <2>5
<1>15. CASE TorqueOffForSave
  <2>0. UNCHANGED <<missed, table, nv, plan, planned>> /\ pc = "write" /\ plan = <<>>
        /\ nv = Blank /\ WrittenSoFar(planned, <<>>, table)
    BY <1>15 DEF TorqueOffForSave, CalInv, calVars
  <2>1. PICK ok \in BOOLEAN, applied \in BOOLEAN :
           /\ WriteReg(WriteTo("torque", 0), ok, applied)
           /\ IF ok THEN pc' = "save" /\ failed' = failed ELSE Bail
    BY <1>15 DEF TorqueOffForSave
  <2>2. servo' \in {servo, Put(servo, WriteTo("torque", 0))} /\ lost' \in Nat
    BY <1>0, <2>1 DEF WriteReg
  <2>3. servo' = [r \in DOMAIN ServoRest |-> servo'[r]] /\ NoGoal'
    BY <2>2, NoGoalStays DEF WriteTo
  <2>4. Resting'
    BY <2>0, <2>2, TorqueOffRests DEF Parked
  <2>5. SaveIsWhole' /\ table' = [r \in Regs |-> table'[r]]
    BY <2>0 DEF CalInv, SaveIsWhole
  <2> QED
    BY <1>0, <2>0, <2>1, <2>2, <2>3, <2>4, <2>5 DEF CalInv, Bail, Ended
<1>16. CASE Save
  <2>1. UNCHANGED <<servo, missed, table, plan, planned>> /\ pc = "save"
        /\ nv' \in {nv, table} /\ pc' = "exit" /\ lost' \in {lost, lost + 1}
    BY <1>16 DEF Save, LoseRead, Bail
  <2>2. \A i \in DOMAIN planned : table[planned[i][1]] = planned[i][2]
    BY <2>1, WrittenAll DEF CalInv
  <2>3. SaveIsWhole'
    BY <2>1, <2>2 DEF CalInv, SaveIsWhole, Blank
  <2> QED
    BY <1>0, <2>1, <2>3 DEF CalInv, Parked, Ended, NoGoal
<1>17. CASE CalMove \/ CalCtrlC \/ UNCHANGED allVars
  <2>1. UNCHANGED <<servo, lost, missed, pc, prog, guard, x, count, after, table, nv, plan,
                    planned>>
    BY <1>17 DEF CalMove, CalCtrlC, CtrlC, allVars, rigVars, calVars
  <2> QED
    BY <2>1 DEF CalInv, SaveIsWhole, NoGoal, Resting
<1> QED
  BY <1>1, <1>2, <1>3, <1>4, <1>5, <1>6, <1>7, <1>8, <1>9, <1>10, <1>11, <1>12, <1>13,
     <1>14, <1>15, <1>16, <1>17 DEF CalNext, CalTool

(* The step that ends the tool comes from rest, from park, or from a lost   *)
(* transaction of a drive loop.                                             *)
LEMMA CalEnds == CalInv /\ [CalNext]_allVars => DrivenEnd
<1> SUFFICES ASSUME CalInv, [CalNext]_allVars, pc # "exit", pc' = "exit",
                    ~(pc \in DriveLoops /\ lost' > lost)
             PROVE  Resting'
  <2>1. ASSUME CalInv, [CalNext]_allVars
        PROVE  NoGoal' /\ missed' \in Nat
    <3>1. CalInv'
      BY <2>1, CalStays
    <3> QED
      BY <3>1 DEF CalInv
  <2>2. ASSUME NoGoal', missed' \in Nat
        PROVE  Resting' /\ ~(missed' >= 2) => MotorDrive(servo') = 0
    BY <2>2 DEF Resting, NoGoal, MotorDrive
  <2> QED
    BY <2>1, <2>2 DEF DrivenEnd
<1>0. lost \in Nat
  BY DEF CalInv
<1>1. CASE pc \in Parked /\ UNCHANGED <<servo, missed>>
  BY <1>1 DEF CalInv, Resting
<1>2. CASE CalPark
  BY <1>2, ParkStays
<1>3. CASE LoopWrite
  <2>1. PICK w \in LoopWrites, ok \in BOOLEAN, applied \in BOOLEAN :
           /\ pc = w.at
           /\ WriteReg(w.cmd, ok, applied)
           /\ IF ok THEN pc' = w.next /\ failed' = failed ELSE Bail
    BY <1>3 DEF LoopWrite
  <2>2. w.next # "exit"
    BY DEF LoopWrites, LoopPut
  <2>3. pc \in DriveLoops /\ lost' = lost + 1
    BY <2>1, <2>2 DEF DriveLoops, WriteReg
  <2> QED
    BY <1>0, <2>3
<1>4. CASE LoopRead
  <2>1. lost' = lost + 1 /\ UNCHANGED <<servo, missed>>
        /\ pc \in {"here", "probeRead", "probeRead1"}
    BY <1>4 DEF LoopRead, LoseRead
  <2> QED
    BY <1>0, <1>1, <2>1 DEF DriveLoops, Parked
<1>5. CASE DriveTo \/ Recenter
  <2>1. lost' = lost + 1 /\ pc \in {"toLoop", "reLoop"}
    BY <1>5 DEF DriveTo, Recenter, LoseRead, Park, Leave
  <2> QED
    BY <1>0, <2>1 DEF DriveLoops
<1>6. CASE TorqueOffForSave
  <2>1. servo' \in {servo, Put(servo, WriteTo("torque", 0))} /\ missed' = missed
        /\ pc \in Parked
    BY <1>6 DEF TorqueOffForSave, WriteReg, Parked
  <2> QED
    BY <2>1, TorqueOffRests
<1>7. CASE Sense \/ EndstopDone \/ ResolveAnchor \/ TakeSnapshot \/ WriteTable \/ Save
  <2>1. pc \in Parked /\ UNCHANGED <<servo, missed>>
    BY <1>7 DEF Sense, EndstopDone, ResolveAnchor, TakeSnapshot, WriteTable, Save, Parked
  <2> QED
    BY <1>1, <2>1
<1>8. ~(CalPump \/ SweepDone \/ StopCheck \/ StartSweep \/ CalMove \/ CalCtrlC
        \/ UNCHANGED allVars)
  BY DEF CalPump, PumpInterrupted, PumpWrite, PumpRead, PumpPause, PumpDone, Leave, SweepDone,
     StopCheck, Park, StartSweep, StartPumped, CalMove, CalCtrlC, CtrlC, allVars, rigVars
<1> QED
  BY <1>2, <1>3, <1>4, <1>5, <1>6, <1>7, <1>8 DEF CalNext, CalTool

(* `osc cal` ends with the motor driven only when a transaction of one of   *)
(* its own drive loops is lost in that step, or both writes of its last     *)
(* park are; ctrl-c at any point parks.  The saved calibration is the old   *)
(* one or the whole new one whichever transactions are lost.  For every     *)
(* command line, travel and number of losses (cal/mod.rs).                  *)
THEOREM CalibrationSafe == CalSpec => CalSafe
<1>1. CalInit => CalInv
  BY CalStarts
<1>2. CalInv /\ [CalNext]_allVars => CalInv'
  BY CalStays
<1>3. CalInv => SaveIsWhole
  BY DEF CalInv
<1>4. CalInv /\ [CalNext]_allVars => [DrivenEnd]_allVars
  BY CalEnds
<1> QED
  BY <1>1, <1>2, <1>3, <1>4, PTL DEF CalSpec, CalSafe
=============================================================================
