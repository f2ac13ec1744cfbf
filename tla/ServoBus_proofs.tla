-------------------------- MODULE ServoBus_proofs ---------------------------
(***************************************************************************)
(* Proofs about ServoBus, for every register map, write set, id and baud   *)
(* register and chain length.                                              *)
(*                                                                         *)
(* The bus drives the dispatch session only through its operations, so the *)
(* results of Dispatcher_proofs carry over: every step of the bus is a     *)
(* step of the session, or none.  On the bus's own side, that an armed     *)
(* chain has a reply to fire is not inductive: the invariant adds that a   *)
(* chain is armed only over a verified reply, and that an unverified frame *)
(* and an armed chain, or a streaming reply, exclude each other.           *)
(***************************************************************************)
EXTENDS ServoBus, TLAPS

DP == INSTANCE Dispatcher_proofs
          WITH pending <- session_pending, owed <- pending.table

-----------------------------------------------------------------------------
(* The session the bus drives is the one the proofs are about.             *)

LEMMA Assumed == DP!RegsAssumption /\ DP!WritesAssumption /\ DP!CapAssumption
BY SessionAssumption DEF D!IsFiniteSet, DP!IsFiniteSet

LEMMA SameVerdict ==
    ASSUME NEW t, NEW w PROVE D!Verdict(t, w) = DP!Verdict(t, w)
<1>1. ASSUME NEW rule, NEW tt
      PROVE  D!Session!RuleHolds(rule, tt) = DP!Session!RuleHolds(rule, tt)
  BY Zenon DEF D!Session!RuleHolds, DP!Session!RuleHolds
<1>2. ASSUME NEW tt
      PROVE  D!Session!RulesHold(w, tt) = DP!Session!RulesHold(w, tt)
  BY <1>1, Zenon DEF D!Session!RulesHold, DP!Session!RulesHold,
                     D!Session!AllowedHolds, DP!Session!AllowedHolds
<1>3. D!Session!Overlay(t, w) = DP!Session!Overlay(t, w)
  BY DEF D!Session!Overlay, DP!Session!Overlay
<1> QED BY <1>2, <1>3
        DEF D!Verdict, DP!Verdict, D!Session!Verdict, DP!Session!Verdict

LEMMA SameApplied ==
    ASSUME NEW t, NEW ws PROVE D!Session!Applied(t, ws) = DP!Session!Applied(t, ws)
BY DEF D!Session!Applied, DP!Session!Applied

LEMMA SameTouches ==
    ASSUME NEW ws, NEW S PROVE D!Session!Touches(ws, S) = DP!Session!Touches(ws, S)
BY DEF D!Session!Touches, DP!Session!Touches

LEMMA SameImage ==
    ASSUME NEW t PROVE D!Session!Image(t) = DP!Session!Image(t)
BY DEF D!Session!Image, DP!Session!Image

LEMMA SameBuffer ==
    /\ D!NoPending = DP!NoPending
    /\ D!HeldEntries = DP!HeldEntries
    /\ D!Held = DP!Held
    /\ D!CleanUsed = DP!CleanUsed
    /\ D!AboveWatermark = DP!AboveWatermark
    /\ \A w : D!Size(w) = DP!Size(w)
    /\ \A w : D!Stageable(w) = DP!Stageable(w)
    /\ D!RevertDangling = DP!RevertDangling
BY SameVerdict
   DEF D!NoPending, DP!NoPending, D!HeldEntries, DP!HeldEntries, D!Held, DP!Held,
       D!CleanUsed, DP!CleanUsed, D!AboveWatermark, DP!AboveWatermark,
       D!Size, DP!Size, D!Cardinality, DP!Cardinality, D!IsFiniteSet, DP!IsFiniteSet, D!Stageable, DP!Stageable, D!RevertDangling, DP!RevertDangling

LEMMA SameActions ==
    /\ D!Init = DP!Init
    /\ D!DispatchOther = DP!DispatchOther
    /\ \A w : D!RefuseWrite(w) = DP!RefuseWrite(w)
    /\ \A w, h : D!StageWrite(w, h) = DP!StageWrite(w, h)
    /\ D!CommitHold = DP!CommitHold
    /\ D!CommitWrite = DP!CommitWrite
    /\ D!Revert = DP!Revert
    /\ D!ApplyCommit = DP!ApplyCommit
    /\ \A v : D!Assign(v) = DP!Assign(v)
    /\ \A c : D!Save(c) = DP!Save(c)
    /\ \A c : D!Factory(c) = DP!Factory(c)
    /\ D!Reboot = DP!Reboot
<1> USE SameBuffer
<1>1. D!Init = DP!Init
  BY DEF D!Init, DP!Init
<1>2. D!DispatchOther = DP!DispatchOther
  BY DEF D!DispatchOther, DP!DispatchOther
<1>3. ASSUME NEW w PROVE D!RefuseWrite(w) = DP!RefuseWrite(w)
  BY DEF D!RefuseWrite, DP!RefuseWrite
<1>4. ASSUME NEW w, NEW h PROVE D!StageWrite(w, h) = DP!StageWrite(w, h)
  BY DEF D!StageWrite, DP!StageWrite
<1>5. D!CommitHold = DP!CommitHold
  BY DEF D!CommitHold, DP!CommitHold
<1>6. D!CommitWrite = DP!CommitWrite
  BY SameApplied DEF D!CommitWrite, DP!CommitWrite
<1>7. D!Revert = DP!Revert
  BY DEF D!Revert, DP!Revert
<1>8. D!ApplyCommit = DP!ApplyCommit
  BY SameApplied, SameTouches DEF D!ApplyCommit, DP!ApplyCommit
<1>9. ASSUME NEW v PROVE D!Assign(v) = DP!Assign(v)
  BY DEF D!Assign, DP!Assign
<1>10. ASSUME NEW c PROVE D!Save(c) = DP!Save(c)
  BY SameImage DEF D!Save, DP!Save
<1>11. ASSUME NEW c PROVE D!Factory(c) = DP!Factory(c)
  BY DEF D!Factory, DP!Factory
<1>12. D!Reboot = DP!Reboot
  BY DEF D!Reboot, DP!Reboot
<1> QED BY <1>1, <1>2, <1>3, <1>4, <1>5, <1>6, <1>7, <1>8, <1>9, <1>10, <1>11, <1>12

-----------------------------------------------------------------------------
(* The bus's part of the inductive invariant.                              *)

Frame  == [is : BOOLEAN, slot : 0 .. MaxSlot, staged : BOOLEAN,
           table : BOOLEAN, now : BOOLEAN, verified : BOOLEAN]
Engine == [st : {"idle", "staged", "streaming"}, id : Values \cup {None},
           tolerant : BOOLEAN]
Slot   == [st : {"idle", "pending", "waiting"}, remaining : 0 .. MaxSlot,
           silent : BOOLEAN]

BusTypeOK ==
    /\ pending \in Frame
    /\ tx \in Engine
    /\ chain \in Slot
    /\ chain.st = "waiting" => chain.remaining > 0
    /\ id \in Values
    /\ rate \in Values
    /\ pending_id \in Values \cup {None}
    /\ pending_baud \in Values \cup {None}
    /\ pending_reboot \in BOOLEAN
    /\ reply \in {"none", "unverified", "current", "stale"}
    /\ rescued \in BOOLEAN

(* A chain is armed only over a reply whose verdict has passed.            *)
ArmedVerified == ChainActive => reply = "current"

(* A frame that awaits its verdict excludes a chain and a streaming reply. *)
AwaitAlone ==
    pending.is /\ ~pending.verified => ~ChainActive /\ tx.st # "streaming"

ReplyInv == /\ NoGhostTrigger
            /\ NoOrphanReply
            /\ ReplyIsCurrent
            /\ ArmedVerified
            /\ AwaitAlone

IInv == DP!IInv /\ BusTypeOK /\ ReplyInv

LEMMA InvType == IInv => TypeOK
BY DEF IInv, TypeOK, BusTypeOK, Frame, Engine, Slot, DP!IInv, DP!TypeOK, D!TypeOK

LEMMA ValuesOf ==
    ASSUME NEW t \in [Regs -> Values]
    PROVE  t[IdReg] \in Values /\ t[BaudReg] \in Values
BY Assumed, BusAssumption

LEMMA InitInv == ASSUME Init PROVE IInv
<1>1. DP!Init
  BY SameActions DEF Init
<1>2. DP!IInv
  BY <1>1, Assumed, DP!InitInv
<1>3. BusTypeOK
  <2>1. InitTable[IdReg] \in Values /\ InitTable[BaudReg] \in Values
    BY Assumed, ValuesOf
  <2>2. 0 \in 0 .. MaxSlot
    BY BusAssumption
  <2>3. /\ pending = NoFrame /\ tx = IdleTx /\ chain = IdleChain
        /\ id = InitTable[IdReg] /\ rate = InitTable[BaudReg]
        /\ pending_id = None /\ pending_baud = None /\ pending_reboot = FALSE
        /\ reply = "none" /\ rescued = FALSE
    BY DEF Init
  <2> QED BY <2>1, <2>2, <2>3 DEF BusTypeOK, Frame, Engine, Slot, NoFrame, IdleTx, IdleChain
<1>4. ReplyInv
  BY DEF Init, ReplyInv, NoGhostTrigger, NoOrphanReply, ReplyIsCurrent,
         ArmedVerified, AwaitAlone, ChainActive, NoFrame, IdleTx, IdleChain
<1> QED BY <1>2, <1>3, <1>4 DEF IInv

-----------------------------------------------------------------------------
(* The session's side of a bus step.                                       *)

(* What a request of each kind carries.                                    *)
LEMMA RequestType ==
    ASSUME NEW req \in Request
    PROVE  /\ req.op \in {"read", "write", "ping", "commit", "enum", "reboot",
                          "assign", "save", "factory"}
           /\ req.slot \in 0 .. MaxSlot
           /\ req.silent \in BOOLEAN
           /\ req.op = "write" => req.write \in Writes /\ req.hold \in BOOLEAN
           /\ req.op = "assign" => req.new_id \in IdBytes
           /\ req.op \in {"save", "factory"} => req.code \in {"ok", "hardware", "access"}
<1>0. 0 \in 0 .. MaxSlot
  BY BusAssumption
<1>1. CASE \E k \in 0 .. MaxSlot : req = ReadReq(k)
  BY <1>1 DEF ReadReq
<1>2. CASE \E w \in Writes, h \in BOOLEAN, q \in BOOLEAN : req = WriteReq(w, h, q)
  BY <1>0, <1>2 DEF WriteReq
<1>3. CASE \E op \in {"ping", "commit", "enum", "reboot"}, q \in BOOLEAN :
               req = PlainReq(op, q)
  BY <1>0, <1>3 DEF PlainReq
<1>4. CASE \E v \in IdBytes : req = AssignReq(v)
  BY <1>0, <1>4 DEF AssignReq
<1>5. CASE \E op \in {"save", "factory"}, c \in {"ok", "hardware", "access"},
               q \in BOOLEAN : req = SaveReq(op, c, q)
  BY <1>0, <1>5 DEF SaveReq
<1> QED BY <1>1, <1>2, <1>3, <1>4, <1>5 DEF Request

LEMMA SessionStepIs ==
    ASSUME NEW req \in Request, SessionStep(req)
    PROVE  DP!Next
<1> USE SameActions
<1>1. CASE req.op \in {"ping", "read", "enum", "reboot"}
  BY <1>1 DEF SessionStep, DP!Next
<1>2. CASE req.op = "write"
  BY <1>2, RequestType DEF SessionStep, DP!Next
<1>3. CASE req.op = "commit"
  BY <1>3 DEF SessionStep, DP!Next
<1>4. CASE req.op = "assign"
  BY <1>4, RequestType DEF SessionStep, DP!Next
<1>5. CASE req.op \in {"save", "factory"}
  BY <1>5, RequestType DEF SessionStep, DP!Next
<1> QED BY <1>1, <1>2, <1>3, <1>4, <1>5, RequestType

(* A frame the bus forgets dies for the session, or was none.              *)
LEMMA ForgetFrameIs ==
    ASSUME BusTypeOK, ForgetFrame
    PROVE  DP!Next \/ UNCHANGED DP!dvars
<1>1. CASE pending.table
  BY <1>1 DEF ForgetFrame, NoFrame, session, DP!FrameDies, DP!Next
<1>2. CASE ~pending.table
  BY <1>2 DEF ForgetFrame, NoFrame, session, DP!dvars, BusTypeOK, Frame
<1> QED BY <1>1, <1>2

LEMMA SessionStands ==
    ASSUME UNCHANGED <<session, pending>>
    PROVE  UNCHANGED DP!dvars
BY DEF session, DP!dvars

(* Every step of the bus is a step of the session, or none.                *)
LEMMA BusDrivesSession ==
    ASSUME BusTypeOK, [Next]_vars
    PROVE  [DP!Next]_(DP!dvars)
<1>1. ASSUME NEW req \in Request,
             Covered(req) \/ SpineFrame(req) \/ VerdictFirstFrame(req)
      PROVE  DP!Next
  BY <1>1, SessionStepIs DEF Covered, SpineFrame, VerdictFirstFrame, Dispatch
<1>2. CASE SkipFrame \/ GarbledFrame \/ RescueBreak
  BY <1>2, ForgetFrameIs DEF SkipFrame, GarbledFrame, RescueBreak
<1>3. CASE StatusFrame
  BY <1>3, ForgetFrameIs, SessionStands DEF StatusFrame
<1>4. CASE VerifyGood
  <2>1. CASE pending.table
    BY <1>4, <2>1, SameActions DEF VerifyGood, DP!Next
  <2>2. CASE ~pending.table
    BY <1>4, <2>2 DEF VerifyGood, NoFrame, session, DP!dvars, BusTypeOK, Frame
  <2> QED BY <2>1, <2>2
<1>5. CASE VerifyBad
  <2>1. CASE pending.table
    BY <1>5, <2>1, SameActions DEF VerifyBad, DP!Next
  <2>2. CASE ~pending.table
    BY <1>5, <2>2 DEF VerifyBad, NoFrame, session, DP!dvars, BusTypeOK, Frame
  <2> QED BY <2>1, <2>2
<1>6. CASE BreakKill \/ ChainDeadline \/ TxReleased \/ UNCHANGED vars
  BY <1>6, SessionStands DEF BreakKill, ChainDeadline, TxReleased, vars
<1>7. CASE TakeReboot
  BY <1>7, SameActions DEF TakeReboot, DP!Next
<1> QED BY <1>1, <1>2, <1>3, <1>4, <1>5, <1>6, <1>7 DEF Next

LEMMA SessionInv == ASSUME IInv, [Next]_vars PROVE DP!IInv'
BY BusDrivesSession, Assumed, DP!NextInv DEF IInv

-----------------------------------------------------------------------------
(* The bus's own side of a step.                                           *)

LEMMA RestTypes ==
    /\ NoFrame \in Frame
    /\ IdleTx \in Engine
    /\ IdleChain \in Slot /\ IdleChain.st = "idle"
    /\ BusTypeOK => Dropped \in Engine /\ TxAtEnd \in Engine /\ ChainAtEnd \in Slot
<1>1. 0 \in 0 .. MaxSlot
  BY BusAssumption
<1>2. NoFrame \in Frame /\ IdleTx \in Engine /\ IdleChain \in Slot /\ IdleChain.st = "idle"
  BY <1>1 DEF NoFrame, Frame, IdleTx, Engine, IdleChain, Slot
<1> QED BY <1>2 DEF BusTypeOK, Dropped, TxAtEnd, ChainAtEnd

(* The register a hook reads holds a value.                                *)
LEMMA HooksType ==
    ASSUME BusTypeOK, table' \in [Regs -> Values], NEW regs,
           Hooks(regs) \/ NoHooks
    PROVE  /\ pending_id' \in Values \cup {None}
           /\ pending_baud' \in Values \cup {None}
           /\ rescued' \in BOOLEAN
<1>1. table'[IdReg] \in Values /\ table'[BaudReg] \in Values
  BY Assumed, BusAssumption
<1> QED BY <1>1 DEF Hooks, NoHooks, BusTypeOK

LEMMA SessionStepType ==
    ASSUME BusTypeOK, table' \in [Regs -> Values], NEW req \in Request,
           SessionStep(req)
    PROVE  /\ pending_id' \in Values \cup {None}
           /\ pending_baud' \in Values \cup {None}
           /\ rescued' \in BOOLEAN
           /\ pending_reboot' \in BOOLEAN
<1>1. Hooks(HeldRegs) \/ NoHooks
  BY DEF SessionStep
<1>2. pending_reboot' \in BOOLEAN
  BY DEF SessionStep, BusTypeOK
<1> QED BY <1>1, <1>2, HooksType

LEMMA DispatchType ==
    ASSUME BusTypeOK, table' \in [Regs -> Values], NEW req \in Request,
           NEW engine \in Engine, NEW now \in BOOLEAN, NEW verified \in BOOLEAN,
           Dispatch(req, engine, now, verified),
           chain' \in Slot, chain'.st = "waiting" => chain'.remaining > 0
    PROVE  BusTypeOK'
<1>1. id' \in Values
  BY Assumed DEF Dispatch, DispatchedId, BusTypeOK
<1>2. tx' \in Engine
  BY <1>1 DEF Dispatch, SendStatus, Engine
<1>3. pending' \in Frame
  BY RequestType DEF Dispatch, Frame, D!Stageable
<1>4. reply' \in {"none", "unverified", "current", "stale"} /\ rate' \in Values
  BY DEF Dispatch, BusTypeOK
<1>5. SessionStep(req)
  BY DEF Dispatch
<1> QED BY <1>1, <1>2, <1>3, <1>4, <1>5, SessionStepType DEF BusTypeOK

LEMMA BusTypeInv ==
    ASSUME IInv, [Next]_vars, table' \in [Regs -> Values]
    PROVE  BusTypeOK'
<1>0. BusTypeOK
  BY DEF IInv
<1>1. ASSUME NEW req \in Request,
             Covered(req) \/ SpineFrame(req) \/ VerdictFirstFrame(req)
      PROVE  BusTypeOK'
  <2>1. CASE Covered(req)
    BY <1>0, <2>1, DispatchType DEF Covered, BusTypeOK
  <2>2. CASE SpineFrame(req)
    BY <1>0, <2>2, DispatchType, RestTypes DEF SpineFrame, SpineAtEnd
  <2>3. CASE VerdictFirstFrame(req)
    BY <1>0, <2>3, DispatchType, RestTypes DEF VerdictFirstFrame
  <2> QED BY <1>1, <2>1, <2>2, <2>3
<1>2. CASE SkipFrame
  BY <1>0, <1>2, RestTypes DEF SkipFrame, ForgetFrame, BusTypeOK, deferred
<1>3. CASE GarbledFrame
  BY <1>0, <1>3, RestTypes
     DEF GarbledFrame, ForgetFrame, BusTypeOK, deferred, ChainAtEnd
<1>4. CASE StatusFrame
  <2>1. UNCHANGED <<id, rate, pending_id, pending_baud, pending_reboot, reply, rescued>>
    BY <1>4 DEF StatusFrame, deferred
  <2>2. CASE pending.is
    BY <1>0, <1>4, <2>1, <2>2, RestTypes DEF StatusFrame, ForgetFrame, BusTypeOK
  <2>3. CASE ~pending.is
    <3>1. chain' \in Slot /\ (chain'.st = "waiting" => chain'.remaining > 0)
      <4>1. /\ chain.remaining \in 0 .. MaxSlot /\ chain.remaining > 0
            /\ chain.st = "waiting" /\ chain \in Slot
        BY <1>0, <1>4, <2>3 DEF StatusFrame, BusTypeOK, Slot
      <4>2. CASE chain.remaining = 1
        <5>1. chain' = [chain EXCEPT !.st = "pending", !.remaining = 0]
          BY <1>4, <2>3, <4>2 DEF StatusFrame
        <5>2. 0 \in 0 .. MaxSlot
          BY BusAssumption
        <5> QED BY <4>1, <5>1, <5>2 DEF Slot
      <4>3. CASE chain.remaining # 1
        <5>1. chain' = [chain EXCEPT !.remaining = chain.remaining - 1]
          BY <1>4, <2>3, <4>3 DEF StatusFrame
        <5>2. chain.remaining - 1 \in 0 .. MaxSlot /\ chain.remaining - 1 > 0
          BY <4>1, <4>3, BusAssumption
        <5> QED BY <4>1, <5>1, <5>2 DEF Slot
      <4> QED BY <4>2, <4>3
    <3> QED BY <1>0, <1>4, <2>1, <2>3, <3>1 DEF StatusFrame, BusTypeOK
  <2> QED BY <2>2, <2>3
<1>5. CASE VerifyGood
  <2>1. /\ pending_id' \in Values \cup {None}
        /\ pending_baud' \in Values \cup {None}
        /\ rescued' \in BOOLEAN
    BY <1>0, <1>5, HooksType DEF VerifyGood
  <2>2. /\ chain' \in Slot /\ (chain'.st = "waiting" => chain'.remaining > 0)
        /\ reply' \in {"none", "unverified", "current", "stale"}
    <3>1. pending.slot \in 0 .. MaxSlot /\ MaxSlot \in Nat
      BY <1>0, BusAssumption DEF BusTypeOK, Frame
    <3>2. CASE pending.staged /\ tx.st = "staged"
      <4>1. /\ chain' = [st |-> IF pending.slot = 0 THEN "pending" ELSE "waiting",
                         remaining |-> pending.slot, silent |-> FALSE]
            /\ reply' = "current"
        BY <1>5, <3>2 DEF VerifyGood
      <4>2. pending.slot # 0 => pending.slot > 0
        BY <3>1
      <4> QED BY <3>1, <4>1, <4>2 DEF Slot
    <3>3. CASE ~(pending.staged /\ tx.st = "staged")
      BY <1>0, <1>5, <3>3 DEF VerifyGood, BusTypeOK
    <3> QED BY <3>2, <3>3
  <2>3. pending' = NoFrame /\ UNCHANGED <<tx, id, rate, pending_reboot>>
    BY <1>5 DEF VerifyGood
  <2> QED BY <1>0, <2>1, <2>2, <2>3, RestTypes DEF BusTypeOK
<1>6. CASE VerifyBad
  BY <1>0, <1>6, RestTypes DEF VerifyBad, BusTypeOK, deferred
<1>7. CASE BreakKill
  BY <1>0, <1>7, RestTypes DEF BreakKill, BusTypeOK, deferred
<1>8. CASE ChainDeadline
  <2>1. UNCHANGED <<pending, id, rate, pending_id, pending_baud, pending_reboot, reply, rescued>>
    BY <1>8 DEF ChainDeadline, deferred
  <2>2. tx' \in Engine
    BY <1>0, <1>8 DEF ChainDeadline, Trigger, BusTypeOK, Engine
  <2>3. chain' \in Slot /\ (chain'.st = "waiting" => chain'.remaining > 0)
    <3>1. CASE chain' = IdleChain
      BY <3>1, RestTypes
    <3>2. CASE chain' # IdleChain
      <4>1. /\ chain.remaining > 1
            /\ chain' = [chain EXCEPT !.remaining = chain.remaining - 1, !.silent = TRUE]
        BY <1>8, <3>2 DEF ChainDeadline
      <4>2. chain.remaining - 1 \in 0 .. MaxSlot /\ chain.remaining - 1 > 0
        BY <1>0, <4>1, BusAssumption DEF BusTypeOK, Slot
      <4>3. chain \in Slot
        BY <1>0 DEF BusTypeOK
      <4> QED BY <4>1, <4>2, <4>3 DEF Slot
    <3> QED BY <3>1, <3>2
  <2> QED BY <1>0, <2>1, <2>2, <2>3 DEF BusTypeOK
<1>9. CASE TxReleased
  BY <1>0, <1>9, RestTypes DEF TxReleased, BusTypeOK
<1>10. CASE TakeReboot
  <2>1. table'[IdReg] \in Values /\ table'[BaudReg] \in Values
    BY Assumed, BusAssumption
  <2> QED BY <1>10, <2>1, RestTypes DEF TakeReboot, BusTypeOK
<1>11. CASE RescueBreak
  BY <1>0, <1>11, RestTypes, BusAssumption DEF RescueBreak, ForgetFrame, BusTypeOK, deferred
<1>12. CASE UNCHANGED vars
  BY <1>0, <1>12 DEF vars, deferred, BusTypeOK
<1> QED BY <1>1, <1>2, <1>3, <1>4, <1>5, <1>6, <1>7, <1>8, <1>9, <1>10, <1>11, <1>12
        DEF Next

(* A dispatch to an idle engine leaves a reply that its frame has staged.  *)
LEMMA DispatchReply ==
    ASSUME NEW req \in Request, NEW engine \in Engine, NEW now, NEW verified,
           Dispatch(req, engine, now, verified)
    PROVE  /\ pending'.is /\ pending'.verified = verified
           /\ engine.st # "idle" => tx' = engine
           /\ engine.st = "idle" => tx'.st \in {"idle", "staged"}
           /\ engine.st = "idle" /\ tx'.st = "staged" => pending'.staged
           /\ tx'.st # "staged" => reply' = reply
BY RequestType DEF Dispatch, SendStatus

LEMMA DroppedReply ==
    ASSUME BusTypeOK
    PROVE  /\ Dropped.st # "staged"
           /\ tx.st # "staged" => Dropped = tx
           /\ Dropped.st = "streaming" => tx.st = "streaming"
BY DEF Dropped, IdleTx, BusTypeOK, Engine

(* An idle engine, chain and frame satisfy the invariant of the reply; so  *)
(* does a streaming reply that was current.                                *)
LEMMA QuietInv ==
    ASSUME BusTypeOK, ReplyInv,
           tx'.st # "staged", tx'.st = "streaming" => tx.st = "streaming" /\ reply' = reply,
           chain' = IdleChain, ~pending'.is \/ pending'.verified
    PROVE  ReplyInv'
BY RestTypes DEF ReplyInv, NoGhostTrigger, NoOrphanReply, ReplyIsCurrent,
                 ArmedVerified, AwaitAlone, ChainActive

LEMMA ReplyStep ==
    ASSUME IInv, [Next]_vars
    PROVE  ReplyInv'
<1>0. BusTypeOK /\ ReplyInv
  BY DEF IInv
<1>f. NoFrame.is = FALSE /\ IdleTx.st = "idle" /\ IdleChain.st = "idle"
  BY DEF NoFrame, IdleTx, IdleChain
<1>1. ASSUME NEW req \in Request, Covered(req) \/ SpineFrame(req)
      PROVE  ReplyInv'
  <2>1. PICK engine \in Engine, now \in BOOLEAN :
            engine.st = "idle" /\ Dispatch(req, engine, now, FALSE)
    <3>1. CASE Covered(req)
      <4>1. tx \in Engine /\ tx.st = "idle"
        BY <1>0, <3>1 DEF Covered, Spine, TxBusy, BusTypeOK
      <4> QED BY <3>1, <4>1 DEF Covered
    <3>2. CASE SpineFrame(req)
      BY <1>0, <3>2, RestTypes DEF SpineFrame, SpineAtEnd
    <3> QED BY <1>1, <3>1, <3>2
  <2>2. chain'.st = "idle"
    BY <1>1 DEF Covered, Spine, ChainActive, SpineFrame, SpineAtEnd
  <2>3. pending'.is /\ tx'.st \in {"idle", "staged"}
        /\ (tx'.st = "staged" => pending'.staged)
    BY <2>1, DispatchReply
  <2> QED BY <2>2, <2>3
          DEF ReplyInv, NoGhostTrigger, NoOrphanReply, ReplyIsCurrent,
              ArmedVerified, AwaitAlone, ChainActive
<1>2. ASSUME NEW req \in Request, VerdictFirstFrame(req) PROVE ReplyInv'
  <2>1. Dispatch(req, Dropped, TRUE, TRUE) /\ chain' = IdleChain /\ Dropped \in Engine
    BY <1>0, <1>2, RestTypes DEF VerdictFirstFrame
  <2>2. CASE tx.st = "streaming"
    BY <1>0, <2>1, <2>2, DispatchReply, DroppedReply, QuietInv
  <2>3. CASE tx.st # "streaming"
    <3>1. Dropped.st = "idle"
      BY <1>0, <2>1, <2>3, DroppedReply DEF Engine
    <3>2. /\ pending'.is /\ pending'.verified = TRUE
          /\ tx'.st \in {"idle", "staged"} /\ (tx'.st = "staged" => pending'.staged)
      BY <2>1, <3>1, DispatchReply
    <3> QED BY <1>f, <2>1, <3>2
            DEF ReplyInv, NoGhostTrigger, NoOrphanReply, ReplyIsCurrent,
                ArmedVerified, AwaitAlone, ChainActive
  <2> QED BY <2>2, <2>3
<1>3. CASE SkipFrame
  BY <1>0, <1>f, <1>3, DroppedReply, QuietInv DEF SkipFrame, ForgetFrame
<1>4. CASE GarbledFrame
  BY <1>0, <1>f, <1>4, DroppedReply, QuietInv
     DEF GarbledFrame, ForgetFrame, TxAtEnd, ChainAtEnd
<1>5. CASE StatusFrame
  <2>1. CASE pending.is
    BY <1>0, <1>f, <1>5, <2>1, DroppedReply, QuietInv DEF StatusFrame, ForgetFrame
  <2>2. CASE ~pending.is
    <3>1. /\ chain.st = "waiting" /\ chain'.st \in {"waiting", "pending"}
          /\ UNCHANGED <<pending, tx, reply>>
      BY <1>0, <1>5, <2>2 DEF StatusFrame, BusTypeOK, Slot
    <3> QED BY <1>0, <2>2, <3>1
            DEF ReplyInv, NoGhostTrigger, NoOrphanReply, ReplyIsCurrent,
                ArmedVerified, AwaitAlone, ChainActive
  <2> QED BY <2>1, <2>2
<1>6. CASE VerifyGood
  <2>0. pending'.is = FALSE /\ tx' = tx
    BY <1>f, <1>6 DEF VerifyGood
  <2>1. CASE pending.staged /\ tx.st = "staged"
    <3>1. reply' = "current" /\ tx.st = "staged" /\ chain'.st # "idle"
      BY <1>6, <2>1 DEF VerifyGood
    <3> QED BY <2>0, <3>1
            DEF ReplyInv, NoGhostTrigger, NoOrphanReply, ReplyIsCurrent,
                ArmedVerified, AwaitAlone, ChainActive
  <2>2. CASE ~(pending.staged /\ tx.st = "staged")
    <3>1. UNCHANGED <<chain, reply>>
      BY <1>6, <2>2 DEF VerifyGood
    <3> QED BY <1>0, <2>0, <2>2, <3>1
            DEF ReplyInv, NoGhostTrigger, NoOrphanReply, ReplyIsCurrent,
                ArmedVerified, AwaitAlone, ChainActive
  <2> QED BY <2>1, <2>2
<1>7. CASE VerifyBad
  BY <1>0, <1>f, <1>7, DroppedReply, QuietInv DEF VerifyBad
<1>8. CASE BreakKill
  BY <1>0, <1>f, <1>8, QuietInv DEF BreakKill
<1>9. CASE ChainDeadline
  <2>0. ChainActive /\ UNCHANGED <<pending, reply>> /\ tx.st = "staged" /\ tx \in Engine
        /\ chain \in Slot
    BY <1>0, <1>9 DEF ChainDeadline, ChainActive, ReplyInv, NoGhostTrigger, BusTypeOK
  <2>1. \/ chain'.st = "idle" /\ tx'.st = "streaming"
        \/ chain'.st # "idle" /\ tx' = tx
    BY <1>f, <1>9, <2>0 DEF ChainDeadline, Trigger, Engine, Slot
  <2> QED BY <1>0, <2>0, <2>1
          DEF ReplyInv, NoGhostTrigger, NoOrphanReply, ReplyIsCurrent,
              ArmedVerified, AwaitAlone, ChainActive
<1>10. CASE TxReleased
  BY <1>0, <1>f, <1>10
     DEF TxReleased, ReplyInv, NoGhostTrigger, NoOrphanReply, ReplyIsCurrent,
         ArmedVerified, AwaitAlone, ChainActive
<1>11. CASE TakeReboot
  BY <1>0, <1>f, <1>11, QuietInv DEF TakeReboot
<1>12. CASE RescueBreak
  BY <1>0, <1>f, <1>12, QuietInv DEF RescueBreak, ForgetFrame
<1>13. CASE UNCHANGED vars
  BY <1>0, <1>13
     DEF vars, ReplyInv, NoGhostTrigger, NoOrphanReply, ReplyIsCurrent,
         ArmedVerified, AwaitAlone, ChainActive
<1> QED BY <1>1, <1>2, <1>3, <1>4, <1>5, <1>6, <1>7, <1>8, <1>9, <1>10, <1>11,
           <1>12, <1>13 DEF Next

-----------------------------------------------------------------------------
LEMMA NextInv == ASSUME IInv, [Next]_vars PROVE IInv'
<1>1. DP!IInv'
  BY SessionInv
<1>2. table' \in [Regs -> Values]
  BY <1>1 DEF DP!IInv, DP!TypeOK
<1> QED BY <1>1, <1>2, BusTypeInv, ReplyStep DEF IInv

LEMMA Inductive == Spec => []IInv
BY InitInv, NextInv, PTL DEF Spec

(* Every reachable state of the bus and of the session it drives has its   *)
(* type (servo_bus.rs, chain.rs, tx.rs).                                   *)
THEOREM TypeCorrect == Spec => []TypeOK
BY Inductive, InvType, PTL

(* No ghost trigger, for every request stream and order of wakes: whenever *)
(* the chain is armed, the TX engine has a staged reply to fire.           *)
THEOREM ChainHasReply == Spec => []NoGhostTrigger
<1>1. IInv => NoGhostTrigger
  BY DEF IInv, ReplyInv
<1> QED BY <1>1, Inductive, PTL

(* No orphan reply: a staged reply always has a chain slot or a verdict    *)
(* coming, so the engine is never left busy with nothing to release it.    *)
THEOREM ReplyHasOwner == Spec => []NoOrphanReply
<1>1. IInv => NoOrphanReply
  BY DEF IInv, ReplyInv
<1> QED BY <1>1, Inductive, PTL

(* What streams answers the latest verified instruction (sec 5.3 L1).      *)
THEOREM StreamsCurrent == Spec => []ReplyIsCurrent
<1>1. IInv => ReplyIsCurrent
  BY DEF IInv, ReplyInv
<1> QED BY <1>1, Inductive, PTL

-----------------------------------------------------------------------------
(* "A garbled frame must touch nothing" (route_frame).                     *)

LEMMA RevertHolds ==
    ASSUME D!RevertDangling PROVE D!Held' = D!Held
BY DEF D!RevertDangling, D!Held, D!HeldEntries, D!NoPending

(* The session keeps what it holds when the bus forgets a frame.           *)
LEMMA HeldStands ==
    ASSUME UNCHANGED session PROVE D!Held' = D!Held
BY DEF session, D!Held, D!HeldEntries

(* A request dispatched ahead of its verdict has no effect.                *)
LEMMA AheadHasNoEffect ==
    ASSUME IInv, NEW req \in Request, ~verdict_first(req), NEW engine,
           NEW now, Dispatch(req, engine, now, FALSE)
    PROVE  UNCHANGED Effects
<1>1. req.op \in {"ping", "read", "write"} /\ SessionStep(req)
  BY DEF verdict_first, Dispatch
<1>2. UNCHANGED <<id, rate, deferred>>
  BY <1>1 DEF Dispatch, DispatchedId, SessionStep, NoHooks, deferred
<1>3. \/ D!DispatchOther
      \/ req.op = "write" /\ (D!RefuseWrite(req.write) \/ D!StageWrite(req.write, req.hold))
  BY <1>1 DEF SessionStep
<1>4. CASE D!DispatchOther
  BY <1>2, <1>4, RevertHolds DEF D!DispatchOther, Effects
<1>5. CASE D!RefuseWrite(req.write)
  BY <1>2, <1>5, RevertHolds DEF D!RefuseWrite, Effects
<1>6. CASE req.op = "write" /\ D!StageWrite(req.write, req.hold)
  <2>1. req.write \in Writes /\ req.hold \in BOOLEAN
    BY <1>6, RequestType
  <2>2. D!Held' = D!Held
    <3>1. DP!Held' = DP!Held
      BY <1>6, <2>1, SameActions, Assumed, DP!StageKeepsHeld DEF IInv
    <3> QED BY <3>1 DEF D!Held, DP!Held, D!HeldEntries, DP!HeldEntries
  <2> QED BY <1>2, <1>6, <2>2 DEF D!StageWrite, Effects
<1> QED BY <1>3, <1>4, <1>5, <1>6

LEMMA VerifyBadStep == ASSUME IInv, VerifyBad PROVE UNCHANGED Effects
<1>1. UNCHANGED <<id, rate, deferred>>
  BY DEF VerifyBad
<1>2. CASE pending.table
  <2>1. D!Revert /\ DP!Revert
    BY <1>2, SameActions DEF VerifyBad
  <2>2. DP!RevertDangling
    BY <1>2, <2>1, Assumed, DP!CommitApplies
       DEF IInv, DP!Revert, DP!RevertDangling
  <2>3. D!Held' = D!Held
    BY <2>2, SameBuffer, RevertHolds
  <2> QED BY <1>1, <2>1, <2>3 DEF D!Revert, Effects
<1>3. CASE ~pending.table
  BY <1>1, <1>3, HeldStands DEF VerifyBad, session, Effects
<1> QED BY <1>2, <1>3

LEMMA AwaitStep ==
    ASSUME IInv, Next,
           (pending'.is /\ ~pending'.verified) \/ VerifyBad \/ GarbledFrame
    PROVE  UNCHANGED Effects
<1>f. NoFrame.is = FALSE
  BY DEF NoFrame
<1>1. CASE VerifyBad
  BY <1>1, VerifyBadStep
<1>2. CASE GarbledFrame
  BY <1>2, HeldStands DEF GarbledFrame, ForgetFrame, session, Effects
<1>3. CASE pending'.is /\ ~pending'.verified
  <2>1. ASSUME NEW req \in Request, Covered(req) PROVE UNCHANGED Effects
    BY <2>1, AheadHasNoEffect DEF Covered, Spine
  <2>2. ASSUME NEW req \in Request, SpineFrame(req) PROVE UNCHANGED Effects
    BY <2>2, AheadHasNoEffect DEF SpineFrame, SpineAtEnd
  <2>3. ASSUME NEW req \in Request, VerdictFirstFrame(req) PROVE FALSE
    BY <1>3, <2>3 DEF VerdictFirstFrame, Dispatch
  <2>4. CASE StatusFrame \/ BreakKill \/ ChainDeadline
    <3>1. UNCHANGED <<session, id, rate, deferred>>
      BY <1>f, <1>3, <2>4 DEF StatusFrame, BreakKill, ChainDeadline, ForgetFrame
    <3> QED BY <3>1, HeldStands DEF session, Effects
  <2>5. CASE TxReleased
    BY <1>3, <2>5 DEF TxReleased, IInv, ReplyInv, AwaitAlone
  <2>6. ASSUME SkipFrame \/ GarbledFrame \/ VerifyGood \/ VerifyBad
               \/ TakeReboot \/ RescueBreak
        PROVE  FALSE
    BY <1>f, <1>3, <2>6
       DEF SkipFrame, GarbledFrame, VerifyGood, VerifyBad, TakeReboot,
           RescueBreak, ForgetFrame
  <2> QED BY <2>1, <2>2, <2>3, <2>4, <2>5, <2>6 DEF Next
<1> QED BY <1>1, <1>2, <1>3

(* No register, held write or deferred setting changes while a frame       *)
(* awaits its verdict, when the verdict fails or when the frame dies, for  *)
(* every request stream (servo_bus.rs route_frame, verify).                *)
THEOREM GarbledTouchesNothing == Spec => EffectsAwaitVerdict
<1>1. IInv /\ [Next]_vars =>
        [(pending'.is /\ ~pending'.verified) \/ VerifyBad \/ GarbledFrame
            => UNCHANGED Effects]_vars
  BY AwaitStep
<1> QED BY <1>1, Inductive, PTL DEF Spec, EffectsAwaitVerdict

-----------------------------------------------------------------------------
(* The servo as the host sees it: the bus and the session together, with   *)
(* frames that fail, die, are skipped or are rescued away, take only the   *)
(* steps of the register session (servo_bus.rs over dispatch.rs).          *)
THEOREM BusRefinesSession == Spec => DP!ImplementsSession
<1>1. Init => DP!Session!Init
  <2>1. ASSUME Init PROVE DP!Held = <<>>
    BY <2>1 DEF Init, D!Init, D!NoPending, DP!Held, DP!HeldEntries
  <2> QED BY <2>1 DEF Init, D!Init, DP!Session!Init
<1>2. IInv /\ [Next]_vars => [DP!Session!Next]_(DP!Session!vars)
  <2> SUFFICES ASSUME IInv, [Next]_vars
               PROVE  [DP!Session!Next]_(DP!Session!vars)
    OBVIOUS
  <2>1. DP!IInv /\ [DP!Next]_(DP!dvars)
    BY BusDrivesSession DEF IInv
  <2> QED BY <2>1, Assumed, DP!StepRefines
<1> QED BY <1>1, <1>2, Inductive, PTL DEF Spec, DP!ImplementsSession, DP!Session!Spec
=============================================================================
