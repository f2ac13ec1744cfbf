------------------------------ MODULE ServoBus ------------------------------
(***************************************************************************)
(* The osc-native transport of one servo, above the framer: the spine that *)
(* dispatches a frame ahead of its CRC verdict, the reply it stages, the   *)
(* chain that decides when that reply may start, and the id, baud and      *)
(* reboot changes that wait for a reply to drain.  It drives the dispatch  *)
(* session of module Dispatcher.                                           *)
(*                                                                         *)
(* What the framer resolves arrives as events: a frontier frame covered up *)
(* to its CRC (Covered), a frame complete (its verdict follows at once), a *)
(* frame end, a break wake.  Time is left out: a deadline that is armed    *)
(* may fire at any moment.  A wake that resolves several frames is the     *)
(* sequence of their steps.                                                *)
(***************************************************************************)
EXTENDS Naturals, Sequences, FiniteSets

CONSTANTS Regs, Values, Writes, Writable, Persistent, CmpRules,
          AllowedRules, SatMax, IdReg, UnicastIds, InitTable, DataCap, EntryCap, OldImages, IdBytes,
          BaudReg,        \* the register that holds the baud rate index
          RescueRate,     \* BaudRate::B500000
          MaxSlot,        \* bound: the highest position in a GREAD list
          None            \* Option::None

VARIABLES
    \* the dispatch session (module Dispatcher)
    table, entries, used, session_pending, dirty, saved, wiped,
    \* the bus
    pending,        \* ServoBus.pending: the frame whose verdict is awaited
    tx,             \* TxEngine.state, and the id its staged header carries
    chain,          \* Chain.state
    id,             \* ServoBus.id
    rate,           \* ServoBus.rate
    pending_id, pending_baud, pending_reboot,
    reply,          \* history: what the reply in the TX engine answers
    rescued         \* history: a rescue pulse switched the rate and neither
                    \* a reboot nor a baud write has followed

session  == <<table, entries, used, session_pending, dirty, saved, wiped>>
deferred == <<pending_id, pending_baud, pending_reboot>>
vars     == <<session, pending, tx, chain, id, rate, deferred, reply, rescued>>

(* The session is owed a verdict as long as the bus holds the frame.       *)
D == INSTANCE Dispatcher WITH pending <- session_pending, owed <- pending.table

ASSUME SessionAssumption ==
    D!RegsAssumption /\ D!WritesAssumption /\ D!CapAssumption
ASSUME BusAssumption ==
    /\ BaudReg \in Persistent
    /\ RescueRate \in Values
    /\ MaxSlot \in Nat

-----------------------------------------------------------------------------
(* Requests as decode hands them over.  `silent`: NOREPLY, broadcast or a  *)
(* UID that does not match.                                                *)

ReadReq(slot)      == [op |-> "read", slot |-> slot, silent |-> FALSE]
WriteReq(w, h, q)  == [op |-> "write", slot |-> 0, silent |-> q, write |-> w,
                       hold |-> h]
PlainReq(op, q)    == [op |-> op, slot |-> 0, silent |-> q]
AssignReq(v)       == [op |-> "assign", slot |-> 0, silent |-> FALSE, new_id |-> v]
SaveReq(op, c, q)  == [op |-> op, slot |-> 0, silent |-> q, code |-> c]

Request ==
    {ReadReq(k) : k \in 0 .. MaxSlot}
    \cup {WriteReq(w, h, q) : w \in Writes, h \in BOOLEAN, q \in BOOLEAN}
    \cup {PlainReq(op, q) : op \in {"ping", "commit", "enum", "reboot"}, q \in BOOLEAN}
    \cup {AssignReq(v) : v \in IdBytes}
    \cup {SaveReq(op, c, q) : op \in {"save", "factory"},
                              c \in {"ok", "hardware", "access"}, q \in BOOLEAN}

(* Variant of the routing test that lets COMMIT ahead of its verdict.      *)
verdict_first_sans_commit(req) == req.op \notin {"ping", "read", "write", "commit"}

(* Ops whose effects cannot be staged: the CRC is checked first.           *)
verdict_first(req) == req.op \notin {"ping", "read", "write"}

NoFrame == [is |-> FALSE, slot |-> 0, staged |-> FALSE, table |-> FALSE,
            now |-> FALSE, verified |-> FALSE]

IdleTx      == [st |-> "idle", id |-> None, tolerant |-> FALSE]
IdleChain   == [st |-> "idle", remaining |-> 0, silent |-> FALSE]
ChainActive == chain.st # "idle"
TxBusy      == tx.st # "idle"

Init ==
    /\ pending = NoFrame
    /\ D!Init
    /\ tx = IdleTx
    /\ chain = IdleChain
    /\ id = InitTable[IdReg]
    /\ rate = InitTable[BaudReg]
    /\ pending_id = None
    /\ pending_baud = None
    /\ pending_reboot = FALSE
    /\ reply = "none"
    /\ rescued = FALSE

-----------------------------------------------------------------------------
(* Dispatch of a request through a ReplyHandle.                            *)

(* ControlTableHooks over the registers a commit touched.                  *)
Hooks(regs) ==
    /\ pending_id' = IF IdReg \in regs THEN table'[IdReg] ELSE pending_id
    /\ pending_baud' = IF BaudReg \in regs THEN table'[BaudReg] ELSE pending_baud
    /\ rescued' = (rescued /\ BaudReg \notin regs)

HeldRegs == UNION {DOMAIN D!Held[i] : i \in 1 .. Len(D!Held)}

NoHooks == UNCHANGED <<pending_id, pending_baud, rescued>>

(* send_status on an engine in state `engine`: refused while it is busy.   *)
SendStatus(req, engine) ==
    IF req.silent \/ engine.st # "idle" THEN engine
    ELSE [st |-> "staged", id |-> id', tolerant |-> req.op = "enum"]

(* The session's part of a dispatch, and what it asks of the bus.          *)
SessionStep(req) ==
    \/ /\ req.op \in {"ping", "read", "enum"}
       /\ D!DispatchOther
       /\ NoHooks
       /\ UNCHANGED pending_reboot
    \/ /\ req.op = "write"
       /\ D!RefuseWrite(req.write) \/ D!StageWrite(req.write, req.hold)
       /\ NoHooks
       /\ UNCHANGED pending_reboot
    \/ /\ req.op = "commit"
       /\ D!ApplyCommit
       /\ Hooks(HeldRegs)
       /\ UNCHANGED pending_reboot
    \/ /\ req.op = "assign"
       /\ D!Assign(req.new_id)
       /\ NoHooks
       /\ UNCHANGED pending_reboot
    \/ /\ req.op = "save"
       /\ D!Save(req.code)
       /\ NoHooks
       /\ UNCHANGED pending_reboot
    \/ /\ req.op = "factory"
       /\ D!Factory(req.code)
       /\ NoHooks
       /\ pending_reboot' = (pending_reboot \/ req.code = "ok")
    \/ /\ req.op = "reboot"
       /\ D!DispatchOther
       /\ NoHooks
       /\ pending_reboot' = TRUE

(* set_id: only an accepted ASSIGN moves the id at once.                   *)
DispatchedId(req) ==
    IF req.op = "assign" /\ req.new_id \in UnicastIds THEN req.new_id ELSE id

(* dispatch_decoded over a pipeline in state `engine`.                     *)
Dispatch(req, engine, now, verified) ==
    /\ id' = DispatchedId(req)
    /\ tx' = SendStatus(req, engine)
    /\ pending' = [is |-> TRUE, slot |-> req.slot,
                   staged |-> (~req.silent /\ engine.st = "idle"),
                   table |-> (req.op = "write" /\ D!Stageable(req.write)),
                   now |-> now, verified |-> verified]
    /\ reply' = IF tx'.st = "staged"
                THEN IF verified THEN "current" ELSE "unverified"
                ELSE reply
    /\ SessionStep(req)
    /\ UNCHANGED rate

-----------------------------------------------------------------------------
(* Frames, as drive_framer resolves them.                                  *)

(* The handler that dispatched a complete frame goes on to its verdict.    *)
Between == ~pending.now

Spine(req) == ~ChainActive /\ ~TxBusy /\ ~verdict_first(req)

(* route_frame at the covered checkpoint of an own frontier frame; other   *)
(* frontier frames wait for their end.                                     *)
Covered(req) ==
    /\ Between
    /\ Spine(req)
    /\ Dispatch(req, tx, FALSE, FALSE)
    /\ UNCHANGED chain

(* Variant of Dropped that forgets to abort.                               *)
NotDropped == tx

(* drop_staged, of the TX engine.                                          *)
Dropped == IF tx.st = "staged" THEN IdleTx ELSE tx

(* on_frame_end of a frame that is not the pending one: the pending frame  *)
(* and what it staged are dropped first.                                   *)
TxAtEnd    == IF pending.is THEN Dropped ELSE tx
ChainAtEnd == IF pending.is THEN IdleChain ELSE chain

SpineAtEnd(req) ==
    /\ ChainAtEnd.st = "idle"
    /\ TxAtEnd.st = "idle"
    /\ ~verdict_first(req)

(* route_frame of a complete own frame in the spine.                       *)
SpineFrame(req) ==
    /\ Between
    /\ SpineAtEnd(req)
    /\ Dispatch(req, TxAtEnd, TRUE, FALSE)
    /\ chain' = ChainAtEnd

(* route_frame of a complete own frame, CRC checked before any effect: it  *)
(* supersedes a chain and a staged reply, never one that is streaming.     *)
VerdictFirstFrame(req) ==
    /\ Between
    /\ ~SpineAtEnd(req)
    /\ Dispatch(req, Dropped, TRUE, TRUE)
    /\ chain' = IdleChain

(* The bus lets go of a frame without telling the session.                 *)
ForgetFrame ==
    /\ pending' = NoFrame
    /\ UNCHANGED session

(* Variant of SkipFrame that does not supersede.                           *)
SkipFrameInert ==
    /\ Between
    /\ pending.is \/ ChainActive \/ tx.st = "staged"
    /\ ForgetFrame
    /\ tx' = TxAtEnd
    /\ chain' = ChainAtEnd
    /\ UNCHANGED <<id, rate, deferred, rescued>>
    /\ reply' = IF tx'.st = "staged" THEN "stale" ELSE reply

(* A good instruction for another servo: it supersedes as well.            *)
SkipFrame ==
    /\ Between
    /\ pending.is \/ ChainActive \/ tx.st = "staged"
    /\ ForgetFrame
    /\ tx' = Dropped
    /\ chain' = IdleChain
    /\ UNCHANGED <<id, rate, deferred, rescued>>
    /\ reply' = IF tx'.st = "staged" THEN "stale" ELSE reply

(* A garbled frame on the verdict-first path touches nothing, unless it    *)
(* ends where another frame was pending.                                   *)
GarbledFrame ==
    /\ Between
    /\ pending.is
    /\ ForgetFrame
    /\ tx' = TxAtEnd
    /\ chain' = ChainAtEnd
    /\ UNCHANGED <<id, rate, deferred, reply, rescued>>

(* A status frame of another servo ends: Chain::on_status_end.             *)
StatusFrame ==
    /\ Between
    /\ IF pending.is
       THEN /\ ForgetFrame
            /\ tx' = Dropped
            /\ chain' = IdleChain
       ELSE /\ chain.st = "waiting"
            /\ chain' = IF chain.remaining = 1
                        THEN [chain EXCEPT !.st = "pending", !.remaining = 0]
                        ELSE [chain EXCEPT !.remaining = @ - 1]
            /\ UNCHANGED <<session, pending, tx>>
    /\ UNCHANGED <<id, rate, deferred, reply, rescued>>

(* verify, passed: commit the write, sequence the reply.                   *)
VerifyGood ==
    /\ pending.is
    /\ pending' = NoFrame
    /\ IF pending.table
       THEN \/ D!CommitHold /\ NoHooks
            \/ D!CommitWrite /\ Hooks(DOMAIN session_pending.write)
       ELSE UNCHANGED session /\ NoHooks
    /\ IF pending.staged /\ tx.st = "staged"
       THEN /\ chain' = [st |-> IF pending.slot = 0 THEN "pending" ELSE "waiting",
                         remaining |-> pending.slot, silent |-> FALSE]
            /\ reply' = "current"
       ELSE UNCHANGED <<chain, reply>>
    /\ UNCHANGED <<tx, id, rate, pending_reboot>>

(* verify, failed: revert the write, drop the reply.                       *)
VerifyBad ==
    /\ pending.is
    /\ ~pending.verified
    /\ pending' = NoFrame
    /\ IF pending.table THEN D!Revert ELSE UNCHANGED session
    /\ tx' = Dropped
    /\ chain' = IdleChain
    /\ UNCHANGED <<id, rate, deferred, reply, rescued>>

-----------------------------------------------------------------------------
(* Breaks, deadlines, transmission, reboot.                                *)

(* Variant of the break kill that leaves the chain armed.                  *)
BreakKillsReplyOnly ==
    /\ Between
    /\ tx.st = "staged"
    /\ ~tx.tolerant
    /\ chain.st # "waiting"
    /\ ~pending.is
    /\ tx' = IdleTx
    /\ UNCHANGED <<session, pending, chain, id, rate, deferred, reply, rescued>>

(* on_break with ringed bytes after the reply's own frame: the host moved  *)
(* on, the reply must not fire into its next frame.                        *)
BreakKill ==
    /\ Between
    /\ tx.st = "staged"
    /\ ~tx.tolerant
    /\ chain.st # "waiting"
    /\ ~pending.is
    /\ tx' = IdleTx
    /\ chain' = IdleChain
    /\ UNCHANGED <<session, pending, id, rate, deferred, reply, rescued>>

(* TxEngine::trigger: does nothing on an engine without a staged frame.    *)
Trigger == tx' = IF tx.st = "staged" THEN [tx EXCEPT !.st = "streaming"] ELSE tx

(* Chain::on_deadline: the reply gap is over, or a reclaim window expired. *)
ChainDeadline ==
    /\ Between
    /\ \/ /\ chain.st = "pending" \/ (chain.st = "waiting" /\ chain.remaining = 1)
          /\ Trigger
          /\ chain' = IdleChain
       \/ /\ chain.st = "waiting" /\ chain.remaining > 1
          /\ chain' = [chain EXCEPT !.remaining = @ - 1, !.silent = TRUE]
          /\ UNCHANGED tx
    /\ UNCHANGED <<session, pending, id, rate, deferred, reply, rescued>>

(* on_tx_complete of the last arm: the reply drained, deferred config lands.*)
TxReleased ==
    /\ Between
    /\ tx.st = "streaming"
    /\ tx' = IdleTx
    /\ id' = IF pending_id = None THEN id ELSE pending_id
    /\ pending_id' = None
    /\ rate' = IF pending_baud = None THEN rate ELSE pending_baud
    /\ pending_baud' = None
    /\ UNCHANGED <<session, pending, chain, pending_reboot, reply, rescued>>

(* take_reboot, and the boot that follows.                                 *)
TakeReboot ==
    /\ Between
    /\ pending_reboot
    /\ ~TxBusy
    /\ pending' = NoFrame
    /\ D!Reboot
    /\ tx' = IdleTx
    /\ chain' = IdleChain
    /\ id' = table'[IdReg]
    /\ rate' = table'[BaudReg]
    /\ pending_id' = None
    /\ pending_baud' = None
    /\ pending_reboot' = FALSE
    /\ reply' = "none"
    /\ rescued' = FALSE

(* on_rescue_break: the line sampler saw a rescue pulse.                   *)
RescueBreak ==
    /\ Between
    /\ tx.st # "streaming"
    /\ rate' = RescueRate
    /\ chain' = IdleChain
    /\ tx' = IdleTx
    /\ ForgetFrame
    /\ rescued' = TRUE
    /\ UNCHANGED <<id, deferred, reply>>

Next ==
    \/ \E req \in Request : Covered(req) \/ SpineFrame(req) \/ VerdictFirstFrame(req)
    \/ SkipFrame \/ GarbledFrame \/ StatusFrame \/ VerifyGood \/ VerifyBad
    \/ BreakKill \/ ChainDeadline \/ TxReleased \/ TakeReboot \/ RescueBreak

Spec == Init /\ [][Next]_vars

-----------------------------------------------------------------------------
TypeOK ==
    /\ D!TypeOK
    /\ pending \in [is : BOOLEAN, slot : 0 .. MaxSlot, staged : BOOLEAN,
                    table : BOOLEAN, now : BOOLEAN, verified : BOOLEAN]
    /\ tx \in [st : {"idle", "staged", "streaming"}, id : Values \cup {None},
               tolerant : BOOLEAN]
    /\ chain \in [st : {"idle", "pending", "waiting"}, remaining : 0 .. MaxSlot,
                  silent : BOOLEAN]
    /\ chain.st = "waiting" => chain.remaining > 0
    /\ id \in Values
    /\ rate \in Values
    /\ pending_id \in Values \cup {None}
    /\ pending_baud \in Values \cup {None}
    /\ pending_reboot \in BOOLEAN
    /\ reply \in {"none", "unverified", "current", "stale"}
    /\ rescued \in BOOLEAN

(* No ghost trigger: the chain is never armed over an engine without a     *)
(* staged reply (the trigger would send nothing, and the host times out).  *)
NoGhostTrigger == ChainActive => tx.st = "staged"

(* No orphan reply: a staged reply has a chain slot or a verdict coming.   *)
(* One that had neither would hold TxBusy, keep every later frame off the  *)
(* spine and withhold a reboot.                                            *)
NoOrphanReply ==
    tx.st = "staged" => ChainActive \/ (pending.is /\ pending.staged)

(* What streams answers a verified instruction, and no verified one has    *)
(* come after it (sec 5.3 L1, and the break kill of on_break).             *)
ReplyIsCurrent == tx.st = "streaming" => reply = "current"

(* What a frame may change only once its CRC has passed.                   *)
Effects == <<table, D!Held, dirty, saved, wiped, id, rate, deferred>>

(* "A garbled frame must touch nothing" (route_frame): no register, no     *)
(* held write and no deferred setting changes while a frame awaits its     *)
(* verdict, when the verdict fails, or when the frame dies.                *)
EffectsAwaitVerdict ==
    [][(pending'.is /\ ~pending'.verified) \/ VerifyBad \/ GarbledFrame
           => UNCHANGED Effects]_vars

(* osc-native sec 9.2, ASSIGN: the id is "applied immediately [...] and    *)
(* mirrored into the config ID register": once nothing is deferred, the    *)
(* servo answers to the id its register holds.                             *)
IdSettled == pending_id = None => id = table[IdReg]

(* osc-native sec 9.1: the rescue rate holds until a reboot (or until the  *)
(* host writes the baud register anew).                                    *)
RescueHolds == rescued => rate = RescueRate
=============================================================================
