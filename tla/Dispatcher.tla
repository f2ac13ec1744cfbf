----------------------------- MODULE Dispatcher -----------------------------
(***************************************************************************)
(* A servo's dispatch session: the staging buffer that spans a WRITE+HOLD  *)
(* ... COMMIT sequence, and the one write that is staged ahead of its      *)
(* frame's CRC verdict.                                                    *)
(*                                                                         *)
(* The bus calls dispatch before the verdict of a frame is known, and then *)
(* commit, revert, or -- when the frame dies (line noise, a rescue pulse,  *)
(* a frontier given up) -- nothing at all.  In that case the staged bytes  *)
(* dangle in the buffer until the next dispatch.                           *)
(*                                                                         *)
(* Data abstraction: a write is a function from registers to values, each  *)
(* register one unit of the staging buffer; a register outside Regs is an  *)
(* address past the end of the map.                                        *)
(***************************************************************************)
EXTENDS Integers, Sequences, FiniteSets

CONSTANTS Regs, Values, Writes, Writable, Persistent, CmpRules,
          AllowedRules, SatMax, IdReg, UnicastIds, InitTable,
          DataCap,        \* STAGE_DATA_CAP
          EntryCap,       \* STAGE_ENTRY_CAP
          OldImages,      \* tables an older A/B slot may still hold
          IdBytes         \* the id bytes an ASSIGN may carry

ASSUME RegsAssumption ==
    /\ Writable \subseteq Regs
    /\ Persistent \subseteq Regs
    /\ IdReg \in Persistent
    /\ UnicastIds \subseteq Values
    /\ InitTable \in [Regs -> Values]
    /\ OldImages \subseteq [Regs -> Values]
ASSUME WritesAssumption ==
    \A w \in Writes : /\ w \in [DOMAIN w -> Values]
                      /\ IsFiniteSet(DOMAIN w)
ASSUME CapAssumption == DataCap \in Nat /\ EntryCap \in Nat

VARIABLES
    table,          \* the live control table
    entries,        \* StagedWrites.entries: [write, off]
    used,           \* StagedWrites.data.len()
    pending,        \* Session.pending, or NoPending
    owed,           \* the bus still holds the frame whose write is pending
    dirty,          \* STATUS_FLAG_CONFIG_DIRTY
    saved,          \* what the store holds: the table a boot would load
    wiped           \* history: a FACTORY has touched the store since

dvars == <<table, entries, used, pending, owed, dirty, saved, wiped>>

(* What the session promises; its operators define the register rules.     *)
HeldEntries ==
    IF pending.is THEN SubSeq(entries, 1, pending.entries) ELSE entries

Held == [i \in 1 .. Len(HeldEntries) |-> HeldEntries[i].write]

Session == INSTANCE RegisterSession WITH held <- Held

Overlay(t, w) == Session!Overlay(t, w)
Verdict(t, w) == Session!Verdict(t, w)

NoPending == [is |-> FALSE, data |-> 0, entries |-> 0, hold |-> FALSE,
              write |-> <<>>]

Size(w) == Cardinality(DOMAIN w)

Init ==
    /\ table = InitTable
    /\ entries = <<>>
    /\ used = 0
    /\ pending = NoPending
    /\ owed = FALSE
    /\ dirty = FALSE
    /\ saved = InitTable
    /\ wiped = FALSE

(* The buffer once revert_dangling has run: every dispatch starts here.    *)
CleanUsed == IF pending.is THEN pending.data ELSE used

(* revert_dangling, with nothing staged after it.                          *)
RevertDangling ==
    /\ entries' = HeldEntries
    /\ used' = CleanUsed
    /\ pending' = NoPending
    /\ owed' = FALSE

(* Dispatch of PING, READ, ENUM, CAL, REBOOT or an instruction it rejects. *)
DispatchOther ==
    /\ RevertDangling
    /\ UNCHANGED <<table, dirty, saved, wiped>>

(* stage_split accepts the write: it is valid and there is room for it.    *)
Stageable(w) ==
    /\ Verdict(table, w) = "ok"
    /\ CleanUsed + Size(w) <= DataCap
    /\ Len(HeldEntries) < EntryCap

(* Dispatcher::write refused: bounds, access, rule, or no room to stage.   *)
RefuseWrite(w) ==
    /\ ~Stageable(w)
    /\ RevertDangling
    /\ UNCHANGED <<table, dirty, saved, wiped>>

(* Dispatcher::write staged above the watermark, awaiting its verdict.     *)
StageWrite(w, hold) ==
    /\ Stageable(w)
    /\ entries' = Append(HeldEntries, [write |-> w, off |-> CleanUsed])
    /\ used' = CleanUsed + Size(w)
    /\ pending' = [is |-> TRUE, data |-> CleanUsed, entries |-> Len(HeldEntries),
                   hold |-> hold, write |-> w]
    /\ owed' = TRUE
    /\ UNCHANGED <<table, dirty, saved, wiped>>

(* The entries above the watermark, as commit_from applies them.           *)
AboveWatermark == [i \in 1 .. Len(entries) - pending.entries |->
                      entries[pending.entries + i].write]

(* Dispatch::commit, the verdict passed.                                   *)
CommitHold ==
    /\ owed
    /\ pending.hold
    /\ pending' = NoPending
    /\ owed' = FALSE
    /\ UNCHANGED <<table, entries, used, dirty, saved, wiped>>

CommitWrite ==
    /\ owed
    /\ ~pending.hold
    /\ table' = Session!Applied(table, AboveWatermark)
    /\ entries' = SubSeq(entries, 1, pending.entries)
    /\ used' = pending.data
    /\ dirty' = (dirty \/ DOMAIN pending.write \cap Persistent # {})
    /\ pending' = NoPending
    /\ owed' = FALSE
    /\ UNCHANGED <<saved, wiped>>

(* Variant of Revert that truncates the entries and not the data.          *)
RevertKeepsData ==
    /\ owed
    /\ entries' = SubSeq(entries, 1, pending.entries)
    /\ pending' = NoPending
    /\ owed' = FALSE
    /\ UNCHANGED <<table, used, dirty, saved, wiped>>

(* Dispatch::revert, the verdict failed.                                   *)
Revert ==
    /\ owed
    /\ entries' = SubSeq(entries, 1, pending.entries)
    /\ used' = pending.data
    /\ pending' = NoPending
    /\ owed' = FALSE
    /\ UNCHANGED <<table, dirty, saved, wiped>>

(* The frame dies without a verdict: the bus forgets it, the session is    *)
(* not told.                                                               *)
FrameDies ==
    /\ owed
    /\ owed' = FALSE
    /\ UNCHANGED <<table, entries, used, pending, dirty, saved, wiped>>

(* Variants of ApplyCommit: without revert_dangling, the bytes of a frame  *)
(* that died are applied as if held; and without the dirty mark.           *)
ApplyCommitPhantom ==
    LET all == [i \in 1 .. Len(entries) |-> entries[i].write]
    IN  /\ table' = Session!Applied(table, all)
        /\ entries' = <<>>
        /\ used' = 0
        /\ pending' = NoPending
        /\ owed' = FALSE
        /\ dirty' = (dirty \/ Session!Touches(all, Persistent))
        /\ UNCHANGED <<saved, wiped>>

ApplyCommitUnmarked ==
    /\ table' = Session!Applied(table, Held)
    /\ entries' = <<>>
    /\ used' = 0
    /\ pending' = NoPending
    /\ owed' = FALSE
    /\ UNCHANGED <<dirty, saved, wiped>>

(* Dispatcher::apply_commit: a COMMIT frame, dispatched after its verdict. *)
ApplyCommit ==
    /\ table' = Session!Applied(table, Held)
    /\ entries' = <<>>
    /\ used' = 0
    /\ pending' = NoPending
    /\ owed' = FALSE
    /\ dirty' = (dirty \/ Session!Touches(Held, Persistent))
    /\ UNCHANGED <<saved, wiped>>

(* Variant of Assign that skips Id::try_unicast.                           *)
AssignUnchecked(v) ==
    /\ RevertDangling
    /\ table' = [table EXCEPT ![IdReg] = v]
    /\ dirty' = TRUE
    /\ UNCHANGED <<saved, wiped>>

(* Dispatcher::assign, for the servo whose UID matches.                    *)
Assign(v) ==
    /\ RevertDangling
    /\ IF v \in UnicastIds
       THEN /\ table' = [table EXCEPT ![IdReg] = v]
            /\ dirty' = TRUE
       ELSE UNCHANGED <<table, dirty>>
    /\ UNCHANGED <<saved, wiped>>

(* Dispatcher::save: refused while torque is on, else as the store fares;  *)
(* a store that fails may have replaced the config image before it did.    *)
Save(code) ==
    /\ RevertDangling
    /\ saved' \in CASE code = "ok"       -> {Session!Image(table)}
                    [] code = "hardware" -> {saved, Session!Image(table)}
                    [] code = "access"   -> {saved}
    /\ dirty' = (dirty /\ code # "ok")
    /\ wiped' = (wiped /\ code # "ok")
    /\ UNCHANGED table

(* Dispatcher::factory: a wipe that fails half way leaves the newest, an   *)
(* older or no image behind.                                               *)
Factory(code) ==
    /\ RevertDangling
    /\ saved' \in CASE code = "ok"       -> {InitTable}
                    [] code = "hardware" -> {saved, InitTable} \cup OldImages
                    [] code = "access"   -> {saved}
    /\ wiped' = (wiped \/ code # "access")
    /\ UNCHANGED <<table, dirty>>

(* A reset: a fresh session over the table the store loads.                *)
Reboot ==
    /\ table' = saved
    /\ entries' = <<>>
    /\ used' = 0
    /\ pending' = NoPending
    /\ owed' = FALSE
    /\ dirty' = FALSE
    /\ wiped' = FALSE
    /\ UNCHANGED saved

Next ==
    \/ DispatchOther
    \/ \E w \in Writes : \/ RefuseWrite(w)
                         \/ \E hold \in BOOLEAN : StageWrite(w, hold)
    \/ CommitHold \/ CommitWrite \/ Revert \/ FrameDies \/ ApplyCommit
    \/ \E v \in IdBytes : Assign(v)
    \/ \E code \in {"ok", "hardware", "access"} : Save(code) \/ Factory(code)
    \/ Reboot

Spec == Init /\ [][Next]_dvars

-----------------------------------------------------------------------------
TypeOK ==
    /\ table \in [Regs -> Values]
    /\ entries \in Seq([write : Writes, off : Nat])
    /\ used \in Nat
    /\ pending.is \in BOOLEAN /\ pending.hold \in BOOLEAN
    /\ pending.data \in Nat /\ pending.entries \in Nat
    /\ pending.is => pending.write \in Writes
    /\ owed \in BOOLEAN
    /\ dirty \in BOOLEAN
    /\ saved \in [Regs -> Values]
    /\ wiped \in BOOLEAN

(* The two halves of the staging buffer stay in step through every push,   *)
(* truncation, failed frame and COMMIT: the entries' spans tile the data   *)
(* bytes in order and never pass the capacity.                             *)
BufferTiled ==
    /\ Len(entries) <= EntryCap
    /\ used <= DataCap
    /\ \A i \in 1 .. Len(entries) :
          entries[i].off + Size(entries[i].write) =
              IF i = Len(entries) THEN used ELSE entries[i + 1].off
    /\ Len(entries) > 0 => entries[1].off = 0
    /\ entries = <<>> => used = 0

(* Dispatch-before-verdict is invisible: whatever frames fail or die, and  *)
(* wherever their bytes were staged, the table, the held writes and the    *)
(* dirty bit only take the steps of the register session.                  *)
ImplementsSession == Session!Spec

(* The dirty bit never under-reports (osc-native sec 9.4): clear, it means *)
(* that no register of CONFIG or PROFILE differs from the saved image,     *)
(* whichever way its value was written (FACTORY asks for the difference).  *)
DirtyTracksSave ==
    (~dirty /\ ~wiped) => \A r \in Persistent : table[r] = saved[r]

(* "everything else was rule-valid when saved" (overlay_persistent): the   *)
(* image a boot loads, which SAVE took from a committed table, breaks no   *)
(* compare rule of a saved register.                                       *)
RuleValid ==
    \A rule \in CmpRules :
        rule.reg \in Persistent => Session!RuleHolds(rule, saved)
=============================================================================
