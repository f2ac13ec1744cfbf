-------------------------- MODULE RegisterSession --------------------------
(***************************************************************************)
(* What a servo promises the host about writes, with frames, CRC verdicts  *)
(* and staging buffers left out: a write applies at once, a held write     *)
(* waits in order for the COMMIT that applies all of them in one step, and *)
(* nothing else ever reaches the table until a reboot loads the saved one. *)
(***************************************************************************)
EXTENDS Integers, Sequences

CONSTANTS
    Regs,           \* the registers of the control table
    Values,         \* what a register may hold
    Writes,         \* the writes a host may send: functions register -> value
    Writable,       \* the registers whose writable mask is set
    Persistent,     \* the registers of the CONFIG and PROFILE regions
    CmpRules,       \* compare rules: [reg, op, abs, imm, rhs], rhs a number
                    \* (imm) or another register
    AllowedRules,   \* enum and bool rules: [reg, allowed]
    SatMax,         \* the largest positive value of a register's width
    IdReg,          \* the register that holds the servo's id
    UnicastIds,     \* the values ASSIGN accepts as an id
    InitTable,      \* the table of a servo without a saved image
    OldImages       \* tables an older A/B slot may still hold

VARIABLES
    table,          \* the live control table
    held,           \* the held writes, oldest first
    dirty,          \* STATUS_FLAG_CONFIG_DIRTY
    saved           \* the table a reboot would come up with

vars == <<table, held, dirty, saved>>

(* The table as the write would leave it: View, live storage under the     *)
(* overlay of this one write.                                              *)
Overlay(t, w) == [r \in Regs |-> IF r \in DOMAIN w THEN w[r] ELSE t[r]]

(* check_cmp: with abs both sides are magnitudes, saturated at the width.  *)
RuleHolds(rule, t) ==
    LET abs(v)  == IF v < 0 THEN -v ELSE v
        side(v) == IF ~rule.abs THEN v
                   ELSE IF abs(v) > SatMax THEN SatMax ELSE abs(v)
        a == side(t[rule.reg])
        r == side(IF rule.imm THEN rule.rhs ELSE t[rule.rhs])
    IN  CASE rule.op = "lt" -> a < r
          [] rule.op = "le" -> a <= r
          [] rule.op = "gt" -> a > r
          [] rule.op = "ge" -> a >= r
          [] rule.op = "eq" -> a = r
          [] rule.op = "ne" -> a # r

(* check_allowed.                                                          *)
AllowedHolds(rule, t) == t[rule.reg] \in rule.allowed

(* Every rule declared on a register the write touches.                    *)
RulesHold(w, t) ==
    /\ \A rule \in AllowedRules : rule.reg \in DOMAIN w => AllowedHolds(rule, t)
    /\ \A rule \in CmpRules : rule.reg \in DOMAIN w => RuleHolds(rule, t)

(* validate: bounds, then the writable mask, then the rules declared on    *)
(* the written registers, against live storage under this write.           *)
Verdict(t, w) ==
    CASE ~(DOMAIN w \subseteq Regs) -> "range"
      [] DOMAIN w \subseteq Regs /\ ~(DOMAIN w \subseteq Writable) -> "access"
      [] DOMAIN w \subseteq Writable /\ ~RulesHold(w, Overlay(t, w)) -> "validation"
      [] OTHER -> "ok"

(* apply_from: the entries in order, so the last one that names a register *)
(* decides it.                                                             *)
Applied(t, ws) ==
    [r \in Regs |->
        LET hits == {i \in 1 .. Len(ws) : r \in DOMAIN ws[i]}
        IN  IF hits = {} THEN t[r]
            ELSE ws[CHOOSE i \in hits : \A j \in hits : j <= i][r]]

Touches(ws, regs) == \E i \in 1 .. Len(ws) : DOMAIN ws[i] \cap regs # {}

(* What SAVE keeps of the table and a boot restores.                       *)
Image(t) == [r \in Regs |-> IF r \in Persistent THEN t[r] ELSE InitTable[r]]

Init ==
    /\ table = InitTable
    /\ held = <<>>
    /\ dirty = FALSE
    /\ saved = InitTable

Write(w) ==
    /\ Verdict(table, w) = "ok"
    /\ table' = Overlay(table, w)
    /\ dirty' = (dirty \/ DOMAIN w \cap Persistent # {})
    /\ UNCHANGED <<held, saved>>

Hold(w) ==
    /\ Verdict(table, w) = "ok"
    /\ held' = Append(held, w)
    /\ UNCHANGED <<table, dirty, saved>>

Commit ==
    /\ table' = Applied(table, held)
    /\ held' = <<>>
    /\ dirty' = (dirty \/ Touches(held, Persistent))
    /\ UNCHANGED saved

Assign(v) ==
    /\ table' = [table EXCEPT ![IdReg] = v]
    /\ dirty' = TRUE
    /\ UNCHANGED <<held, saved>>

Save ==
    /\ saved' = Image(table)
    /\ dirty' = FALSE
    /\ UNCHANGED <<table, held>>

(* A SAVE that fails may have replaced the config image all the same.      *)
SaveFails ==
    /\ saved' = Image(table)
    /\ UNCHANGED <<table, held, dirty>>

(* FACTORY, as far as it got.                                              *)
Factory ==
    /\ saved' \in {InitTable} \cup OldImages
    /\ UNCHANGED <<table, held, dirty>>

Reboot ==
    /\ table' = saved
    /\ held' = <<>>
    /\ dirty' = FALSE
    /\ UNCHANGED saved

Next == \/ \E w \in Writes : Write(w) \/ Hold(w)
        \/ Commit
        \/ \E v \in UnicastIds : Assign(v)
        \/ Save \/ SaveFails \/ Factory \/ Reboot

Spec == Init /\ [][Next]_vars
============================================================================
