----------------------------- MODULE GainWriter -----------------------------
(***************************************************************************)
(* `ident write`, `ident write --save` and `ident rollback`                *)
(* (src/tools/osc/src/ident/mod.rs, src/tools/osc/src/rig/snapshot.rs):    *)
(* the gain fields of one servo, the snapshot file beside the parameters,  *)
(* and a bus that may lose any transaction.  A field is written and read   *)
(* back one transaction at a time, and an error ends the command; the      *)
(* operator then runs another one.                                         *)
(***************************************************************************)
EXTENDS Naturals, Sequences

CONSTANTS
    Fields,      \* SNAPSHOT_FIELDS: a sequence of field names
    MaxRuns,     \* commands the operator runs (bound)
    MaxFails     \* transactions the bus loses (bound)

ASSUME GainAssumption == Fields \in Seq(STRING) /\ Fields # <<>>

VARIABLES
    ram,      \* the servo's live fields: "old" or "fit"
    flash,    \* the fields as last saved
    file,     \* snapshot.json, or "none"
    order,    \* the running command: "idle", "write", "save", "rollback"
    step,     \* "snap", "put", "check", "torque", "commit"
    at,       \* index of the field in hand
    runs,     \* commands run so far
    fails,    \* transactions lost so far
    result    \* how the last command ended: "none", "ok", "err"

gainVars == <<ram, flash, file, order, step, at, runs, fails, result>>

GainFields == {Fields[i] : i \in DOMAIN Fields}
Old == [f \in GainFields |-> "old"]
Fit == [f \in GainFields |-> "fit"]

GainInit ==
    /\ ram = Old /\ flash = Old /\ file = [taken |-> FALSE, image |-> Old]
    /\ order = "idle" /\ step = "snap" /\ at = 1
    /\ runs = 0 /\ fails = 0 /\ result = "none"

\* The operator starts a command; rollback needs the file.
StartCommand ==
    /\ order = "idle" /\ runs < MaxRuns
    /\ runs' = runs + 1
    /\ \/ order' \in {"write", "save"} /\ step' = "snap"
       \/ file.taken /\ order' = "rollback" /\ step' = "put"
    /\ at' = 1
    /\ result' = "none"
    /\ UNCHANGED <<ram, flash, file, fails>>

Finish(how) == order' = "idle" /\ result' = how

LoseOne == fails < MaxFails /\ fails' = fails + 1

\* take_snapshot: read every field, then overwrite the file; a lost read
\* leaves the old file.
SnapshotGains ==
    /\ order \in {"write", "save"} /\ step = "snap"
    /\ \/ /\ file' = [taken |-> TRUE, image |-> ram]
          /\ step' = "put"
          /\ UNCHANGED <<order, fails, result>>
       \/ LoseOne /\ Finish("err") /\ UNCHANGED <<file, step>>
    /\ UNCHANGED <<ram, flash, at, runs>>

Wanted == IF order = "rollback" THEN file.image ELSE Fit

\* write_reg of one field: done, lost, or done with its answer lost.
PutField ==
    /\ order # "idle" /\ step = "put"
    /\ \/ /\ ram' = [ram EXCEPT ![Fields[at]] = Wanted[Fields[at]]]
          /\ step' = "check"
          /\ UNCHANGED <<order, fails, result>>
       \/ /\ LoseOne /\ Finish("err")
          /\ ram' \in {ram, [ram EXCEPT ![Fields[at]] = Wanted[Fields[at]]]}
          /\ step' = step
    /\ UNCHANGED <<flash, file, at, runs>>

(* Variant of CheckField that stops one field early. *)
CheckFieldShort ==
    /\ order # "idle" /\ step = "check"
    /\ at' = at + 1
    /\ IF at + 1 < Len(Fields) THEN step' = "put" /\ UNCHANGED <<order, result>>
       ELSE IF order = "save" THEN step' = "torque" /\ UNCHANGED <<order, result>>
       ELSE Finish("ok") /\ step' = step
    /\ UNCHANGED <<ram, flash, file, runs, fails>>

\* The read-back of one field, and on to the next.
CheckField ==
    /\ order # "idle" /\ step = "check"
    /\ \/ /\ ram[Fields[at]] = Wanted[Fields[at]]
          /\ IF at < Len(Fields)
             THEN at' = at + 1 /\ step' = "put" /\ UNCHANGED <<order, result>>
             ELSE IF order = "save" THEN at' = at /\ step' = "torque" /\ UNCHANGED <<order, result>>
             ELSE Finish("ok") /\ UNCHANGED <<at, step>>
          /\ fails' = fails
       \/ LoseOne /\ Finish("err") /\ UNCHANGED <<at, step>>
    /\ UNCHANGED <<ram, flash, file, runs>>

\* --save: torque off, then MGMT SAVE.
TorqueOff ==
    /\ order = "save" /\ step = "torque"
    /\ \/ step' = "commit" /\ UNCHANGED <<order, fails, result>>
       \/ LoseOne /\ Finish("err") /\ step' = step
    /\ UNCHANGED <<ram, flash, file, at, runs>>

Commit ==
    /\ order = "save" /\ step = "commit"
    /\ \/ flash' = ram /\ Finish("ok") /\ fails' = fails
       \/ LoseOne /\ Finish("err") /\ flash' \in {flash, ram}
    /\ UNCHANGED <<ram, file, step, at, runs>>

\* The servo restarts between commands and loads what was saved.
PowerCycle ==
    /\ order = "idle" /\ ram # flash
    /\ ram' = flash
    /\ result' = "none"
    /\ UNCHANGED <<flash, file, order, step, at, runs, fails>>

GainNext ==
    \/ StartCommand \/ SnapshotGains \/ PutField \/ CheckField \/ TorqueOff \/ Commit
    \/ PowerCycle

GainSpec == GainInit /\ [][GainNext]_gainVars

-----------------------------------------------------------------------------

(* The command and its cursor have their types. *)
GainTypeOK ==
    /\ ram \in [GainFields -> {"old", "fit"}] /\ flash \in [GainFields -> {"old", "fit"}]
    /\ at \in 1 .. Len(Fields) /\ fails \in 0 .. MaxFails

(* A saved image is never a mixture: SAVE runs only after every field was    *)
(* written and read back ("wrote N fields, all verified", rig/snapshot.rs).  *)
SavedUnmixed == flash \in {Old, Fit}

=============================================================================
