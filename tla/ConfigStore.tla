---------------------------- MODULE ConfigStore ----------------------------
(***************************************************************************)
(* Config persistence of a servo: the A/B slot pairs in flash, the SAVE    *)
(* and FACTORY operations that rewrite them one flash page operation at a  *)
(* time, and the boot-time pick that loads the newest valid image.         *)
(*                                                                         *)
(* Two images are kept independently: CONFIG (config ++ profile regions,   *)
(* one page per slot) and CALIB (two pages per slot).  A page operation    *)
(* may succeed, tear the page, or have no effect, and power may be cut     *)
(* between any two of them.  Programming cells that are not erased garbles *)
(* the page.                                                               *)
(*                                                                         *)
(* Data abstraction: a region's bytes are one member of Bodies; TailOf is  *)
(* the part of a CALIB body that lies on its second page.  A page whose    *)
(* bytes Image::parse rejects (bad magic, version, length, CRC or a        *)
(* disallowed enum byte) is "junk"; the CRC is taken to be perfect.        *)
(***************************************************************************)
EXTENDS Naturals

CONSTANTS
    Bodies,         \* the contents a persisted region may hold
    DefaultBody,    \* what seed_config_defaults puts into the table
    TailOf,         \* what of a CALIB body is stored on its second page
    SeqMod,         \* size of the wrapping image sequence number (u16: 65536)
    MaxFaults       \* bound: page operations that go wrong and power cuts

ASSUME BodiesAssumption == DefaultBody \in Bodies
ASSUME TailOfAssumption == TailOf \in [Bodies -> Bodies]
ASSUME SeqModAssumption == SeqMod \in Nat /\ SeqMod >= 4
ASSUME MaxFaultsAssumption == MaxFaults \in Nat

VARIABLES
    config,     \* config[s]: the CONFIG page of slot s
    calib1,     \* calib1[s]: first CALIB page of slot s (header ++ front)
    calib2,     \* calib2[s]: second CALIB page of slot s (tail)
    store,      \* RAM: next slot and sequence number of both images
    table,      \* RAM: the live config and calib regions
    dirty,      \* RAM: STATUS_FLAG_CONFIG_DIRTY
    torque,     \* RAM: control.lifecycle.torque_enable
    reboot,     \* RAM: a reboot is staged
    pc,         \* the next step of the blocking store operation
    reply,      \* result code of the last SAVE or FACTORY
    faults,     \* how many page operations or power supplies have failed
    mayLoad,    \* history: what the host may expect a boot to load
    wiped       \* history: a FACTORY began since the last verified image

flash == <<config, calib1, calib2>>
ram   == <<store, table, dirty, torque, reboot>>
ghost == <<mayLoad, wiped>>
vars  == <<flash, ram, pc, reply, faults, ghost>>

----------------------------------------------------------------------------
(* Slots, sequence numbers and pages.                                      *)

Slot == {"A", "B"}

other(s) == IF s = "A" THEN "B" ELSE "A"

Seqs == 0 .. SeqMod - 1

wrapping_add1(n) == IF n = SeqMod - 1 THEN 0 ELSE n + 1

wrapping_sub(a, b) == IF a >= b THEN a - b ELSE (a + SeqMod) - b

(* (a.wrapping_sub(b) as i16) > 0                                          *)
Newer(a, b) == LET d == wrapping_sub(a, b) IN d > 0 /\ 2 * d < SeqMod

Page == [st : {"blank", "junk", "image"}, seq : Seqs, body : Bodies]

Blank == [st |-> "blank", seq |-> 0, body |-> DefaultBody]
Junk  == [st |-> "junk",  seq |-> 0, body |-> DefaultBody]

ImagePage(n, b) == [st |-> "image", seq |-> n, body |-> b]
TailPage(b)     == [st |-> "image", seq |-> 0, body |-> TailOf[b]]

(* What flash::erase may leave in page s: erased, torn, or untouched.      *)
Erased(pages, s) ==
    {[pages EXCEPT ![s] = p] :
        p \in {Blank} \cup (IF faults < MaxFaults THEN {Junk, pages[s]} ELSE {})}

(* What flash::write may leave in page s: on erased cells the wanted page, *)
(* a torn one, or nothing; on cells an erase left behind, garbage.         *)
Programmed(pages, s, want) ==
    IF pages[s] = Blank
    THEN {[pages EXCEPT ![s] = p] :
             p \in {want} \cup (IF faults < MaxFaults THEN {Junk, Blank} ELSE {})}
    ELSE {[pages EXCEPT ![s] = Junk]}

CountFault(ok) == faults' = IF ok THEN faults ELSE faults + 1

----------------------------------------------------------------------------
(* Image::parse, CalibImage::parse and pick_newest.                        *)

ConfigValid(s) == config[s].st = "image"

CalibValid(s) == /\ calib1[s].st = "image"
                 /\ calib2[s].st = "image"
                 /\ calib2[s].body = TailOf[calib1[s].body]

(* The slot whose image wins, given which slots parse and their seqs.      *)
Winner(valid, pages) ==
    IF valid["A"] /\ valid["B"]
    THEN IF Newer(pages["A"].seq, pages["B"].seq) THEN "A" ELSE "B"
    ELSE IF valid["A"] THEN "A" ELSE "B"

(* Variant of BootPick that hands out the slot of the newest image.        *)
BootPickSameSlot(valid, pages) ==
    LET w == Winner(valid, pages) IN
    IF valid[w]
    THEN [slot |-> w, seq |-> wrapping_add1(pages[w].seq), body |-> pages[w].body]
    ELSE [slot |-> "A", seq |-> 1, body |-> DefaultBody]

BootPick(valid, pages) ==
    LET w == Winner(valid, pages) IN
    IF valid[w]
    THEN [slot |-> other(w), seq |-> wrapping_add1(pages[w].seq),
          body |-> pages[w].body]
    ELSE [slot |-> "A", seq |-> 1, body |-> DefaultBody]

ConfigPick == BootPick([s \in Slot |-> ConfigValid(s)], config)
CalibPick  == BootPick([s \in Slot |-> CalibValid(s)], calib1)

FreshStore == [next_slot |-> "A", next_seq |-> 1,
               calib_next_slot |-> "A", calib_next_seq |-> 1]

----------------------------------------------------------------------------
(* Power, boot and host operations.                                        *)

Init ==
    /\ config \in [Slot -> {Blank, Junk}]
    /\ calib1 = [s \in Slot |-> Blank]
    /\ calib2 = [s \in Slot |-> Blank]
    /\ store = FreshStore
    /\ table = [config |-> DefaultBody, calib |-> DefaultBody]
    /\ dirty = FALSE
    /\ torque = FALSE
    /\ reboot = FALSE
    /\ pc = "off"
    /\ reply = "none"
    /\ faults = 0
    /\ mayLoad = [config |-> {DefaultBody}, calib |-> {DefaultBody}]
    /\ wiped = FALSE

(* ConfigStore::boot_load over the default-seeded table, pre-IRQ.          *)
Boot ==
    /\ pc = "off"
    /\ store' = [next_slot |-> ConfigPick.slot, next_seq |-> ConfigPick.seq,
                 calib_next_slot |-> CalibPick.slot,
                 calib_next_seq |-> CalibPick.seq]
    /\ table' = [config |-> ConfigPick.body, calib |-> CalibPick.body]
    /\ dirty' = FALSE
    /\ torque' = FALSE
    /\ reboot' = FALSE
    /\ pc' = "idle"
    /\ reply' = "none"
    /\ mayLoad' = [config |-> {ConfigPick.body}, calib |-> {CalibPick.body}]
    /\ wiped' = FALSE
    /\ UNCHANGED <<flash, faults>>

(* What a reset loses; the static initialisers are what Boot starts from.  *)
LoseRam ==
    /\ store' = FreshStore
    /\ table' = [config |-> DefaultBody, calib |-> DefaultBody]
    /\ dirty' = FALSE
    /\ torque' = FALSE
    /\ reboot' = FALSE
    /\ reply' = "none"
    /\ pc' = "off"

(* Power may be lost at any time, in the middle of a store operation too.  *)
PowerCut ==
    /\ pc # "off"
    /\ faults < MaxFaults
    /\ faults' = faults + 1
    /\ LoseRam
    /\ UNCHANGED <<flash, ghost>>

(* The main loop honours a staged reboot between requests.                 *)
TakeReboot ==
    /\ pc = "idle"
    /\ reboot
    /\ LoseRam
    /\ UNCHANGED <<flash, faults, ghost>>

(* MGMT REBOOT: acknowledged, then staged for the main loop.               *)
MgmtReboot ==
    /\ pc = "idle"
    /\ reboot' = TRUE
    /\ reply' = "ok"
    /\ UNCHANGED <<faults, flash, store, table, dirty, torque, pc, ghost>>

(* A committed write to the CONFIG or PROFILE region.                      *)
WriteConfig(b) ==
    /\ pc = "idle"
    /\ table' = [table EXCEPT !.config = b]
    /\ dirty' = TRUE
    /\ UNCHANGED <<faults, flash, store, torque, reboot, pc, reply, ghost>>

(* A committed write to the CALIB region: not tracked by the dirty bit.    *)
WriteCalib(b) ==
    /\ pc = "idle"
    /\ table' = [table EXCEPT !.calib = b]
    /\ UNCHANGED <<faults, flash, store, dirty, torque, reboot, pc, reply, ghost>>

WriteTorque(t) ==
    /\ pc = "idle"
    /\ torque # t
    /\ torque' = t
    /\ UNCHANGED <<faults, flash, store, table, dirty, reboot, pc, reply, ghost>>

(* SAVE or FACTORY refused by the torque gate.                             *)
RefuseTorque ==
    /\ pc = "idle"
    /\ torque
    /\ reply' = "access"
    /\ UNCHANGED <<faults, flash, ram, pc, ghost>>

----------------------------------------------------------------------------
(* SAVE: config image, then calib image, each verified by reading back.    *)

NewConfigPage == ImagePage(store.next_seq, table.config)
NewCalibPage  == ImagePage(store.calib_next_seq, table.calib)

ConfigIntact == config[store.next_slot] = NewConfigPage

CalibIntact == /\ calib1[store.calib_next_slot] = NewCalibPage
               /\ calib2[store.calib_next_slot] = TailPage(table.calib)

SaveBegin ==
    /\ pc = "idle"
    /\ ~torque
    /\ pc' = "erase_config"
    /\ reply' = "none"
    /\ mayLoad' = [config |-> mayLoad.config \cup {table.config},
                   calib  |-> mayLoad.calib \cup {table.calib}]
    /\ UNCHANGED <<faults, flash, ram, wiped>>

EraseConfig ==
    /\ pc = "erase_config"
    /\ config' \in Erased(config, store.next_slot)
    /\ CountFault(config'[store.next_slot] = Blank)
    /\ pc' = "write_config"
    /\ UNCHANGED <<calib1, calib2, ram, reply, ghost>>

ProgramConfig ==
    /\ pc = "write_config"
    /\ config' \in Programmed(config, store.next_slot, NewConfigPage)
    /\ CountFault(config[store.next_slot] # Blank \/ config'[store.next_slot] = NewConfigPage)
    /\ pc' = "verify_config"
    /\ UNCHANGED <<calib1, calib2, ram, reply, ghost>>

(* Variants of FailVerify: the dirty bit cleared all the same, and the     *)
(* sequence number advanced past the slot that failed.                     *)
FailVerifyClears ==
    /\ \/ pc = "verify_config" /\ ~ConfigIntact
       \/ pc = "verify_calib" /\ ~CalibIntact
    /\ pc' = "idle"
    /\ reply' = "hardware"
    /\ dirty' = FALSE
    /\ UNCHANGED <<faults, flash, store, table, torque, reboot, ghost>>

FailVerifyAdvances ==
    /\ \/ pc = "verify_config" /\ ~ConfigIntact
       \/ pc = "verify_calib" /\ ~CalibIntact
    /\ pc' = "idle"
    /\ reply' = "hardware"
    /\ store' = [store EXCEPT !.next_seq = wrapping_add1(@),
                              !.calib_next_seq = wrapping_add1(@)]
    /\ UNCHANGED <<faults, flash, table, dirty, torque, reboot, ghost>>

(* The failed branch of either readback: the slot is retried by the next   *)
(* SAVE because the A/B state did not advance.                             *)
FailVerify ==
    /\ \/ pc = "verify_config" /\ ~ConfigIntact
       \/ pc = "verify_calib" /\ ~CalibIntact
    /\ pc' = "idle"
    /\ reply' = "hardware"
    /\ UNCHANGED <<faults, flash, ram, ghost>>

VerifyConfig ==
    /\ pc = "verify_config"
    /\ ConfigIntact
    /\ store' = [store EXCEPT !.next_slot = other(store.next_slot),
                              !.next_seq = wrapping_add1(store.next_seq)]
    /\ mayLoad' = [mayLoad EXCEPT !.config = {table.config}]
    /\ pc' = "erase_calib1"
    /\ UNCHANGED <<faults, flash, table, dirty, torque, reboot, reply, wiped>>

EraseCalib1 ==
    /\ pc = "erase_calib1"
    /\ calib1' \in Erased(calib1, store.calib_next_slot)
    /\ CountFault(calib1'[store.calib_next_slot] = Blank)
    /\ pc' = "erase_calib2"
    /\ UNCHANGED <<config, calib2, ram, reply, ghost>>

EraseCalib2 ==
    /\ pc = "erase_calib2"
    /\ calib2' \in Erased(calib2, store.calib_next_slot)
    /\ CountFault(calib2'[store.calib_next_slot] = Blank)
    /\ pc' = "write_calib1"
    /\ UNCHANGED <<config, calib1, ram, reply, ghost>>

ProgramCalib1 ==
    /\ pc = "write_calib1"
    /\ calib1' \in Programmed(calib1, store.calib_next_slot, NewCalibPage)
    /\ CountFault(calib1[store.calib_next_slot] # Blank \/ calib1'[store.calib_next_slot] = NewCalibPage)
    /\ pc' = "write_calib2"
    /\ UNCHANGED <<config, calib2, ram, reply, ghost>>

ProgramCalib2 ==
    /\ pc = "write_calib2"
    /\ calib2' \in Programmed(calib2, store.calib_next_slot, TailPage(table.calib))
    /\ CountFault(calib2[store.calib_next_slot] # Blank \/ calib2'[store.calib_next_slot] = TailPage(table.calib))
    /\ pc' = "verify_calib"
    /\ UNCHANGED <<config, calib1, ram, reply, ghost>>

(* The whole SAVE succeeded: clear the dirty bit and acknowledge.          *)
VerifyCalib ==
    /\ pc = "verify_calib"
    /\ CalibIntact
    /\ store' = [store EXCEPT !.calib_next_slot = other(store.calib_next_slot),
                     !.calib_next_seq = wrapping_add1(store.calib_next_seq)]
    /\ mayLoad' = [mayLoad EXCEPT !.calib = {table.calib}]
    /\ dirty' = FALSE
    /\ wiped' = FALSE
    /\ pc' = "idle"
    /\ reply' = "ok"
    /\ UNCHANGED <<faults, flash, table, torque, reboot>>

----------------------------------------------------------------------------
(* FACTORY: erase all six pages in the code's order, check, then reboot.   *)

FactoryBegin ==
    /\ pc = "idle"
    /\ ~torque
    /\ pc' = "wipe_config_A"
    /\ reply' = "none"
    /\ mayLoad' = [config |-> Bodies, calib |-> Bodies]
    /\ wiped' = TRUE
    /\ UNCHANGED <<faults, flash, ram>>

WipeConfig(s, here, next) ==
    /\ pc = here
    /\ config' \in Erased(config, s)
    /\ CountFault(config'[s] = Blank)
    /\ pc' = next
    /\ UNCHANGED <<calib1, calib2, ram, reply, ghost>>

WipeCalib1(s, here, next) ==
    /\ pc = here
    /\ calib1' \in Erased(calib1, s)
    /\ CountFault(calib1'[s] = Blank)
    /\ pc' = next
    /\ UNCHANGED <<config, calib2, ram, reply, ghost>>

WipeCalib2(s, here, next) ==
    /\ pc = here
    /\ calib2' \in Erased(calib2, s)
    /\ CountFault(calib2'[s] = Blank)
    /\ pc' = next
    /\ UNCHANGED <<config, calib1, ram, reply, ghost>>

AllBlank == \A s \in Slot : /\ config[s] = Blank
                            /\ calib1[s] = Blank
                            /\ calib2[s] = Blank

(* Every page reads erased: restart the A/B state, ack, stage the reboot.  *)
WipeDone ==
    /\ pc = "wipe_check"
    /\ AllBlank
    /\ store' = FreshStore
    /\ reboot' = TRUE
    /\ pc' = "idle"
    /\ reply' = "ok"
    /\ UNCHANGED <<faults, flash, table, dirty, torque, ghost>>

WipeFailed ==
    /\ pc = "wipe_check"
    /\ ~AllBlank
    /\ pc' = "idle"
    /\ reply' = "hardware"
    /\ UNCHANGED <<faults, flash, ram, ghost>>

Wipe ==
    \/ WipeConfig("A", "wipe_config_A", "wipe_config_B")
    \/ WipeConfig("B", "wipe_config_B", "wipe_calib1_A")
    \/ WipeCalib1("A", "wipe_calib1_A", "wipe_calib2_A")
    \/ WipeCalib2("A", "wipe_calib2_A", "wipe_calib1_B")
    \/ WipeCalib1("B", "wipe_calib1_B", "wipe_calib2_B")
    \/ WipeCalib2("B", "wipe_calib2_B", "wipe_check")

----------------------------------------------------------------------------
Save == \/ EraseConfig  \/ ProgramConfig \/ VerifyConfig
        \/ EraseCalib1  \/ EraseCalib2   \/ ProgramCalib1 \/ ProgramCalib2
        \/ VerifyCalib  \/ FailVerify

Next == \/ Boot \/ PowerCut \/ MgmtReboot \/ TakeReboot
        \/ \E b \in Bodies : WriteConfig(b) \/ WriteCalib(b)
        \/ \E t \in BOOLEAN : WriteTorque(t)
        \/ RefuseTorque \/ SaveBegin \/ Save
        \/ FactoryBegin \/ Wipe \/ WipeDone \/ WipeFailed

Spec == Init /\ [][Next]_vars

----------------------------------------------------------------------------
TypeOK ==
    /\ config \in [Slot -> Page]
    /\ calib1 \in [Slot -> Page]
    /\ calib2 \in [Slot -> Page]
    /\ store \in [next_slot : Slot, next_seq : Seqs,
                  calib_next_slot : Slot, calib_next_seq : Seqs]
    /\ table \in [config : Bodies, calib : Bodies]
    /\ dirty \in BOOLEAN
    /\ torque \in BOOLEAN
    /\ reboot \in BOOLEAN
    /\ pc \in {"off", "idle", "erase_config", "write_config",
               "verify_config", "erase_calib1", "erase_calib2",
               "write_calib1", "write_calib2", "verify_calib",
               "wipe_config_A", "wipe_config_B", "wipe_calib1_A",
               "wipe_calib2_A", "wipe_calib1_B", "wipe_calib2_B",
               "wipe_check"}
    /\ reply \in {"none", "ok", "access", "hardware"}
    /\ faults \in 0 .. MaxFaults
    /\ mayLoad \in [config : SUBSET Bodies, calib : SUBSET Bodies]
    /\ wiped \in BOOLEAN

(* Power-safe A/B alternation (osc-native sec 9.4): at every instant, also *)
(* with power cut between any two page operations and with pages that fail *)
(* to erase or program, a boot would load what the host may expect -- the  *)
(* image of the last acknowledged SAVE, or of a SAVE begun after it.       *)
NoLostSave ==
    /\ ConfigPick.body \in mayLoad.config
    /\ CalibPick.body \in mayLoad.calib

(* The dirty bit never under-reports: while it is clear (and no FACTORY    *)
(* has touched the slots since), a reboot would not change the config and  *)
(* profile regions.                                                        *)
DirtyHonest ==
    (pc = "idle" /\ ~dirty /\ ~wiped) => ConfigPick.body = table.config

(* The image in slot ns, if it parses, is not the newest of the two.       *)
NotNewest(valid, pages, ns) ==
    valid[ns] => /\ valid[other(ns)]
                 /\ pages[other(ns)].seq = wrapping_add1(pages[ns].seq)

(* The stored sequence numbers never drift apart: the wrapping comparison  *)
(* of pick_newest is only ever asked about adjacent numbers.  And between  *)
(* requests the A/B state in RAM points each region's next SAVE at a slot  *)
(* that does not hold its newest valid image, except after a FACTORY that  *)
(* failed half way: it may have erased the newest image and left the older *)
(* one, which next_slot still names, as the only one, until a SAVE or a    *)
(* reboot succeeds.                                                        *)
AdjacentSeqs ==
    /\ (ConfigValid("A") /\ ConfigValid("B")) =>
           \/ config["A"].seq = wrapping_add1(config["B"].seq)
           \/ config["B"].seq = wrapping_add1(config["A"].seq)
    /\ (CalibValid("A") /\ CalibValid("B")) =>
           \/ calib1["A"].seq = wrapping_add1(calib1["B"].seq)
           \/ calib1["B"].seq = wrapping_add1(calib1["A"].seq)
    /\ (pc = "idle" /\ ~wiped) =>
           /\ NotNewest([s \in Slot |-> ConfigValid(s)], config,
                        store.next_slot)
           /\ NotNewest([s \in Slot |-> CalibValid(s)], calib1,
                        store.calib_next_slot)

(* osc-native sec 9.4 read literally, for everything SAVE persists: a      *)
(* clear dirty bit means the stored images match the live table.           *)
DirtyCoversCalib ==
    (pc = "idle" /\ ~dirty /\ ~wiped) => CalibPick.body = table.calib
============================================================================
