------------------------- MODULE ConfigStore_proofs -------------------------
(***************************************************************************)
(* Proofs about ConfigStore, for every set of region contents, every       *)
(* sequence-number width of at least two bits and every number of faults.  *)
(*                                                                         *)
(* Neither NoLostSave nor AdjacentSeqs is inductive: whether the next SAVE *)
(* may overwrite a slot depends on the RAM copy of the A/B state.  The     *)
(* inductive invariant therefore ties that copy to the flash: the slot the *)
(* next SAVE spares holds the previous sequence number (or nothing), the   *)
(* slot it overwrites the one before that (or nothing, or the page being   *)
(* written).                                                               *)
(***************************************************************************)
EXTENDS ConfigStore, TLAPS

ConfigParses == [s \in Slot |-> ConfigValid(s)]
CalibParses  == [s \in Slot |-> CalibValid(s)]

SavingConfig == {"erase_config", "write_config", "verify_config"}
SavingCalib  == {"erase_calib1", "erase_calib2", "write_calib1",
                 "write_calib2", "verify_calib"}
Wiping       == {"wipe_config_A", "wipe_config_B", "wipe_calib1_A",
                 "wipe_calib2_A", "wipe_calib1_B", "wipe_calib2_B",
                 "wipe_check"}

(* The A/B state (ns, nq) fits the images in flash; `fresh` while the page *)
(* of slot ns may already be the new image.                                *)
InStep(valid, pages, ns, nq, fresh) ==
    /\ valid[other(ns)] => nq = wrapping_add1(pages[other(ns)].seq)
    /\ valid[ns] => \/ nq = wrapping_add1(wrapping_add1(pages[ns].seq))
                    \/ fresh /\ nq = pages[ns].seq

(* What a boot would load is in `may`.                                     *)
Covered(valid, pages, ns, may) ==
    IF valid[other(ns)]
    THEN pages[other(ns)].body \in may
    ELSE DefaultBody \in may /\ (valid[ns] => pages[ns].body \in may)

StepInv ==
    pc # "off" =>
      /\ InStep(ConfigParses, config, store.next_slot, store.next_seq,
                pc = "verify_config")
      /\ InStep(CalibParses, calib1, store.calib_next_slot,
                store.calib_next_seq, pc \in {"write_calib2", "verify_calib"})

(* A page that has just been programmed parses only if it took the image.  *)
WrittenInv ==
    /\ pc = "verify_config" /\ config[store.next_slot].st = "image"
         => config[store.next_slot] = NewConfigPage
    /\ pc \in {"write_calib2", "verify_calib"}
         /\ calib1[store.calib_next_slot].st = "image"
         => calib1[store.calib_next_slot] = NewCalibPage
    /\ pc = "verify_calib" /\ calib2[store.calib_next_slot].st = "image"
         => calib2[store.calib_next_slot] = TailPage(table.calib)

MayInv ==
    /\ pc # "off" =>
         /\ Covered(ConfigParses, config, store.next_slot, mayLoad.config)
         /\ Covered(CalibParses, calib1, store.calib_next_slot, mayLoad.calib)
    /\ pc \in SavingConfig => table.config \in mayLoad.config
    /\ pc \in SavingConfig \cup SavingCalib => table.calib \in mayLoad.calib
    /\ pc \in Wiping => mayLoad = [config |-> Bodies, calib |-> Bodies]

(* The clear dirty bit: the spared CONFIG slot holds the live contents.    *)
DirtyInv ==
    /\ (pc # "off" /\ ~dirty /\ ~wiped) =>
         IF ConfigValid(other(store.next_slot))
         THEN config[other(store.next_slot)].body = table.config
         ELSE /\ table.config = DefaultBody
              /\ ConfigValid(store.next_slot) => pc = "verify_config"
    /\ pc \in SavingCalib =>
         /\ ConfigValid(other(store.next_slot))
         /\ config[other(store.next_slot)].body = table.config
    /\ pc \in Wiping => wiped

(* Unless FACTORY has touched it, the slot the next SAVE overwrites holds   *)
(* an image only beside the newer one it spares, or the page just written. *)
SparedInv ==
    (pc # "off" /\ ~wiped) =>
      /\ ConfigParses[store.next_slot] =>
           ConfigParses[other(store.next_slot)] \/ pc = "verify_config"
      /\ CalibParses[store.calib_next_slot] =>
           \/ CalibParses[other(store.calib_next_slot)]
           \/ pc \in {"write_calib2", "verify_calib"}

IInv == /\ TypeOK
        /\ StepInv
        /\ WrittenInv
        /\ MayInv
        /\ DirtyInv
        /\ SparedInv
        /\ pc = "off" => NoLostSave /\ AdjacentSeqs

-----------------------------------------------------------------------------
(* Arithmetic of the wrapping sequence number.                             *)

(* wrapping_add stays within the width of the sequence number.             *)
LEMMA AddType == \A n \in Seqs : wrapping_add1(n) \in Seqs
  BY SeqModAssumption DEF Seqs, wrapping_add1

(* The comparison of pick_newest decides adjacent numbers correctly, across *)
(* the wrap as well.                                                        *)
LEMMA NewerAdjacent ==
    \A n \in Seqs : /\ Newer(wrapping_add1(n), n)
                    /\ ~Newer(n, wrapping_add1(n))
  BY SeqModAssumption DEF Seqs, wrapping_add1, wrapping_sub, Newer

(* Slot::other is an involution without fixed point.                       *)
LEMMA OtherSlot == \A s \in Slot : /\ other(s) \in Slot
                                   /\ other(s) # s
                                   /\ other(other(s)) = s
  BY DEF Slot, other

(* Everything an erase or program may leave behind is a page.              *)
LEMMA PageTypes ==
    /\ Blank \in Page
    /\ Junk \in Page
    /\ \A n \in Seqs, b \in Bodies : /\ ImagePage(n, b) \in Page
                                     /\ TailPage(b) \in Page
  BY SeqModAssumption, BodiesAssumption, TailOfAssumption
     DEF Blank, Junk, ImagePage, TailPage, Page, Seqs

(* flash::erase touches one page, which ends erased, torn or as it was.    *)
LEMMA ErasedFacts ==
    ASSUME NEW pages \in [Slot -> Page], NEW s \in Slot,
           NEW new \in Erased(pages, s)
    PROVE  /\ new \in [Slot -> Page]
           /\ new[other(s)] = pages[other(s)]
           /\ new[s] \in {Blank, Junk, pages[s]}
           /\ new[s] # Blank => faults < MaxFaults
  BY PageTypes, OtherSlot DEF Erased

(* flash::write touches one page, which ends as wanted, torn or erased.    *)
LEMMA ProgrammedFacts ==
    ASSUME NEW pages \in [Slot -> Page], NEW s \in Slot, NEW want \in Page,
           NEW new \in Programmed(pages, s, want)
    PROVE  /\ new \in [Slot -> Page]
           /\ new[other(s)] = pages[other(s)]
           /\ new[s] \in {want, Blank, Junk}
           /\ (pages[s] = Blank /\ new[s] # want) => faults < MaxFaults
  BY PageTypes, OtherSlot DEF Programmed

-----------------------------------------------------------------------------
(* What boot_overlay picks.                                                *)

(* The slot that is newer, or alone, is loaded, and its other is next.     *)
LEMMA PickSpared ==
    ASSUME NEW valid \in [Slot -> BOOLEAN], NEW pages \in [Slot -> Page],
           NEW ns \in Slot, valid[other(ns)],
           valid[ns] => pages[other(ns)].seq = wrapping_add1(pages[ns].seq)
    PROVE  BootPick(valid, pages) =
             [slot |-> ns, seq |-> wrapping_add1(pages[other(ns)].seq),
              body |-> pages[other(ns)].body]
  <1>1. pages["A"].seq \in Seqs /\ pages["B"].seq \in Seqs
    BY DEF Page, Slot
  <1>2. Winner(valid, pages) = other(ns)
    BY <1>1, NewerAdjacent DEF Winner, Slot, other
  <1> QED BY <1>2, OtherSlot DEF BootPick

(* With no valid image the board defaults stand.                           *)
LEMMA PickNone ==
    ASSUME NEW valid \in [Slot -> BOOLEAN], NEW pages,
           \A s \in Slot : ~valid[s]
    PROVE  BootPick(valid, pages) = [slot |-> "A", seq |-> 1,
                                     body |-> DefaultBody]
  BY DEF BootPick, Winner, Slot

(* The images a boot may compare are adjacent.                             *)
Adjacent(valid, pages) ==
    (valid["A"] /\ valid["B"]) =>
        \/ pages["A"].seq = wrapping_add1(pages["B"].seq)
        \/ pages["B"].seq = wrapping_add1(pages["A"].seq)

(* From adjacent images boot_overlay primes a fitting A/B state.           *)
LEMMA PickInStep ==
    ASSUME NEW valid \in [Slot -> BOOLEAN], NEW pages \in [Slot -> Page],
           Adjacent(valid, pages)
    PROVE  LET p == BootPick(valid, pages) IN
           /\ p.slot \in Slot
           /\ p.seq \in Seqs
           /\ p.body \in Bodies
           /\ InStep(valid, pages, p.slot, p.seq, FALSE)
           /\ IF valid[other(p.slot)]
              THEN p.body = pages[other(p.slot)].body
              ELSE p.body = DefaultBody /\ ~valid[p.slot]
  <1> DEFINE p == BootPick(valid, pages)
  <1>1. \A s \in Slot : pages[s].seq \in Seqs /\ pages[s].body \in Bodies
    BY DEF Page
  <1>2. ASSUME NEW ns \in Slot, valid[other(ns)],
               valid[ns] => pages[other(ns)].seq = wrapping_add1(pages[ns].seq)
        PROVE  /\ p.slot \in Slot
               /\ p.seq \in Seqs
               /\ p.body \in Bodies
               /\ InStep(valid, pages, p.slot, p.seq, FALSE)
               /\ IF valid[other(p.slot)]
                  THEN p.body = pages[other(p.slot)].body
                  ELSE p.body = DefaultBody /\ ~valid[p.slot]
    <2>1. p = [slot |-> ns, seq |-> wrapping_add1(pages[other(ns)].seq),
               body |-> pages[other(ns)].body]
      BY <1>2, PickSpared
    <2> QED BY <2>1, <1>1, <1>2, AddType, OtherSlot DEF InStep
  <1>3. CASE \A s \in Slot : ~valid[s]
    BY <1>3, PickNone, BodiesAssumption, SeqModAssumption
       DEF InStep, Slot, Seqs, other
  <1>4. CASE valid["A"] /\ (valid["B"] => pages["A"].seq = wrapping_add1(pages["B"].seq))
    BY <1>2, <1>4 DEF Slot, other
  <1>5. CASE valid["B"] /\ (valid["A"] => pages["B"].seq = wrapping_add1(pages["A"].seq))
    BY <1>2, <1>5 DEF Slot, other
  <1> QED BY <1>3, <1>4, <1>5 DEF Adjacent, Slot

(* A fitting A/B state: the images are adjacent, and a boot loads from     *)
(* `may`.                                                                  *)
LEMMA InStepPick ==
    ASSUME NEW valid \in [Slot -> BOOLEAN], NEW pages \in [Slot -> Page],
           NEW ns \in Slot, NEW nq \in Seqs, NEW may, NEW fresh \in BOOLEAN,
           InStep(valid, pages, ns, nq, fresh),
           Covered(valid, pages, ns, may),
           (fresh /\ valid[ns]) => pages[ns].body \in may
    PROVE  /\ Adjacent(valid, pages)
           /\ BootPick(valid, pages).body \in may
  <1>1. pages[ns].seq \in Seqs /\ pages[other(ns)].seq \in Seqs
    BY OtherSlot DEF Page
  <1>2. valid[ns] /\ valid[other(ns)] =>
          \/ pages[other(ns)].seq = wrapping_add1(pages[ns].seq)
          \/ /\ pages[ns].seq = wrapping_add1(pages[other(ns)].seq)
             /\ fresh
    <2>1. \A a, b \in Seqs : wrapping_add1(a) = wrapping_add1(b) => a = b
      BY SeqModAssumption DEF Seqs, wrapping_add1
    <2> QED BY <1>1, <2>1, AddType DEF InStep
  <1>3. Adjacent(valid, pages)
    BY <1>2 DEF Adjacent, Slot, other
  <1>4. CASE \A s \in Slot : ~valid[s]
    BY <1>3, <1>4, PickNone, OtherSlot DEF Covered
  <1>5. CASE valid[other(ns)] /\
             (valid[ns] => pages[other(ns)].seq = wrapping_add1(pages[ns].seq))
    BY <1>3, <1>5, PickSpared DEF Covered
  <1>6. CASE valid[ns] /\
             (valid[other(ns)] => pages[ns].seq = wrapping_add1(pages[other(ns)].seq)
                                  /\ fresh)
    <2>1. BootPick(valid, pages).body = pages[ns].body
      BY <1>6, PickSpared, OtherSlot
    <2> QED BY <2>1, <1>3, <1>6 DEF Covered
  <1> QED BY <1>2, <1>4, <1>5, <1>6 DEF Slot, other
-----------------------------------------------------------------------------
(* Type correctness.                                                       *)

(* The page an operation means to store is a page.                         *)
LEMMA NewPages == TypeOK => /\ NewConfigPage \in Page
                            /\ NewCalibPage \in Page
                            /\ TailPage(table.calib) \in Page
  BY PageTypes DEF TypeOK, NewConfigPage, NewCalibPage

(* Whether slots parse is a Boolean each.                                  *)
LEMMA ParsesType == TypeOK => /\ ConfigParses \in [Slot -> BOOLEAN]
                              /\ CalibParses \in [Slot -> BOOLEAN]
  BY DEF TypeOK, ConfigParses, CalibParses, ConfigValid, CalibValid

(* The boot-time pick yields an A/B state and contents, whatever the flash *)
(* holds.                                                                  *)
LEMMA PickType ==
    ASSUME NEW valid \in [Slot -> BOOLEAN], NEW pages \in [Slot -> Page]
    PROVE  /\ BootPick(valid, pages).slot \in Slot
           /\ BootPick(valid, pages).seq \in Seqs
           /\ BootPick(valid, pages).body \in Bodies
  <1>1. Winner(valid, pages) \in Slot
    BY DEF Winner, Slot
  <1>2. /\ pages[Winner(valid, pages)].seq \in Seqs
        /\ pages[Winner(valid, pages)].body \in Bodies
    BY <1>1 DEF Page
  <1>3. 1 \in Seqs /\ "A" \in Slot
    BY SeqModAssumption DEF Seqs, Slot
  <1> QED BY <1>1, <1>2, <1>3, OtherSlot, AddType, BodiesAssumption
          DEF BootPick

(* Every action keeps the types.                                           *)
LEMMA TypeStep == TypeOK /\ [Next]_vars => TypeOK'
  <1> SUFFICES ASSUME TypeOK, [Next]_vars PROVE TypeOK'
    OBVIOUS
  <1> USE DEF TypeOK
  <1>1. CASE Boot
    <2>1. /\ ConfigPick.slot \in Slot /\ ConfigPick.seq \in Seqs
          /\ ConfigPick.body \in Bodies
          /\ CalibPick.slot \in Slot /\ CalibPick.seq \in Seqs
          /\ CalibPick.body \in Bodies
      BY ParsesType, PickType DEF ConfigPick, CalibPick, ConfigParses, CalibParses
    <2> QED BY <1>1, <2>1 DEF Boot, flash
  <1>2. ASSUME LoseRam
        PROVE  /\ store' \in [next_slot : Slot, next_seq : Seqs,
                              calib_next_slot : Slot, calib_next_seq : Seqs]
               /\ table' \in [config : Bodies, calib : Bodies]
               /\ dirty' \in BOOLEAN /\ torque' \in BOOLEAN /\ reboot' \in BOOLEAN
               /\ reply' = "none" /\ pc' = "off"
    <2>1. 1 \in Seqs /\ "A" \in Slot
      BY SeqModAssumption DEF Seqs, Slot
    <2> QED BY <1>2, <2>1, BodiesAssumption DEF LoseRam, FreshStore
  <1>3. CASE PowerCut \/ TakeReboot
    <2>1. faults' \in 0 .. MaxFaults
      BY <1>3, MaxFaultsAssumption DEF PowerCut, TakeReboot
    <2> QED BY <1>2, <1>3, <2>1 DEF PowerCut, TakeReboot, flash, ghost
  <1>4. CASE MgmtReboot
    BY <1>4 DEF MgmtReboot, flash, ghost
  <1>5. CASE \E b \in Bodies : WriteConfig(b) \/ WriteCalib(b)
    BY <1>5 DEF WriteConfig, WriteCalib, flash, ghost
  <1>6. CASE \E t \in BOOLEAN : WriteTorque(t)
    BY <1>6 DEF WriteTorque, flash, ghost
  <1>7. CASE RefuseTorque
    BY <1>7 DEF RefuseTorque, flash, ram, ghost
  <1>8. CASE SaveBegin
    BY <1>8 DEF SaveBegin, flash, ram
  <1>9. CASE Save
    <2> USE DEF ram, ghost, CountFault
    <2>1. CASE EraseConfig
      BY <2>1, ErasedFacts, MaxFaultsAssumption DEF EraseConfig
    <2>2. CASE ProgramConfig
      BY <2>2, ProgrammedFacts, NewPages, MaxFaultsAssumption DEF ProgramConfig
    <2>3. CASE VerifyConfig
      BY <2>3, OtherSlot, AddType DEF VerifyConfig, flash
    <2>4. CASE EraseCalib1
      BY <2>4, ErasedFacts, MaxFaultsAssumption DEF EraseCalib1
    <2>5. CASE EraseCalib2
      BY <2>5, ErasedFacts, MaxFaultsAssumption DEF EraseCalib2
    <2>6. CASE ProgramCalib1
      BY <2>6, ProgrammedFacts, NewPages, MaxFaultsAssumption DEF ProgramCalib1
    <2>7. CASE ProgramCalib2
      BY <2>7, ProgrammedFacts, NewPages, MaxFaultsAssumption DEF ProgramCalib2
    <2>8. CASE VerifyCalib
      BY <2>8, OtherSlot, AddType DEF VerifyCalib, flash
    <2>9. CASE FailVerify
      BY <2>9 DEF FailVerify, flash
    <2> QED BY <1>9, <2>1, <2>2, <2>3, <2>4, <2>5, <2>6, <2>7, <2>8, <2>9 DEF Save
  <1>10. CASE FactoryBegin
    BY <1>10 DEF FactoryBegin, flash, ram
  <1>11. CASE Wipe
    <2> "A" \in Slot /\ "B" \in Slot
      BY DEF Slot
    <2>1. ASSUME NEW s \in Slot, NEW here, NEW next, WipeConfig(s, here, next)
          PROVE  config' \in [Slot -> Page] /\ faults' \in 0 .. MaxFaults
      BY <2>1, ErasedFacts, MaxFaultsAssumption DEF WipeConfig, CountFault
    <2>2. ASSUME NEW s \in Slot, NEW here, NEW next, WipeCalib1(s, here, next)
          PROVE  calib1' \in [Slot -> Page] /\ faults' \in 0 .. MaxFaults
      BY <2>2, ErasedFacts, MaxFaultsAssumption DEF WipeCalib1, CountFault
    <2>3. ASSUME NEW s \in Slot, NEW here, NEW next, WipeCalib2(s, here, next)
          PROVE  calib2' \in [Slot -> Page] /\ faults' \in 0 .. MaxFaults
      BY <2>3, ErasedFacts, MaxFaultsAssumption DEF WipeCalib2, CountFault
    <2>4. CASE WipeConfig("A", "wipe_config_A", "wipe_config_B")
      BY <2>4, <2>1 DEF WipeConfig, ram, ghost
    <2>5. CASE WipeConfig("B", "wipe_config_B", "wipe_calib1_A")
      BY <2>5, <2>1 DEF WipeConfig, ram, ghost
    <2>6. CASE WipeCalib1("A", "wipe_calib1_A", "wipe_calib2_A")
      BY <2>6, <2>2 DEF WipeCalib1, ram, ghost
    <2>7. CASE WipeCalib2("A", "wipe_calib2_A", "wipe_calib1_B")
      BY <2>7, <2>3 DEF WipeCalib2, ram, ghost
    <2>8. CASE WipeCalib1("B", "wipe_calib1_B", "wipe_calib2_B")
      BY <2>8, <2>2 DEF WipeCalib1, ram, ghost
    <2>9. CASE WipeCalib2("B", "wipe_calib2_B", "wipe_check")
      BY <2>9, <2>3 DEF WipeCalib2, ram, ghost
    <2> QED BY <1>11, <2>4, <2>5, <2>6, <2>7, <2>8, <2>9 DEF Wipe
  <1>12. CASE WipeDone
    BY <1>12, SeqModAssumption DEF WipeDone, FreshStore, Slot, Seqs, flash, ghost
  <1>13. CASE WipeFailed
    BY <1>13 DEF WipeFailed, flash, ram, ghost
  <1>14. CASE UNCHANGED vars
    BY <1>14 DEF vars, flash, ram, ghost
  <1> QED BY <1>1, <1>3, <1>4, <1>5, <1>6, <1>7, <1>8, <1>9, <1>10,
             <1>11, <1>12, <1>13, <1>14 DEF Next
-----------------------------------------------------------------------------
(* The inductive invariant implies the properties.                         *)

(* At every instant, flash and mayLoad satisfy the store's promises.       *)
LEMMA InvSafe == IInv => NoLostSave /\ AdjacentSeqs
  <1> SUFFICES ASSUME IInv, pc # "off" PROVE NoLostSave /\ AdjacentSeqs
    BY DEF IInv
  <1> USE ParsesType DEF IInv
  <1>1. /\ Adjacent(ConfigParses, config)
        /\ BootPick(ConfigParses, config).body \in mayLoad.config
    <2> DEFINE ns == store.next_slot
               fresh == pc = "verify_config"
    <2>1. ns \in Slot /\ store.next_seq \in Seqs /\ config \in [Slot -> Page]
      BY DEF TypeOK
    <2>2. /\ InStep(ConfigParses, config, ns, store.next_seq, fresh)
          /\ Covered(ConfigParses, config, ns, mayLoad.config)
      BY DEF StepInv, MayInv
    <2>3. (fresh /\ ConfigParses[ns]) => config[ns].body \in mayLoad.config
      <3> SUFFICES ASSUME fresh, ConfigParses[ns]
                   PROVE  config[ns].body \in mayLoad.config
        OBVIOUS
      <3>1. config[ns] = NewConfigPage
        BY <2>1 DEF WrittenInv, ConfigParses, ConfigValid
      <3>2. table.config \in mayLoad.config
        BY DEF MayInv, SavingConfig
      <3> QED BY <3>1, <3>2 DEF NewConfigPage, ImagePage
    <2> HIDE DEF ns, fresh
    <2>4. fresh \in BOOLEAN
      BY DEF fresh
    <2> QED BY <2>1, <2>2, <2>3, <2>4, InStepPick
  <1>2. /\ Adjacent(CalibParses, calib1)
        /\ BootPick(CalibParses, calib1).body \in mayLoad.calib
    <2> DEFINE ns == store.calib_next_slot
               fresh == pc \in {"write_calib2", "verify_calib"}
    <2>1. ns \in Slot /\ store.calib_next_seq \in Seqs /\ calib1 \in [Slot -> Page]
      BY DEF TypeOK
    <2>2. /\ InStep(CalibParses, calib1, ns, store.calib_next_seq, fresh)
          /\ Covered(CalibParses, calib1, ns, mayLoad.calib)
      BY DEF StepInv, MayInv
    <2>3. (fresh /\ CalibParses[ns]) => calib1[ns].body \in mayLoad.calib
      <3> SUFFICES ASSUME fresh, CalibParses[ns]
                   PROVE  calib1[ns].body \in mayLoad.calib
        OBVIOUS
      <3>1. calib1[ns] = NewCalibPage
        BY <2>1 DEF WrittenInv, CalibParses, CalibValid
      <3>2. table.calib \in mayLoad.calib
        BY DEF MayInv, SavingCalib
      <3> QED BY <3>1, <3>2 DEF NewCalibPage, ImagePage
    <2> HIDE DEF ns, fresh
    <2>4. fresh \in BOOLEAN
      BY DEF fresh
    <2> QED BY <2>1, <2>2, <2>3, <2>4, InStepPick
  <1>3. ASSUME pc = "idle", ~wiped
        PROVE  /\ NotNewest(ConfigParses, config, store.next_slot)
               /\ NotNewest(CalibParses, calib1, store.calib_next_slot)
    <2>1. /\ store.next_slot \in Slot /\ store.calib_next_slot \in Slot
          /\ \A s \in Slot : config[s].seq \in Seqs /\ calib1[s].seq \in Seqs
      BY DEF TypeOK, Page
    <2>2. \A a, b \in Seqs : wrapping_add1(a) = wrapping_add1(b) => a = b
      BY SeqModAssumption DEF Seqs, wrapping_add1
    <2> QED BY <1>3, <2>1, <2>2, AddType, OtherSlot
               DEF NotNewest, SparedInv, StepInv, InStep
  <1> QED BY <1>1, <1>2, <1>3 DEF NoLostSave, AdjacentSeqs, Adjacent, ConfigPick,
             CalibPick, ConfigParses, CalibParses, Slot

(* A clear dirty bit is honest.                                            *)
LEMMA InvDirty == IInv => DirtyHonest
  <1> SUFFICES ASSUME IInv, pc = "idle", ~dirty, ~wiped
               PROVE  ConfigPick.body = table.config
    BY DEF DirtyHonest
  <1> DEFINE ns == store.next_slot
  <1>1. /\ ns \in Slot /\ config \in [Slot -> Page]
        /\ ConfigParses \in [Slot -> BOOLEAN]
        /\ ConfigPick = BootPick(ConfigParses, config)
        /\ \A s \in Slot : config[s].seq \in Seqs
    BY ParsesType DEF IInv, TypeOK, ConfigPick, ConfigParses, Page
  <1>2. CASE ConfigParses[other(ns)]
    <2>1. ConfigParses[ns] => config[other(ns)].seq = wrapping_add1(config[ns].seq)
      <3>1. \A a, b \in Seqs : wrapping_add1(a) = wrapping_add1(b) => a = b
        BY SeqModAssumption DEF Seqs, wrapping_add1
      <3> QED BY <1>1, <1>2, <3>1, AddType, OtherSlot DEF IInv, StepInv, InStep
    <2>2. config[other(ns)].body = table.config
      BY <1>1, <1>2, OtherSlot DEF IInv, DirtyInv, ConfigParses
    <2> QED BY <1>1, <1>2, <2>1, <2>2, PickSpared
  <1>3. CASE ~ConfigParses[other(ns)]
    <2>1. ~ConfigParses[ns] /\ table.config = DefaultBody
      BY <1>1, <1>3, OtherSlot DEF IInv, DirtyInv, ConfigParses
    <2>2. \A s \in Slot : ~ConfigParses[s]
      BY <1>1, <1>3, <2>1 DEF Slot, other
    <2> QED BY <1>1, <2>1, <2>2, PickNone
  <1> QED BY <1>2, <1>3
-----------------------------------------------------------------------------
(* The invariant is inductive.                                             *)

(* The initial states: powered off, nothing valid in flash.                *)
LEMMA InvInit == Init => IInv
  <1> SUFFICES ASSUME Init PROVE IInv
    OBVIOUS
  <1>1. TypeOK
    <2>1. 1 \in Seqs /\ "A" \in Slot
      BY SeqModAssumption DEF Seqs, Slot
    <2>2. config \in [Slot -> Page] /\ calib1 \in [Slot -> Page]
                                    /\ calib2 \in [Slot -> Page]
      BY PageTypes DEF Init
    <2>3. store \in [next_slot : Slot, next_seq : Seqs,
                     calib_next_slot : Slot, calib_next_seq : Seqs]
      BY <2>1 DEF Init, FreshStore
    <2>4. /\ table \in [config : Bodies, calib : Bodies]
          /\ mayLoad \in [config : SUBSET Bodies, calib : SUBSET Bodies]
          /\ faults \in 0 .. MaxFaults
      BY BodiesAssumption, MaxFaultsAssumption DEF Init
    <2> QED BY <2>2, <2>3, <2>4 DEF Init, TypeOK
  <1>2. \A s \in Slot : ~ConfigParses[s] /\ ~CalibParses[s]
    <2>1. \A s \in Slot : config[s].st # "image" /\ calib1[s].st # "image"
      BY DEF Init, Blank, Junk
    <2> QED BY <2>1 DEF ConfigParses, CalibParses, ConfigValid, CalibValid
  <1>3. ConfigPick.body = DefaultBody /\ CalibPick.body = DefaultBody
    BY <1>1, <1>2, PickNone, ParsesType
       DEF ConfigPick, CalibPick, ConfigParses, CalibParses
  <1>4. NoLostSave /\ AdjacentSeqs
    BY <1>2, <1>3 DEF Init, NoLostSave, AdjacentSeqs, ConfigParses, CalibParses, Slot
  <1> QED BY <1>1, <1>4 DEF Init, IInv, StepInv, WrittenInv, MayInv, DirtyInv,
             SparedInv, SavingConfig, SavingCalib, Wiping

(* Boot primes the A/B state from adjacent images.                         *)
LEMMA BootKeeps == IInv /\ TypeOK' /\ Boot => IInv'
  <1> SUFFICES ASSUME IInv, TypeOK', Boot PROVE IInv'
    OBVIOUS
  <1> USE ParsesType DEF IInv, Boot, flash
  <1>1. /\ Adjacent(ConfigParses, config)
        /\ Adjacent(CalibParses, calib1)
        /\ ConfigPick = BootPick(ConfigParses, config)
        /\ CalibPick = BootPick(CalibParses, calib1)
        /\ config \in [Slot -> Page] /\ calib1 \in [Slot -> Page]
    BY DEF TypeOK, AdjacentSeqs, Adjacent, ConfigPick, CalibPick,
           ConfigParses, CalibParses, Slot
  <1>2. ConfigParses' = ConfigParses /\ CalibParses' = CalibParses
    BY DEF ConfigParses, CalibParses, ConfigValid, CalibValid
  <1>3. /\ InStep(ConfigParses, config, ConfigPick.slot, ConfigPick.seq, FALSE)
        /\ IF ConfigParses[other(ConfigPick.slot)]
           THEN ConfigPick.body = config[other(ConfigPick.slot)].body
           ELSE ConfigPick.body = DefaultBody /\ ~ConfigParses[ConfigPick.slot]
        /\ ConfigPick.slot \in Slot
    BY <1>1, PickInStep
  <1>4. /\ InStep(CalibParses, calib1, CalibPick.slot, CalibPick.seq, FALSE)
        /\ IF CalibParses[other(CalibPick.slot)]
           THEN CalibPick.body = calib1[other(CalibPick.slot)].body
           ELSE CalibPick.body = DefaultBody /\ ~CalibParses[CalibPick.slot]
        /\ CalibPick.slot \in Slot
    BY <1>1, PickInStep
  <1>5. StepInv'
    BY <1>2, <1>3, <1>4 DEF StepInv, InStep
  <1>6. MayInv'
    BY <1>2, <1>3, <1>4 DEF MayInv, Covered, SavingConfig, SavingCalib, Wiping
  <1>7. DirtyInv'
    BY <1>2, <1>3, OtherSlot DEF DirtyInv, ConfigParses, SavingCalib, Wiping
  <1>8. WrittenInv'
    BY DEF WrittenInv
  <1>9. SparedInv'
    BY <1>2, <1>3, <1>4 DEF SparedInv
  <1> QED BY <1>5, <1>6, <1>7, <1>8, <1>9

(* Losing power leaves what the flash promises.                            *)
LEMMA OffKeeps == IInv /\ TypeOK' /\ (PowerCut \/ TakeReboot) => IInv'
  <1> SUFFICES ASSUME IInv, TypeOK', PowerCut \/ TakeReboot PROVE IInv'
    OBVIOUS
  <1>1. pc' = "off" /\ UNCHANGED <<config, calib1, calib2, mayLoad>>
    BY DEF PowerCut, TakeReboot, LoseRam, flash, ghost
  <1>2. NoLostSave' /\ AdjacentSeqs'
    BY <1>1, InvSafe DEF NoLostSave, AdjacentSeqs, ConfigPick, CalibPick,
       BootPick, Winner, ConfigValid, CalibValid
  <1> QED BY <1>1, <1>2 DEF IInv, StepInv, WrittenInv, MayInv, DirtyInv,
             SparedInv, SavingConfig, SavingCalib, Wiping

HostStep == \/ MgmtReboot \/ RefuseTorque \/ SaveBegin \/ FactoryBegin
            \/ \E b \in Bodies : WriteConfig(b) \/ WriteCalib(b)
            \/ \E t \in BOOLEAN : WriteTorque(t)
            \/ FailVerify \/ WipeFailed \/ UNCHANGED vars

(* Steps that touch neither the flash nor the A/B state.                   *)
LEMMA HostKeeps == IInv /\ TypeOK' /\ HostStep => IInv'
  <1> SUFFICES ASSUME IInv, TypeOK', HostStep PROVE IInv'
    OBVIOUS
  <1> USE DEF IInv
  <1>1. UNCHANGED <<config, calib1, calib2, store>>
    BY DEF HostStep, MgmtReboot, RefuseTorque, SaveBegin, FactoryBegin,
           WriteConfig, WriteCalib, WriteTorque, FailVerify, WipeFailed,
           vars, flash, ram
  <1>2. ConfigParses' = ConfigParses /\ CalibParses' = CalibParses
    BY <1>1 DEF ConfigParses, CalibParses, ConfigValid, CalibValid
  <1>3. CASE UNCHANGED vars
    BY <1>1, <1>2, <1>3 DEF vars, flash, ram, ghost, StepInv, WrittenInv, MayInv,
       DirtyInv, SparedInv, NoLostSave, AdjacentSeqs, ConfigPick, CalibPick, NewConfigPage,
       NewCalibPage, ConfigValid, CalibValid
  <1>4. CASE FailVerify
    <2>1. pc' = "idle" /\ UNCHANGED <<table, dirty, mayLoad, wiped>>
      BY <1>4 DEF FailVerify, ram, ghost
    <2>2. /\ pc = "verify_config" => ~ConfigParses[store.next_slot]
          /\ pc = "verify_calib" => ~CalibParses[store.calib_next_slot]
      BY <1>4 DEF FailVerify, WrittenInv, ConfigIntact, CalibIntact,
         ConfigParses, CalibParses, ConfigValid, CalibValid, TypeOK
    <2>3. pc \in {"verify_config", "verify_calib"}
      BY <1>4 DEF FailVerify
    <2>4. StepInv'
      BY <1>1, <1>2, <2>1, <2>2, <2>3 DEF StepInv, InStep
    <2>5. MayInv'
      BY <1>1, <1>2, <2>1, <2>3 DEF MayInv, SavingConfig, SavingCalib, Wiping
    <2>6. DirtyInv'
      BY <1>1, <1>2, <2>1, <2>2, <2>3
         DEF DirtyInv, SavingConfig, SavingCalib, Wiping, ConfigValid,
             ConfigParses, TypeOK
    <2>7. SparedInv'
      BY <1>1, <1>2, <2>1, <2>2, <2>3 DEF SparedInv
    <2> QED BY <2>1, <2>4, <2>5, <2>6, <2>7 DEF WrittenInv
  <1>5. CASE SaveBegin
    <2>1. /\ pc = "idle" /\ pc' = "erase_config" /\ UNCHANGED <<table, dirty, wiped>>
          /\ mayLoad' = [config |-> mayLoad.config \cup {table.config},
                         calib  |-> mayLoad.calib \cup {table.calib}]
      BY <1>5 DEF SaveBegin, ram
    <2>2. StepInv'
      BY <1>1, <1>2, <2>1 DEF StepInv
    <2>3. MayInv'
      BY <1>1, <1>2, <2>1 DEF MayInv, Covered, SavingConfig, SavingCalib, Wiping
    <2>4. DirtyInv'
      BY <1>1, <1>2, <2>1 DEF DirtyInv, SavingCalib, Wiping, ConfigValid
    <2>5. SparedInv'
      BY <1>1, <1>2, <2>1 DEF SparedInv
    <2> QED BY <2>1, <2>2, <2>3, <2>4, <2>5 DEF WrittenInv
  <1>6. CASE FactoryBegin
    <2>1. /\ pc = "idle" /\ pc' = "wipe_config_A" /\ UNCHANGED <<table, dirty>>
          /\ mayLoad' = [config |-> Bodies, calib |-> Bodies] /\ wiped'
      BY <1>6 DEF FactoryBegin, ram
    <2>2. StepInv'
      BY <1>1, <1>2, <2>1 DEF StepInv
    <2>3. \A s \in Slot : config[s].body \in Bodies /\ calib1[s].body \in Bodies
      BY DEF TypeOK, Page
    <2>4. MayInv'
      BY <1>1, <1>2, <2>1, <2>3, OtherSlot, BodiesAssumption
         DEF MayInv, Covered, SavingConfig, SavingCalib, Wiping, TypeOK
    <2>5. DirtyInv'
      BY <2>1 DEF DirtyInv, SavingCalib
    <2> QED BY <2>1, <2>2, <2>4, <2>5 DEF WrittenInv, SparedInv
  <1>7. CASE WipeFailed
    <2>1. /\ pc = "wipe_check" /\ pc' = "idle"
          /\ UNCHANGED <<table, dirty, wiped, mayLoad>>
      BY <1>7 DEF WipeFailed, ram, ghost
    <2> QED BY <1>1, <1>2, <2>1 DEF StepInv, MayInv, DirtyInv, WrittenInv,
               SparedInv, SavingConfig, SavingCalib, Wiping
  <1>8. CASE \E b \in Bodies : WriteConfig(b) \/ WriteCalib(b)
    <2>1. /\ pc = "idle" /\ pc' = "idle" /\ UNCHANGED <<wiped, mayLoad>>
          /\ dirty' \/ (table'.config = table.config /\ dirty' = dirty)
      BY <1>8 DEF WriteConfig, WriteCalib, ghost, TypeOK
    <2> QED BY <1>1, <1>2, <2>1 DEF StepInv, MayInv, DirtyInv, WrittenInv,
               SparedInv, SavingConfig, SavingCalib, Wiping, ConfigValid
  <1>9. CASE MgmtReboot \/ RefuseTorque \/ \E t \in BOOLEAN : WriteTorque(t)
    <2>1. pc = "idle" /\ pc' = "idle" /\ UNCHANGED <<wiped, mayLoad, dirty, table>>
      BY <1>9 DEF MgmtReboot, RefuseTorque, WriteTorque, ghost, ram
    <2> QED BY <1>1, <1>2, <2>1 DEF StepInv, MayInv, DirtyInv, WrittenInv,
               SparedInv, SavingConfig, SavingCalib, Wiping, ConfigValid
  <1> QED BY <1>3, <1>4, <1>5, <1>6, <1>7, <1>8, <1>9 DEF HostStep

(* Erasing and programming the CONFIG page of the slot being replaced.     *)
LEMMA ConfigPageKeeps ==
    IInv /\ TypeOK' /\ (EraseConfig \/ ProgramConfig) => IInv'
  <1> SUFFICES ASSUME IInv, TypeOK', EraseConfig \/ ProgramConfig PROVE IInv'
    OBVIOUS
  <1> DEFINE ns == store.next_slot
  <1> USE DEF IInv
  <1>1. /\ UNCHANGED <<calib1, calib2, store, table, dirty, mayLoad, wiped>>
        /\ pc \in {"erase_config", "write_config"}
        /\ pc' \in {"write_config", "verify_config"}
        /\ pc' = "write_config" <=> pc = "erase_config"
    BY DEF EraseConfig, ProgramConfig, ram, ghost
  <1>2. ns \in Slot /\ other(ns) \in Slot /\ config \in [Slot -> Page]
                    /\ NewConfigPage \in Page
    BY OtherSlot, NewPages DEF TypeOK
  <1>3. /\ config'[other(ns)] = config[other(ns)]
        /\ config'[ns].st = "image" =>
             \/ config'[ns] = config[ns] /\ pc' = "write_config"
             \/ config'[ns] = NewConfigPage /\ pc' = "verify_config"
    <2>1. CASE EraseConfig
      BY <1>2, <2>1, ErasedFacts DEF EraseConfig, Blank, Junk
    <2>2. CASE ProgramConfig
      BY <1>2, <2>2, ProgrammedFacts DEF ProgramConfig, Blank, Junk
    <2> QED BY <2>1, <2>2
  <1>4. /\ CalibParses' = CalibParses
        /\ ConfigParses'[other(ns)] = ConfigParses[other(ns)]
        /\ ConfigParses'[ns] = (config'[ns].st = "image")
        /\ ConfigParses[ns] = (config[ns].st = "image")
    BY <1>1, <1>2, <1>3 DEF ConfigParses, CalibParses, ConfigValid, CalibValid
  <1>5. NewConfigPage.seq = store.next_seq /\ NewConfigPage.body = table.config
    BY DEF NewConfigPage, ImagePage
  <1>6. StepInv'
    BY <1>1, <1>3, <1>4, <1>5 DEF StepInv, InStep
  <1>7. WrittenInv'
    BY <1>1, <1>3 DEF WrittenInv, NewConfigPage
  <1>8. MayInv'
    BY <1>1, <1>3, <1>4, <1>5 DEF MayInv, Covered, SavingConfig, SavingCalib, Wiping
  <1>9. DirtyInv'
    BY <1>1, <1>2, <1>3, <1>4 DEF DirtyInv, SavingCalib, Wiping, ConfigValid
  <1>10. SparedInv'
    BY <1>1, <1>3, <1>4 DEF SparedInv
  <1> QED BY <1>1, <1>6, <1>7, <1>8, <1>9, <1>10

(* A verified CONFIG image becomes the one a boot loads.                   *)
LEMMA VerifyConfigKeeps == IInv /\ TypeOK' /\ VerifyConfig => IInv'
  <1> SUFFICES ASSUME IInv, TypeOK', VerifyConfig PROVE IInv'
    OBVIOUS
  <1> DEFINE ns == store.next_slot
  <1> USE DEF IInv
  <1>1. /\ UNCHANGED <<config, calib1, calib2, table, dirty, wiped>>
        /\ pc = "verify_config" /\ pc' = "erase_calib1"
        /\ config[ns] = NewConfigPage
        /\ store'.next_slot = other(ns)
        /\ store'.next_seq = wrapping_add1(store.next_seq)
        /\ store'.calib_next_slot = store.calib_next_slot
        /\ store'.calib_next_seq = store.calib_next_seq
        /\ mayLoad'.config = {table.config} /\ mayLoad'.calib = mayLoad.calib
    BY DEF VerifyConfig, ConfigIntact, flash, TypeOK
  <1>2. /\ ns \in Slot /\ other(ns) \in Slot /\ other(other(ns)) = ns
        /\ config[ns].st = "image" /\ config[ns].seq = store.next_seq
        /\ config[ns].body = table.config
    BY <1>1, OtherSlot DEF TypeOK, NewConfigPage, ImagePage
  <1>3. /\ ConfigParses' = ConfigParses /\ CalibParses' = CalibParses
        /\ ConfigParses[ns]
    BY <1>1, <1>2 DEF ConfigParses, CalibParses, ConfigValid, CalibValid
  <1>4. StepInv'
    BY <1>1, <1>2, <1>3 DEF StepInv, InStep
  <1>5. WrittenInv'
    BY <1>1 DEF WrittenInv
  <1>6. MayInv'
    BY <1>1, <1>2, <1>3 DEF MayInv, Covered, SavingConfig, SavingCalib, Wiping
  <1>7. DirtyInv'
    BY <1>1, <1>2 DEF DirtyInv, SavingCalib, Wiping, ConfigValid
  <1>8. SparedInv'
    BY <1>1, <1>2, <1>3 DEF SparedInv
  <1> QED BY <1>1, <1>4, <1>5, <1>6, <1>7, <1>8

(* Erasing and programming the two CALIB pages of the slot being replaced. *)
LEMMA CalibPageKeeps ==
    /\ IInv /\ TypeOK'
    /\ EraseCalib1 \/ EraseCalib2 \/ ProgramCalib1 \/ ProgramCalib2
    => IInv'
  <1> SUFFICES ASSUME IInv, TypeOK',
                      EraseCalib1 \/ EraseCalib2 \/ ProgramCalib1 \/ ProgramCalib2
               PROVE  IInv'
    OBVIOUS
  <1> DEFINE ns == store.calib_next_slot
  <1> USE DEF IInv
  <1>1. /\ UNCHANGED <<config, store, table, dirty, mayLoad, wiped>>
        /\ pc \in {"erase_calib1", "erase_calib2", "write_calib1", "write_calib2"}
        /\ pc' \in {"erase_calib2", "write_calib1", "write_calib2", "verify_calib"}
    BY DEF EraseCalib1, EraseCalib2, ProgramCalib1, ProgramCalib2, ram, ghost
  <1>2. /\ ns \in Slot /\ other(ns) \in Slot
        /\ calib1 \in [Slot -> Page] /\ calib2 \in [Slot -> Page]
        /\ NewCalibPage \in Page /\ TailPage(table.calib) \in Page
    BY OtherSlot, NewPages DEF TypeOK
  <1>3. calib1'[other(ns)] = calib1[other(ns)] /\ calib2'[other(ns)] = calib2[other(ns)]
    <2>1. CASE EraseCalib1
      BY <1>2, <2>1, ErasedFacts DEF EraseCalib1
    <2>2. CASE EraseCalib2
      BY <1>2, <2>2, ErasedFacts DEF EraseCalib2
    <2>3. CASE ProgramCalib1
      BY <1>2, <2>3, ProgrammedFacts DEF ProgramCalib1
    <2>4. CASE ProgramCalib2
      BY <1>2, <2>4, ProgrammedFacts DEF ProgramCalib2
    <2> QED BY <2>1, <2>2, <2>3, <2>4
  <1>4. /\ NewCalibPage.seq = store.calib_next_seq
        /\ NewCalibPage.body = table.calib
        /\ NewCalibPage' = NewCalibPage
        /\ TailPage(table.calib)' = TailPage(table.calib)
    BY <1>1 DEF NewCalibPage, ImagePage, TailPage
  <1>5. /\ pc' \in {"erase_calib2", "write_calib1"} =>
             (calib1'[ns].st = "image" => calib1'[ns] = calib1[ns])
        /\ pc' \in {"erase_calib2", "write_calib1"} =>
             (calib2'[ns].st = "image" => calib2'[ns] = calib2[ns])
        /\ pc' \in {"erase_calib2", "write_calib1"} =>
             pc \in {"erase_calib1", "erase_calib2"}
        /\ pc' \in {"write_calib2", "verify_calib"} =>
             (calib1'[ns].st = "image" => calib1'[ns] = NewCalibPage)
        /\ pc' = "verify_calib" =>
             (calib2'[ns].st = "image" => calib2'[ns] = TailPage(table.calib))
    <2>1. CASE EraseCalib1
      BY <1>2, <2>1, ErasedFacts DEF EraseCalib1, Blank, Junk
    <2>2. CASE EraseCalib2
      BY <1>2, <2>2, ErasedFacts DEF EraseCalib2, Blank, Junk
    <2>3. CASE ProgramCalib1
      BY <1>2, <2>3, ProgrammedFacts DEF ProgramCalib1, Blank, Junk
    <2>4. CASE ProgramCalib2
      BY <1>2, <2>4, ProgrammedFacts DEF ProgramCalib2, Blank, Junk, WrittenInv
    <2> QED BY <2>1, <2>2, <2>3, <2>4
  <1>6. /\ ConfigParses' = ConfigParses
        /\ CalibParses'[other(ns)] = CalibParses[other(ns)]
        /\ CalibParses'[ns] =>
             \/ /\ pc' \in {"write_calib2", "verify_calib"}
                /\ calib1'[ns] = NewCalibPage
             \/ /\ pc \in {"erase_calib1", "erase_calib2"}
                /\ CalibParses[ns]
                /\ calib1'[ns] = calib1[ns]
    BY <1>1, <1>2, <1>3, <1>5 DEF ConfigParses, CalibParses, ConfigValid, CalibValid
  <1>7. StepInv'
    BY <1>1, <1>3, <1>4, <1>6 DEF StepInv, InStep
  <1>8. WrittenInv'
    BY <1>1, <1>4, <1>5 DEF WrittenInv
  <1>9. MayInv'
    BY <1>1, <1>3, <1>4, <1>6 DEF MayInv, Covered, SavingConfig, SavingCalib, Wiping
  <1>10. DirtyInv'
    BY <1>1 DEF DirtyInv, SavingCalib, Wiping, ConfigValid
  <1>11. SparedInv'
    BY <1>1, <1>6 DEF SparedInv
  <1> QED BY <1>1, <1>7, <1>8, <1>9, <1>10, <1>11

(* A verified CALIB image becomes the one a boot loads.                    *)
LEMMA VerifyCalibKeeps == IInv /\ TypeOK' /\ VerifyCalib => IInv'
  <1> SUFFICES ASSUME IInv, TypeOK', VerifyCalib PROVE IInv'
    OBVIOUS
  <1> DEFINE ns == store.calib_next_slot
  <1> USE DEF IInv
  <1>1. /\ UNCHANGED <<config, calib1, calib2, table>>
        /\ pc = "verify_calib" /\ pc' = "idle"
        /\ calib1[ns] = NewCalibPage /\ calib2[ns] = TailPage(table.calib)
        /\ store'.calib_next_slot = other(ns)
        /\ store'.calib_next_seq = wrapping_add1(store.calib_next_seq)
        /\ store'.next_slot = store.next_slot
        /\ store'.next_seq = store.next_seq
        /\ mayLoad'.calib = {table.calib} /\ mayLoad'.config = mayLoad.config
    BY DEF VerifyCalib, CalibIntact, flash, TypeOK
  <1>2. /\ ns \in Slot /\ other(ns) \in Slot /\ other(other(ns)) = ns
        /\ calib1[ns].st = "image" /\ calib1[ns].seq = store.calib_next_seq
        /\ calib1[ns].body = table.calib
        /\ calib2[ns].st = "image" /\ calib2[ns].body = TailOf[table.calib]
    BY <1>1, OtherSlot DEF TypeOK, NewCalibPage, ImagePage, TailPage
  <1>3. /\ ConfigParses' = ConfigParses /\ CalibParses' = CalibParses
        /\ CalibParses[ns]
    BY <1>1, <1>2 DEF ConfigParses, CalibParses, ConfigValid, CalibValid
  <1>4. StepInv'
    BY <1>1, <1>2, <1>3 DEF StepInv, InStep
  <1>5. WrittenInv'
    BY <1>1 DEF WrittenInv
  <1>6. MayInv'
    BY <1>1, <1>2, <1>3 DEF MayInv, Covered, SavingConfig, SavingCalib, Wiping
  <1>7. DirtyInv'
    BY <1>1 DEF DirtyInv, SavingCalib, Wiping, ConfigValid
  <1>8. SparedInv'
    <2>1. ConfigParses[other(store.next_slot)]
      BY <1>1, OtherSlot DEF DirtyInv, SavingCalib, ConfigParses, TypeOK
    <2> QED BY <1>1, <1>2, <1>3, <2>1 DEF SparedInv
  <1> QED BY <1>1, <1>4, <1>5, <1>6, <1>7, <1>8

(* Erasing any page, while FACTORY has withdrawn every promise.            *)
LEMMA WipeKeeps == IInv /\ TypeOK' /\ Wipe => IInv'
  <1> SUFFICES ASSUME IInv, TypeOK', Wipe PROVE IInv'
    OBVIOUS
  <1> USE DEF IInv
  <1>1. /\ UNCHANGED <<store, table, dirty, mayLoad, wiped>>
        /\ pc \in Wiping /\ pc' \in Wiping
    BY DEF Wipe, WipeConfig, WipeCalib1, WipeCalib2, ram, ghost, Wiping
  <1>2. \A s \in Slot : /\ config'[s].st = "image" => config'[s] = config[s]
                        /\ calib1'[s].st = "image" => calib1'[s] = calib1[s]
                        /\ calib2'[s].st = "image" => calib2'[s] = calib2[s]
    <2>1. ASSUME NEW t \in Slot, NEW here, NEW next,
                 \/ WipeConfig(t, here, next)
                 \/ WipeCalib1(t, here, next)
                 \/ WipeCalib2(t, here, next)
          PROVE  \A s \in Slot : /\ config'[s].st = "image" => config'[s] = config[s]
                                 /\ calib1'[s].st = "image" => calib1'[s] = calib1[s]
                                 /\ calib2'[s].st = "image" => calib2'[s] = calib2[s]
      <3>1. \A s \in Slot : s = t \/ s = other(t)
        BY DEF Slot, other
      <3>2. CASE WipeConfig(t, here, next)
        BY <3>1, <3>2, ErasedFacts DEF WipeConfig, Blank, Junk, TypeOK
      <3>3. CASE WipeCalib1(t, here, next)
        BY <3>1, <3>3, ErasedFacts DEF WipeCalib1, Blank, Junk, TypeOK
      <3>4. CASE WipeCalib2(t, here, next)
        BY <3>1, <3>4, ErasedFacts DEF WipeCalib2, Blank, Junk, TypeOK
      <3> QED BY <2>1, <3>2, <3>3, <3>4
    <2>2. "A" \in Slot /\ "B" \in Slot
      BY DEF Slot
    <2> QED BY <2>1, <2>2 DEF Wipe
  <1>3. \A s \in Slot :
          /\ ConfigParses'[s] => ConfigParses[s] /\ config'[s] = config[s]
          /\ CalibParses'[s] => CalibParses[s] /\ calib1'[s] = calib1[s]
    BY <1>2 DEF ConfigParses, CalibParses, ConfigValid, CalibValid
  <1>4. /\ store.next_slot \in Slot /\ other(store.next_slot) \in Slot
        /\ store.calib_next_slot \in Slot /\ other(store.calib_next_slot) \in Slot
        /\ \A s \in Slot : config'[s].body \in Bodies /\ calib1'[s].body \in Bodies
    BY OtherSlot DEF TypeOK, Page
  <1>5. StepInv'
    BY <1>1, <1>3, <1>4 DEF StepInv, InStep, Wiping
  <1>6. WrittenInv'
    BY <1>1 DEF WrittenInv, Wiping
  <1>7. MayInv'
    BY <1>1, <1>3, <1>4, BodiesAssumption
       DEF MayInv, Covered, SavingConfig, SavingCalib, Wiping
  <1>8. DirtyInv'
    BY <1>1 DEF DirtyInv, SavingCalib, Wiping
  <1> QED BY <1>1, <1>5, <1>6, <1>7, <1>8 DEF Wiping, SparedInv, DirtyInv

(* The erased store restarts the A/B state.                                *)
LEMMA WipeDoneKeeps == IInv /\ TypeOK' /\ WipeDone => IInv'
  <1> SUFFICES ASSUME IInv, TypeOK', WipeDone PROVE IInv'
    OBVIOUS
  <1> USE DEF IInv
  <1>1. /\ UNCHANGED <<config, calib1, calib2, table, dirty, mayLoad, wiped>>
        /\ pc = "wipe_check" /\ pc' = "idle"
        /\ store'.next_slot = "A" /\ store'.calib_next_slot = "A"
    BY DEF WipeDone, flash, ghost, FreshStore
  <1>2. \A s \in Slot : ~ConfigParses'[s] /\ ~CalibParses'[s]
    <2>1. \A s \in Slot : config'[s].st # "image" /\ calib1'[s].st # "image"
      BY <1>1 DEF WipeDone, AllBlank, Blank
    <2> QED BY <2>1 DEF ConfigParses, CalibParses, ConfigValid, CalibValid
  <1>3. "A" \in Slot /\ other("A") \in Slot
    BY DEF Slot, other
  <1>4. StepInv' /\ WrittenInv'
    BY <1>1, <1>2, <1>3 DEF StepInv, InStep, WrittenInv
  <1>5. MayInv'
    BY <1>1, <1>2, <1>3, BodiesAssumption
       DEF MayInv, Covered, SavingConfig, SavingCalib, Wiping
  <1>6. DirtyInv'
    BY <1>1 DEF DirtyInv, SavingCalib, Wiping
  <1>7. SparedInv'
    BY <1>1, <1>2, <1>3 DEF SparedInv
  <1> QED BY <1>1, <1>4, <1>5, <1>6, <1>7

-----------------------------------------------------------------------------
(* The theorems.                                                           *)

(* Every variable of the store keeps its type, whatever fails and whenever *)
(* power is cut.                                                           *)
THEOREM TypeCorrect == Spec => []TypeOK
  <1>1. Init => TypeOK
    BY InvInit DEF IInv
  <1>2. TypeOK /\ [Next]_vars => TypeOK'
    BY TypeStep
  <1> QED BY <1>1, <1>2, PTL DEF Spec

(* The A/B state in RAM always fits the images in flash.                   *)
THEOREM Invariance == Spec => []IInv
  <1>1. IInv /\ [Next]_vars => IInv'
    <2> SUFFICES ASSUME IInv, [Next]_vars PROVE IInv'
      OBVIOUS
    <2>1. TypeOK'
      BY TypeStep DEF IInv
    <2>2. CASE HostStep
      BY <2>1, <2>2, HostKeeps
    <2>3. CASE Boot \/ PowerCut \/ TakeReboot
      BY <2>1, <2>3, BootKeeps, OffKeeps
    <2>4. CASE EraseConfig \/ ProgramConfig \/ VerifyConfig
      BY <2>1, <2>4, ConfigPageKeeps, VerifyConfigKeeps
    <2>5. CASE \/ EraseCalib1 \/ EraseCalib2
               \/ ProgramCalib1 \/ ProgramCalib2 \/ VerifyCalib
      BY <2>1, <2>5, CalibPageKeeps, VerifyCalibKeeps
    <2>6. CASE Wipe \/ WipeDone
      BY <2>1, <2>6, WipeKeeps, WipeDoneKeeps
    <2> QED BY <2>2, <2>3, <2>4, <2>5, <2>6 DEF Next, Save, HostStep
  <1> QED BY <1>1, InvInit, PTL DEF Spec

(* SAVE is power-safe: at every instant a boot would load the image of the *)
(* last verified SAVE, or of one begun since, for CONFIG and for CALIB.    *)
THEOREM SaveIsPowerSafe == Spec => []NoLostSave
  BY Invariance, InvSafe, PTL

(* pick_newest only ever compares adjacent sequence numbers, so the signed *)
(* wrapping difference cannot misjudge which image is newer; and between   *)
(* requests next_slot and calib_next_slot do not name the newest image,    *)
(* unless a FACTORY failed half way since the last SAVE or boot.           *)
THEOREM SeqsStayAdjacent == Spec => []AdjacentSeqs
  BY Invariance, InvSafe, PTL

(* STATUS_FLAG_CONFIG_DIRTY never under-reports CONFIG and PROFILE.        *)
THEOREM DirtyBitHonest == Spec => []DirtyHonest
  BY Invariance, InvDirty, PTL
=============================================================================
