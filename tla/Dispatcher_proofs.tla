------------------------- MODULE Dispatcher_proofs --------------------------
(***************************************************************************)
(* Proofs about Dispatcher, for every control table, set of writes, rule   *)
(* set and buffer capacity.                                                *)
(*                                                                         *)
(* BufferTiled and the refinement are not inductive: a truncation to the   *)
(* watermark of the pending write is right only if that watermark is where *)
(* the last entry begins, and a commit applies what the abstract session   *)
(* applies only if the verdict the write was staged with is still the      *)
(* verdict it would get.  The inductive invariant says both.               *)
(***************************************************************************)
EXTENDS Dispatcher, FiniteSetTheorems, SequenceTheorems,
        WellFoundedInduction, TLAPS

Entry == [write : Writes, off : Nat]

(* The entries `es` tile `n` data bytes within both capacities.            *)
Tiled(es, n) ==
    /\ Len(es) <= EntryCap
    /\ n <= DataCap
    /\ \A i \in 1 .. Len(es) :
          es[i].off + Size(es[i].write) =
              IF i = Len(es) THEN n ELSE es[i + 1].off
    /\ Len(es) > 0 => es[1].off = 0
    /\ es = <<>> => n = 0

(* The pending write is the last entry, its watermark where it begins.     *)
PendingInv ==
    pending.is =>
        /\ Len(entries) = pending.entries + 1
        /\ entries[pending.entries + 1] =
               [write |-> pending.write, off |-> pending.data]

(* While the bus holds the frame, its write is pending and still valid.    *)
OwedInv == owed => pending.is /\ Verdict(table, pending.write) = "ok"

IInv == TypeOK /\ BufferTiled /\ PendingInv /\ OwedInv /\ DirtyTracksSave

-----------------------------------------------------------------------------
(* The operators of the register session.                                  *)

(* A write stages a natural number of units.                               *)
LEMMA SizeType == ASSUME NEW w \in Writes PROVE Size(w) \in Nat
BY WritesAssumption, FS_CardinalityType DEF Size

(* A nonempty set of positions has a last one.                             *)
LEMMA HasLast ==
    ASSUME NEW n \in Nat, NEW S \in SUBSET (1 .. n), S # {}
    PROVE  \E i \in S : \A j \in S : j <= i
<1> DEFINE T == {n - i : i \in S}
<1>1. T \subseteq Nat /\ T # {}
  <2>1. PICK k \in S : TRUE
    OBVIOUS
  <2>2. n - k \in T
    OBVIOUS
  <2>3. ASSUME NEW i \in S PROVE n - i \in Nat
    OBVIOUS
  <2> QED BY <2>2, <2>3
<1>2. PICK x \in T : \A y \in T : ~(<<y, x>> \in OpToRel(<, Nat))
  <2> HIDE DEF T
  <2> QED BY <1>1, NatLessThanWellFounded, WFMin
<1>3. PICK i \in S : x = n - i
  BY <1>2
<1>4. \A y \in T : ~(y < x)
  <2>1. \A y \in T : y \in Nat /\ x \in Nat
    BY <1>1
  <2> HIDE DEF T
  <2>2. \A y \in T : <<y, x>> \in Nat \X Nat
    BY <2>1
  <2> QED BY <1>2, <2>1, <2>2 DEF OpToRel
<1>5. ASSUME NEW j \in S PROVE j <= i
  <2>1. n - j \in T
    OBVIOUS
  <2>2. ~(n - j < n - i)
    BY <2>1, <1>4, <1>3
  <2> QED BY <2>2
<1> QED BY <1>5

(* The entry that decides a register is one that names it.                 *)
LEMMA LastHit ==
    ASSUME NEW n \in Nat, NEW S \in SUBSET (1 .. n), S # {}
    PROVE  (CHOOSE i \in S : \A j \in S : j <= i) \in S
BY HasLast

(* Applying writes leaves a table of the same shape.                       *)
LEMMA AppliedType ==
    ASSUME NEW t \in [Regs -> Values], NEW ws \in Seq(Writes)
    PROVE  Session!Applied(t, ws) \in [Regs -> Values]
<1> SUFFICES ASSUME NEW r \in Regs
             PROVE  Session!Applied(t, ws)[r] \in Values
  BY DEF Session!Applied
<1> DEFINE hits == {i \in 1 .. Len(ws) : r \in DOMAIN ws[i]}
<1> DEFINE last == CHOOSE i \in hits : \A j \in hits : j <= i
<1>1. CASE hits = {}
  BY <1>1 DEF Session!Applied
<1>2. CASE hits # {}
  <2>1. last \in hits
    <3>1. hits \in SUBSET (1 .. Len(ws)) /\ Len(ws) \in Nat
      OBVIOUS
    <3> HIDE DEF hits
    <3> QED BY <3>1, <1>2, LastHit
  <2>2. ws[last] \in Writes /\ r \in DOMAIN ws[last]
    BY <2>1
  <2>3. ws[last][r] \in Values
    BY <2>2, WritesAssumption
  <2> QED BY <1>2, <2>3 DEF Session!Applied
<1> QED BY <1>1, <1>2

(* A register no write names keeps its value.                              *)
LEMMA AppliedUntouched ==
    ASSUME NEW t, NEW ws, NEW S \in SUBSET Regs,
           ~Session!Touches(ws, S)
    PROVE  \A r \in S : Session!Applied(t, ws)[r] = t[r]
BY DEF Session!Applied, Session!Touches

(* One write applied is that write laid over the table.                    *)
LEMMA AppliedSingle ==
    ASSUME NEW t, NEW w, NEW ws, Len(ws) = 1, ws[1] = w
    PROVE  Session!Applied(t, ws) = Session!Overlay(t, w)
<1> SUFFICES ASSUME NEW r \in Regs
             PROVE  Session!Applied(t, ws)[r] = Session!Overlay(t, w)[r]
  BY DEF Session!Applied, Session!Overlay
<1> DEFINE hits == {i \in 1 .. Len(ws) : r \in DOMAIN ws[i]}
<1>1. CASE r \in DOMAIN w
  <2>1. hits = {1}
    BY <1>1
  <2>2. (CHOOSE i \in hits : \A j \in hits : j <= i) = 1
    <3> HIDE DEF hits
    <3> QED BY <2>1
  <2> QED BY <1>1, <2>1, <2>2 DEF Session!Applied, Session!Overlay
<1>2. CASE r \notin DOMAIN w
  BY <1>2 DEF Session!Applied, Session!Overlay
<1> QED BY <1>1, <1>2

-----------------------------------------------------------------------------
(* The buffer after revert_dangling.                                       *)

(* Truncated to the watermark, the buffer is still tiled.                  *)
LEMMA HeldTiled ==
    ASSUME IInv
    PROVE  /\ HeldEntries \in Seq(Entry)
           /\ Len(HeldEntries) \in Nat
           /\ CleanUsed \in Nat
           /\ Tiled(HeldEntries, CleanUsed)
<1> DEFINE k == pending.entries
<1>0. entries \in Seq(Entry) /\ used \in Nat /\ k \in Nat /\ pending.data \in Nat
      /\ EntryCap \in Nat /\ DataCap \in Nat
  BY CapAssumption DEF IInv, TypeOK, Entry
<1>1. CASE ~pending.is
  BY <1>0, <1>1 DEF IInv, HeldEntries, CleanUsed, Tiled, BufferTiled
<1>2. CASE pending.is
  <2>1. /\ Len(entries) = k + 1
        /\ entries[k + 1] = [write |-> pending.write, off |-> pending.data]
        /\ pending.write \in Writes
    BY <1>2 DEF IInv, PendingInv, TypeOK
  <2>2. /\ HeldEntries = SubSeq(entries, 1, k)
        /\ CleanUsed = pending.data
    BY <1>2 DEF HeldEntries, CleanUsed
  <2>3. /\ HeldEntries \in Seq(Entry)
        /\ Len(HeldEntries) = k
        /\ \A i \in 1 .. k : HeldEntries[i] = entries[i]
    BY <1>0, <2>1, <2>2
  <2>4. \A i \in 1 .. k + 1 :
            entries[i].off + Size(entries[i].write) =
                IF i = k + 1 THEN used ELSE entries[i + 1].off
    BY <2>1 DEF IInv, BufferTiled
  <2>5. pending.data + Size(pending.write) = used
    BY <1>0, <2>1, <2>4
  <2>6. pending.data <= DataCap
    BY <1>0, <2>1, <2>5, SizeType DEF IInv, BufferTiled
  <2>7. \A i \in 1 .. k :
            HeldEntries[i].off + Size(HeldEntries[i].write) =
                IF i = k THEN pending.data ELSE HeldEntries[i + 1].off
    <3> SUFFICES ASSUME NEW i \in 1 .. k
                 PROVE  entries[i].off + Size(entries[i].write) =
                          IF i = k THEN pending.data ELSE HeldEntries[i + 1].off
      BY <2>3
    <3>1. entries[i].off + Size(entries[i].write) = entries[i + 1].off
      BY <1>0, <2>4
    <3>2. CASE i = k
      BY <3>1, <3>2, <2>1
    <3>3. CASE i # k
      <4>1. i + 1 \in 1 .. k
        BY <1>0, <3>3
      <4> QED BY <4>1, <3>1, <3>3, <2>3
    <3> QED BY <3>2, <3>3
  <2>8. entries[1].off = 0
    BY <1>0, <2>1 DEF IInv, BufferTiled
  <2>9. k > 0 => HeldEntries[1].off = 0
    BY <1>0, <2>3, <2>8
  <2>10. HeldEntries = <<>> => pending.data = 0
    <3> SUFFICES ASSUME k = 0 PROVE pending.data = 0
      BY <1>0, <2>3
    <3>1. entries[1] = [write |-> pending.write, off |-> pending.data]
      BY <2>1
    <3> QED BY <3>1, <2>8
  <2>11. k <= EntryCap
    BY <1>0, <2>1 DEF IInv, BufferTiled
  <2> QED BY <1>0, <2>2, <2>3, <2>6, <2>7, <2>9, <2>10, <2>11 DEF Tiled
<1> QED BY <1>1, <1>2

(* What the session holds is a sequence of writes.                         *)
LEMMA HeldType ==
    ASSUME IInv
    PROVE  Held \in Seq(Writes) /\ Len(Held) = Len(HeldEntries)
<1> DEFINE n == Len(HeldEntries)
<1>1. n \in Nat
  BY HeldTiled
<1>2. ASSUME NEW i \in 1 .. n PROVE HeldEntries[i].write \in Writes
  <2>1. HeldEntries[i] \in Entry
    BY HeldTiled, ElementOfSeq
  <2> QED BY <2>1 DEF Entry
<1>3. Held \in [1 .. n -> Writes]
  BY <1>2 DEF Held
<1> HIDE DEF n
<1>4. Held \in Seq(Writes)
  BY <1>1, <1>3, SeqDef
<1>5. Len(Held) = n
  BY <1>1, <1>3, <1>4, LenProperties
<1> QED BY <1>4, <1>5 DEF n

(* After revert_dangling, and after any reset of the buffer, the parts of  *)
(* the invariant about the buffer hold.                                    *)
LEMMA RevertedInv ==
    ASSUME IInv, RevertDangling
    PROVE  /\ entries' \in Seq(Entry) /\ used' \in Nat
           /\ BufferTiled' /\ PendingInv' /\ OwedInv'
           /\ pending' = NoPending /\ owed' = FALSE
BY HeldTiled
   DEF RevertDangling, Tiled, BufferTiled, PendingInv, OwedInv, NoPending, Size

LEMMA EmptiedInv ==
    ASSUME IInv, entries' = <<>>, used' = 0, pending' = NoPending, owed' = FALSE
    PROVE  /\ entries' \in Seq(Entry) /\ used' \in Nat
           /\ BufferTiled' /\ PendingInv' /\ OwedInv'
BY CapAssumption DEF BufferTiled, PendingInv, OwedInv, NoPending

LEMMA NoPendingType ==
    /\ NoPending.is = FALSE /\ NoPending.hold \in BOOLEAN
    /\ NoPending.data \in Nat /\ NoPending.entries \in Nat
BY DEF NoPending

(* A verdict that passes applies exactly the write it is about.            *)
LEMMA CommitApplies ==
    ASSUME IInv, owed
    PROVE  /\ pending.write \in Writes
           /\ HeldEntries = SubSeq(entries, 1, pending.entries)
           /\ CleanUsed = pending.data
           /\ Session!Applied(table, AboveWatermark)
                = Session!Overlay(table, pending.write)
           /\ Session!Overlay(table, pending.write) \in [Regs -> Values]
<1>1. /\ pending.is
      /\ pending.write \in Writes
      /\ pending.entries \in Nat
      /\ Len(entries) = pending.entries + 1
      /\ entries[pending.entries + 1].write = pending.write
  BY DEF IInv, OwedInv, PendingInv, TypeOK
<1>2. Len(entries) - pending.entries = 1
  BY <1>1
<1>3. AboveWatermark = [i \in 1 .. 1 |-> entries[pending.entries + i].write]
  BY <1>2 DEF AboveWatermark
<1>4. Len(AboveWatermark) = 1 /\ AboveWatermark[1] = pending.write
  BY <1>1, <1>3
<1>5. Session!Overlay(table, pending.write) \in [Regs -> Values]
  BY <1>1, WritesAssumption DEF Session!Overlay, IInv, TypeOK
<1> QED BY <1>1, <1>4, <1>5, AppliedSingle DEF HeldEntries, CleanUsed

-----------------------------------------------------------------------------
(* The inductive invariant, action by action.                              *)

LEMMA InitInv == ASSUME Init PROVE IInv
<1>1. TypeOK
  <2>1. entries \in Seq([write : Writes, off : Nat])
    BY EmptySeq DEF Init
  <2>2. NoPending.is => NoPending.write \in Writes
    BY NoPendingType
  <2> QED BY <2>1, <2>2, RegsAssumption, NoPendingType DEF Init, TypeOK
<1>2. BufferTiled
  BY CapAssumption DEF Init, BufferTiled
<1>3. PendingInv /\ OwedInv
  BY NoPendingType DEF Init, PendingInv, OwedInv
<1>4. DirtyTracksSave
  BY DEF Init, DirtyTracksSave
<1> QED BY <1>1, <1>2, <1>3, <1>4 DEF IInv

LEMMA RevertKeepsInv ==
    ASSUME IInv, RevertDangling, UNCHANGED <<table, dirty, saved, wiped>>
    PROVE  IInv'
BY RevertedInv, NoPendingType
   DEF IInv, TypeOK, DirtyTracksSave, Entry

LEMMA StageWriteInv ==
    ASSUME IInv, NEW w \in Writes, NEW hold \in BOOLEAN, StageWrite(w, hold)
    PROVE  IInv'
<1> DEFINE e == [write |-> w, off |-> CleanUsed]
           n == Len(HeldEntries)
<1>0. /\ HeldEntries \in Seq(Entry) /\ n \in Nat /\ CleanUsed \in Nat
      /\ Tiled(HeldEntries, CleanUsed)
      /\ EntryCap \in Nat /\ DataCap \in Nat
      /\ Size(w) \in Nat
  BY HeldTiled, CapAssumption, SizeType
<1>1. e \in Entry
  BY <1>0 DEF Entry
<1>2. /\ entries' = Append(HeldEntries, e)
      /\ used' = CleanUsed + Size(w)
      /\ pending' = [is |-> TRUE, data |-> CleanUsed, entries |-> n,
                     hold |-> hold, write |-> w]
      /\ owed' = TRUE
      /\ UNCHANGED <<table, dirty, saved, wiped>>
      /\ Verdict(table, w) = "ok"
      /\ CleanUsed + Size(w) <= DataCap
      /\ n < EntryCap
  BY DEF StageWrite, Stageable
<1>3. /\ entries' \in Seq(Entry)
      /\ Len(entries') = n + 1
      /\ \A i \in 1 .. n : entries'[i] = HeldEntries[i]
      /\ entries'[n + 1] = e
      /\ entries' # <<>>
  <2> HIDE DEF e
  <2> QED BY <1>0, <1>1, <1>2, AppendProperties
<1> HIDE DEF n
<1>4. TypeOK'
  BY <1>0, <1>2, <1>3 DEF IInv, TypeOK, Entry
<1>5. BufferTiled'
  <2>1. ASSUME NEW i \in 1 .. n + 1
        PROVE  entries'[i].off + Size(entries'[i].write) =
                 IF i = n + 1 THEN used' ELSE entries'[i + 1].off
    <3>1. CASE i = n + 1
      BY <3>1, <1>2, <1>3
    <3>2. CASE i = n
      BY <3>2, <1>0, <1>3 DEF Tiled, n
    <3>3. CASE i < n
      <4>1. i \in 1 .. n /\ i + 1 \in 1 .. n
        BY <1>0, <3>3
      <4> QED BY <4>1, <3>3, <1>0, <1>3, SMTT(20) DEF Tiled, n
    <3> QED BY <1>0, <3>1, <3>2, <3>3
  <2>2. entries'[1].off = 0
    <3>1. CASE n = 0
      BY <3>1, <1>0, <1>3 DEF Tiled, n
    <3>2. CASE n > 0
      BY <3>2, <1>0, <1>3 DEF Tiled, n
    <3> QED BY <1>0, <3>1, <3>2
  <2> QED BY <1>0, <1>2, <1>3, <2>1, <2>2 DEF BufferTiled, Size
<1>6. PendingInv'
  BY <1>2, <1>3 DEF PendingInv
<1>7. OwedInv'
  BY <1>2 DEF OwedInv, Verdict, Session!Verdict
<1>8. DirtyTracksSave'
  BY <1>2 DEF IInv, DirtyTracksSave
<1> QED BY <1>4, <1>5, <1>6, <1>7, <1>8 DEF IInv

LEMMA CommitHoldInv == ASSUME IInv, CommitHold PROVE IInv'
BY NoPendingType
   DEF CommitHold, IInv, TypeOK, BufferTiled, PendingInv, OwedInv,
       DirtyTracksSave, Size

LEMMA CommitWriteInv == ASSUME IInv, CommitWrite PROVE IInv'
<1>1. owed /\ RevertDangling
  BY CommitApplies DEF CommitWrite, RevertDangling
<1>2. /\ table' = Session!Overlay(table, pending.write)
      /\ table' \in [Regs -> Values]
      /\ dirty' = (dirty \/ DOMAIN pending.write \cap Persistent # {})
      /\ UNCHANGED <<saved, wiped>>
  BY CommitApplies DEF CommitWrite
<1>3. DirtyTracksSave'
  BY <1>2, RegsAssumption DEF IInv, DirtyTracksSave, Session!Overlay
<1> QED BY <1>1, <1>2, <1>3, RevertedInv, NoPendingType DEF IInv, TypeOK, Entry

LEMMA RevertInv == ASSUME IInv, Revert PROVE IInv'
BY CommitApplies, RevertKeepsInv DEF Revert, RevertDangling

LEMMA FrameDiesInv == ASSUME IInv, FrameDies PROVE IInv'
BY DEF FrameDies, IInv, TypeOK, BufferTiled, PendingInv, OwedInv,
       DirtyTracksSave, Size

LEMMA ApplyCommitInv == ASSUME IInv, ApplyCommit PROVE IInv'
<1>1. /\ table' = Session!Applied(table, Held)
      /\ dirty' = (dirty \/ Session!Touches(Held, Persistent))
      /\ UNCHANGED <<saved, wiped>>
      /\ entries' = <<>> /\ used' = 0 /\ pending' = NoPending /\ owed' = FALSE
  BY DEF ApplyCommit
<1>2. table' \in [Regs -> Values]
  BY <1>1, HeldType, AppliedType DEF IInv, TypeOK
<1>3. DirtyTracksSave'
  BY <1>1, RegsAssumption, AppliedUntouched DEF IInv, DirtyTracksSave
<1>4. dirty' \in BOOLEAN
  BY <1>1 DEF IInv, TypeOK
<1> QED BY <1>1, <1>2, <1>3, <1>4, EmptiedInv, NoPendingType DEF IInv, TypeOK, Entry

LEMMA AssignInv == ASSUME IInv, NEW v, Assign(v) PROVE IInv'
<1>1. RevertDangling /\ UNCHANGED <<saved, wiped>>
  BY DEF Assign
<1>2. CASE v \in UnicastIds
  BY <1>1, <1>2, RevertedInv, NoPendingType, RegsAssumption
     DEF Assign, IInv, TypeOK, DirtyTracksSave, Entry
<1>3. CASE v \notin UnicastIds
  BY <1>1, <1>3, RevertKeepsInv DEF Assign
<1> QED BY <1>2, <1>3

LEMMA ImageType == IInv => Session!Image(table) \in [Regs -> Values]
BY RegsAssumption DEF IInv, TypeOK, Session!Image

LEMMA SaveInv ==
    ASSUME IInv, NEW code \in {"ok", "hardware", "access"}, Save(code)
    PROVE  IInv'
<1>1. /\ RevertDangling /\ UNCHANGED table
      /\ saved' \in {saved, Session!Image(table)}
      /\ code = "ok" => saved' = Session!Image(table)
      /\ dirty' = (dirty /\ code # "ok")
      /\ wiped' = (wiped /\ code # "ok")
  BY DEF Save
<1>2. \A r \in Persistent : Session!Image(table)[r] = table[r]
  BY RegsAssumption DEF Session!Image
<1>3. DirtyTracksSave'
  BY <1>1, <1>2 DEF IInv, DirtyTracksSave
<1> QED BY <1>1, <1>3, ImageType, RevertedInv, NoPendingType DEF IInv, TypeOK, Entry

LEMMA FactoryInv ==
    ASSUME IInv, NEW code \in {"ok", "hardware", "access"}, Factory(code)
    PROVE  IInv'
<1>1. /\ RevertDangling /\ UNCHANGED <<table, dirty>>
      /\ saved' \in {saved, InitTable} \cup OldImages
      /\ code = "access" => saved' = saved
      /\ wiped' = (wiped \/ code # "access")
  BY DEF Factory
<1>2. DirtyTracksSave'
  BY <1>1 DEF IInv, DirtyTracksSave
<1> QED BY <1>1, <1>2, RegsAssumption, RevertedInv, NoPendingType
        DEF IInv, TypeOK, Entry

LEMMA RebootInv == ASSUME IInv, Reboot PROVE IInv'
BY EmptiedInv, NoPendingType DEF Reboot, IInv, TypeOK, DirtyTracksSave, Entry

LEMMA NextInv == ASSUME IInv, [Next]_dvars PROVE IInv'
<1>1. CASE DispatchOther
  BY <1>1, RevertKeepsInv DEF DispatchOther
<1>2. ASSUME NEW w \in Writes, RefuseWrite(w) PROVE IInv'
  BY <1>2, RevertKeepsInv DEF RefuseWrite
<1>3. ASSUME NEW w \in Writes, NEW hold \in BOOLEAN, StageWrite(w, hold)
      PROVE  IInv'
  BY <1>3, StageWriteInv
<1>4. CASE CommitHold
  BY <1>4, CommitHoldInv
<1>5. CASE CommitWrite
  BY <1>5, CommitWriteInv
<1>6. CASE Revert
  BY <1>6, RevertInv
<1>7. CASE FrameDies
  BY <1>7, FrameDiesInv
<1>8. CASE ApplyCommit
  BY <1>8, ApplyCommitInv
<1>9. ASSUME NEW v \in IdBytes, Assign(v) PROVE IInv'
  BY <1>9, AssignInv
<1>10. ASSUME NEW code \in {"ok", "hardware", "access"},
              Save(code) \/ Factory(code)
       PROVE  IInv'
  BY <1>10, SaveInv, FactoryInv
<1>11. CASE Reboot
  BY <1>11, RebootInv
<1>12. CASE UNCHANGED dvars
  BY <1>12 DEF dvars, IInv, TypeOK, BufferTiled, PendingInv, OwedInv,
               DirtyTracksSave, Size, Verdict, Session!Verdict
<1> QED BY <1>1, <1>2, <1>3, <1>4, <1>5, <1>6, <1>7, <1>8, <1>9, <1>10, <1>11,
           <1>12 DEF Next

LEMMA Inductive == Spec => []IInv
BY InitInv, NextInv, PTL DEF Spec

(* Every reachable session state has its type (services/dispatch.rs).      *)
THEOREM TypeCorrect == Spec => []TypeOK
<1>1. IInv => TypeOK
  BY DEF IInv
<1> QED BY <1>1, Inductive, PTL

(* The two halves of the staging buffer never come apart: whatever frames  *)
(* are staged, refused, failed, abandoned or committed, the entries' spans *)
(* tile the data bytes within both capacities (staging.rs).                *)
THEOREM StagingTiled == Spec => []BufferTiled
<1>1. IInv => BufferTiled
  BY DEF IInv
<1> QED BY <1>1, Inductive, PTL

(* The dirty bit never under-reports, for every register map and write set *)
(* (osc-native sec 9.4; dispatch.rs commit, apply_commit, assign, save).   *)
THEOREM DirtyIsHonest == Spec => []DirtyTracksSave
<1>1. IInv => DirtyTracksSave
  BY DEF IInv
<1> QED BY <1>1, Inductive, PTL

-----------------------------------------------------------------------------
(* Refinement: dispatch before the verdict is invisible.                   *)

LEMMA HeldOfNone ==
    ASSUME entries' = <<>>, pending' = NoPending
    PROVE  Held' = <<>>
BY NoPendingType DEF Held, HeldEntries

(* revert_dangling takes nothing from what the session holds.              *)
LEMMA RevertKeepsHeld ==
    ASSUME RevertDangling
    PROVE  HeldEntries' = HeldEntries /\ Held' = Held
<1>1. HeldEntries' = HeldEntries
  BY NoPendingType DEF RevertDangling, HeldEntries
<1> QED BY <1>1 DEF Held

LEMMA StageKeepsHeld ==
    ASSUME IInv, NEW w \in Writes, NEW hold \in BOOLEAN, StageWrite(w, hold)
    PROVE  Held' = Held
<1> DEFINE e == [write |-> w, off |-> CleanUsed]
<1>1. HeldEntries \in Seq(Entry) /\ Len(HeldEntries) \in Nat /\ e \in Entry
  BY HeldTiled DEF Entry
<1>2. HeldEntries' = SubSeq(Append(HeldEntries, e), 1, Len(HeldEntries))
  BY DEF StageWrite, HeldEntries
<1>3. SubSeq(Append(HeldEntries, e), 1, Len(HeldEntries)) = HeldEntries
  <2> HIDE DEF e
  <2> QED BY <1>1
<1> QED BY <1>2, <1>3 DEF Held

LEMMA HoldAppends ==
    ASSUME IInv, CommitHold
    PROVE  Held' = Append(Held, pending.write)
<1> DEFINE k == pending.entries
<1>1. /\ owed /\ pending.is /\ k \in Nat
      /\ entries \in Seq(Entry)
      /\ Len(entries) = k + 1
      /\ entries[k + 1].write = pending.write
      /\ pending.write \in Writes
      /\ entries' = entries
      /\ HeldEntries = SubSeq(entries, 1, k)
      /\ HeldEntries' = entries
  BY NoPendingType
     DEF CommitHold, IInv, OwedInv, PendingInv, TypeOK, Entry, HeldEntries
<1>2. Len(HeldEntries) = k /\ \A i \in 1 .. k : HeldEntries[i] = entries[i]
  BY <1>1
<1>3. Held' = [i \in 1 .. k + 1 |-> entries[i].write]
  BY <1>1 DEF Held
<1>4. Held = [i \in 1 .. k |-> entries[i].write]
  BY <1>2 DEF Held
<1>5. Held \in Seq(Writes) /\ Len(Held) = k
  BY <1>2, HeldType
<1> QED BY <1>1, <1>3, <1>4, <1>5

(* Every step of the dispatcher is a step of the register session, or      *)
(* none.                                                                   *)
LEMMA StepRefines ==
    ASSUME IInv, [Next]_dvars
    PROVE  [Session!Next]_(Session!vars)
<1> USE DEF Session!vars
<1>1. CASE DispatchOther
  BY <1>1, RevertKeepsHeld DEF DispatchOther
<1>2. ASSUME NEW w \in Writes, RefuseWrite(w)
      PROVE  UNCHANGED Session!vars
  BY <1>2, RevertKeepsHeld DEF RefuseWrite
<1>3. ASSUME NEW w \in Writes, NEW hold \in BOOLEAN, StageWrite(w, hold)
      PROVE  UNCHANGED Session!vars
  BY <1>3, StageKeepsHeld DEF StageWrite
<1>4. CASE CommitHold
  <2>1. Session!Verdict(table, pending.write) = "ok" /\ pending.write \in Writes
    BY <1>4, CommitApplies DEF CommitHold, IInv, OwedInv, Verdict
  <2>2. Session!Hold(pending.write)
    BY <1>4, <2>1, HoldAppends DEF CommitHold, Session!Hold
  <2> QED BY <2>1, <2>2 DEF Session!Next
<1>5. CASE CommitWrite
  <2>1. Session!Verdict(table, pending.write) = "ok" /\ pending.write \in Writes
    BY <1>5, CommitApplies DEF CommitWrite, IInv, OwedInv, Verdict
  <2>2. RevertDangling
    BY <1>5, CommitApplies DEF CommitWrite, RevertDangling
  <2>3. Session!Write(pending.write)
    BY <1>5, <2>1, <2>2, CommitApplies, RevertKeepsHeld
       DEF CommitWrite, Session!Write
  <2> QED BY <2>1, <2>3 DEF Session!Next
<1>6. CASE Revert
  <2>1. RevertDangling
    BY <1>6, CommitApplies DEF Revert, RevertDangling
  <2> QED BY <1>6, <2>1, RevertKeepsHeld DEF Revert
<1>7. CASE FrameDies
  BY <1>7 DEF FrameDies, Held, HeldEntries
<1>8. CASE ApplyCommit
  <2>1. Session!Commit
    BY <1>8, HeldOfNone DEF ApplyCommit, Session!Commit
  <2> QED BY <2>1 DEF Session!Next
<1>9. ASSUME NEW v \in IdBytes, Assign(v)
      PROVE  [Session!Next]_(Session!vars)
  <2>1. CASE v \in UnicastIds
    <3>1. Session!Assign(v)
      BY <1>9, <2>1, RevertKeepsHeld DEF Assign, Session!Assign
    <3> QED BY <2>1, <3>1 DEF Session!Next
  <2>2. CASE v \notin UnicastIds
    BY <1>9, <2>2, RevertKeepsHeld DEF Assign
  <2> QED BY <2>1, <2>2
<1>10. ASSUME NEW code \in {"ok", "hardware", "access"}, Save(code)
       PROVE  [Session!Next]_(Session!vars)
  <2>0. UNCHANGED <<table, Held>> /\ dirty \in BOOLEAN
    BY <1>10, RevertKeepsHeld DEF Save, IInv, TypeOK
  <2>1. CASE code = "ok"
    <3>1. Session!Save
      BY <1>10, <2>0, <2>1 DEF Save, Session!Save
    <3> QED BY <3>1 DEF Session!Next
  <2>2. CASE code # "ok"
    <3>1. dirty' = dirty
      BY <1>10, <2>0, <2>2 DEF Save
    <3>2. CASE saved' = saved
      BY <2>0, <3>1, <3>2
    <3>3. CASE saved' = Session!Image(table)
      <4>1. Session!SaveFails
        BY <2>0, <3>1, <3>3 DEF Session!SaveFails
      <4> QED BY <4>1 DEF Session!Next
    <3> QED BY <1>10, <2>2, <3>2, <3>3 DEF Save
  <2> QED BY <2>1, <2>2
<1>11. ASSUME NEW code \in {"ok", "hardware", "access"}, Factory(code)
       PROVE  [Session!Next]_(Session!vars)
  <2>0. UNCHANGED <<table, Held, dirty>>
    BY <1>11, RevertKeepsHeld DEF Factory
  <2>1. CASE saved' = saved
    BY <2>0, <2>1
  <2>2. CASE saved' # saved
    <3>1. saved' \in {InitTable} \cup OldImages
      BY <1>11, <2>2 DEF Factory
    <3>2. Session!Factory
      BY <2>0, <3>1 DEF Session!Factory
    <3> QED BY <3>2 DEF Session!Next
  <2> QED BY <2>1, <2>2
<1>12. CASE Reboot
  <2>1. Session!Reboot
    BY <1>12, HeldOfNone DEF Reboot, Session!Reboot
  <2> QED BY <2>1 DEF Session!Next
<1>13. CASE UNCHANGED dvars
  BY <1>13 DEF dvars, Held, HeldEntries
<1> QED BY <1>1, <1>2, <1>3, <1>4, <1>5, <1>6, <1>7, <1>8, <1>9, <1>10, <1>11,
           <1>12, <1>13 DEF Next

(* Dispatch before the verdict is invisible, for every register map, write *)
(* set, rule set and capacity: whatever frames fail or die, the table, the *)
(* held writes and the dirty bit take only the steps of the register       *)
(* session (dispatch.rs write, commit, revert, revert_dangling).           *)
THEOREM DispatchRefinesSession == Spec => ImplementsSession
<1>1. Init => Session!Init
  <2>1. ASSUME Init PROVE Held = <<>>
    BY <2>1, NoPendingType DEF Init, Held, HeldEntries
  <2> QED BY <2>1 DEF Init, Session!Init
<1>2. IInv /\ [Next]_dvars => [Session!Next]_(Session!vars)
  BY StepRefines
<1> QED BY <1>1, <1>2, Inductive, PTL DEF Spec, ImplementsSession, Session!Spec
=============================================================================
